---------------------------- MODULE RecordWriter ----------------------------
(***************************************************************************)
(* The writer of usage records (object/llm_record.go): requests offer      *)
(* records to a bounded channel under a read lock, one goroutine takes     *)
(* them from it and writes them, and prunes the table once a minute.       *)
(* Saving the settings (controllers/setting.go) stops it, starts it, or    *)
(* both, and two requests may save at once: a stopped writer may still be  *)
(* draining its channel beside the one started after it.  The writer of    *)
(* agent records (object/agent_record.go) is the same without the settings *)
(* and without an age at which rows go.                                    *)
(***************************************************************************)
EXTENDS Naturals, Sequences, FiniteSets

CONSTANTS
  Record,
  Writer,      \* writer goroutines, each with a channel of its own, used once
  Caller,      \* requests that save the settings
  Capacity,    \* of a channel
  MaxRecords,  \* rows a prune leaves
  None

ASSUME WriterAssumption ==
  /\ Capacity \in Nat \ {0} /\ MaxRecords \in Nat
  /\ None \notin Writer /\ IsFiniteSet(Record)

VARIABLES
  offered,   \* the records AddLlmRecord was called with
  sending,   \* the channel it is about to send each on: it holds the read lock
  current,   \* llmWriter.queue, and .done: whose they are
  mode,      \* whether the settings want records
  callers,
  writers,   \* the goroutines
  queue,     \* what is in each channel
  closed,    \* the channels that were closed
  done,      \* the writers that have closed theirs
  rows,
  panicked   \* a send on a closed channel

recordVars == <<offered, sending, current, mode, callers, writers, queue, closed, done, rows, panicked>>

Save == [pc : {"idle", "stop", "close", "wait", "start", "lock"},
         queue : Writer \cup {None},
         again : BOOLEAN]      \* to start after it has stopped

NoSave == [pc |-> "idle", queue |-> None, again |-> FALSE]

Goroutine == [pc : {"unborn", "pruning", "aged", "counted", "found", "loop", "write", "ended"},
              hand : Record \cup {None},
              excess : Nat, oldest : SUBSET Record, \* what a prune has counted and found
              others : Nat]                          \* rows others have deleted since

Unborn == [pc |-> "unborn", hand |-> None, excess |-> 0, oldest |-> {}, others |-> 0]

RecordTypeOK ==
  /\ offered \subseteq Record /\ sending \in [Record -> Writer \cup {None}]
  /\ current \in Writer \cup {None} /\ mode \in BOOLEAN
  /\ callers \in [Caller -> Save] /\ writers \in [Writer -> Goroutine]
  /\ queue \in [Writer -> Seq(Record)] /\ \A w \in Writer : Len(queue[w]) <= Capacity
  /\ closed \subseteq Writer /\ done \subseteq closed
  /\ rows \in Seq(Record) /\ panicked \in BOOLEAN

RecordInit ==
  /\ offered = {} /\ sending = [r \in Record |-> None]
  /\ current = None /\ mode = TRUE
  /\ callers = [c \in Caller |-> NoSave]
  /\ writers = [w \in Writer |-> Unborn] /\ queue = [w \in Writer |-> <<>>]
  /\ closed = {} /\ done = {} /\ rows = <<>> /\ panicked = FALSE

-----------------------------------------------------------------------------
(* Requests.                                                               *)

\* AddLlmRecord takes the read lock, and looks whether there is a channel ...
Offer(r) ==
  /\ r \notin offered /\ offered' = offered \cup {r}
  /\ sending' = [sending EXCEPT ![r] = current]
  /\ UNCHANGED <<current, mode, callers, writers, queue, closed, done, rows, panicked>>

\* ... and sends, where it has room, before it gives the lock back.
AddLlmRecord(r) ==
  LET w == sending[r] IN
  /\ w # None /\ sending' = [sending EXCEPT ![r] = None]
  /\ panicked' = (panicked \/ w \in closed)
  /\ queue' = IF w \notin closed /\ Len(queue[w]) < Capacity
              THEN [queue EXCEPT ![w] = Append(@, r)] ELSE queue
  /\ UNCHANGED <<offered, current, mode, callers, writers, closed, done, rows>>

-----------------------------------------------------------------------------
(* Settings.                                                               *)

\* The write lock waits for the readers.
Unlocked == \A r \in Record : sending[r] = None

Left == {w \in Writer : writers[w].pc = "unborn"}
Saving == {c \in Caller : callers[c].pc # "idle"}

\* The new settings are stored, and then applied: off, on, or on with a queue
\* of another size.  A request is made while there are goroutines left for it.
SaveSetting(c) ==
  /\ callers[c].pc = "idle" /\ Cardinality(Left) > Cardinality(Saving)
  /\ \/ mode' = FALSE /\ callers' = [callers EXCEPT ![c].pc = "stop"]
     \/ mode' = TRUE /\ callers' = [callers EXCEPT ![c].pc = "start"]
     \/ mode' = TRUE /\ callers' = [callers EXCEPT ![c].pc = "stop", ![c].again = TRUE]
  /\ UNCHANGED <<offered, sending, current, writers, queue, closed, done, rows, panicked>>

Then(c) == IF callers[c].again THEN [NoSave EXCEPT !.pc = "start"] ELSE NoSave

Taken(c) == IF current = None THEN Then(c)
            ELSE [callers[c] EXCEPT !.pc = "close", !.queue = current]

\* Fault: the channel is taken without waiting for those who hold it.
StopUnlocked(c) ==
  /\ callers[c].pc = "stop" /\ current' = None
  /\ callers' = [callers EXCEPT ![c] = Taken(c)]
  /\ UNCHANGED <<offered, sending, mode, writers, queue, closed, done, rows, panicked>>

\* StopLlmRecordWriter: take the channel under the lock, ...
Stop(c) ==
  /\ callers[c].pc = "stop" /\ Unlocked /\ current' = None
  /\ callers' = [callers EXCEPT ![c] = Taken(c)]
  /\ UNCHANGED <<offered, sending, mode, writers, queue, closed, done, rows, panicked>>

\* ... close it, ...
CloseQueue(c) ==
  /\ callers[c].pc = "close" /\ closed' = closed \cup {callers[c].queue}
  /\ callers' = [callers EXCEPT ![c].pc = "wait"]
  /\ UNCHANGED <<offered, sending, current, mode, writers, queue, done, rows, panicked>>

\* ... and wait for its writer.
Wait(c) ==
  /\ callers[c].pc = "wait" /\ callers[c].queue \in done
  /\ callers' = [callers EXCEPT ![c] = Then(c)]
  /\ UNCHANGED <<offered, sending, current, mode, writers, queue, closed, done, rows, panicked>>

\* StartLlmRecordWriter looks at the mode before it locks.
LookAtMode(c) ==
  /\ callers[c].pc = "start"
  /\ callers' = [callers EXCEPT ![c] = IF mode THEN [@ EXCEPT !.pc = "lock"] ELSE NoSave]
  /\ UNCHANGED <<offered, sending, current, mode, writers, queue, closed, done, rows, panicked>>

StartLlmRecordWriter(c) ==
  /\ callers[c].pc = "lock" /\ Unlocked
  /\ callers' = [callers EXCEPT ![c] = NoSave]
  /\ \/ current # None /\ UNCHANGED <<current, writers>>
     \/ /\ current = None
        /\ \E w \in Left : /\ current' = w
                           /\ writers' = [writers EXCEPT ![w].pc = "pruning"]
  /\ UNCHANGED <<offered, sending, mode, queue, closed, done, rows, panicked>>

-----------------------------------------------------------------------------
(* The writer.                                                             *)

Goes(w, from, to) ==
  writers[w].pc = from /\ writers' = [writers EXCEPT ![w] = to]

At(pc) == [Unborn EXCEPT !.pc = pc]

\* Rows are appended with growing ids: the oldest are the first.  What a
\* delete leaves is in the order it was in.
Without(table, S) ==
  LET left[n \in 0 .. Len(table)] ==
        IF n = 0 THEN <<>>
        ELSE IF table[n] \in S THEN left[n - 1] ELSE Append(left[n - 1], table[n])
  IN  left[Len(table)]

First(n) == {rows[i] : i \in 1 .. (IF n < Len(rows) THEN n ELSE Len(rows))}

\* Those who have counted see rows go that they have not deleted.
Others(ws, w, n) ==
  [v \in Writer |-> IF v # w /\ ws[v].pc \in {"counted", "found"}
                    THEN [ws[v] EXCEPT !.others = @ + n] ELSE ws[v]]

Loop(w) ==
  /\ Goes(w, "loop", At("pruning"))
  /\ UNCHANGED <<offered, sending, current, mode, callers, queue, closed, done, rows, panicked>>

TakeTask(w) ==
  /\ queue[w] # <<>>
  /\ Goes(w, "loop", [At("write") EXCEPT !.hand = Head(queue[w])])
  /\ queue' = [queue EXCEPT ![w] = Tail(@)]
  /\ UNCHANGED <<offered, sending, current, mode, callers, closed, done, rows, panicked>>

\* Fault: an empty channel ends the writer.
EndWhenEmpty(w) ==
  /\ queue[w] = <<>> /\ Goes(w, "loop", At("ended")) /\ done' = done \cup {w}
  /\ UNCHANGED <<offered, sending, current, mode, callers, queue, closed, rows, panicked>>

\* Fault: a closed channel ends the writer.
EndWhenClosed(w) ==
  /\ w \in closed /\ Goes(w, "loop", At("ended")) /\ done' = done \cup {w}
  /\ UNCHANGED <<offered, sending, current, mode, callers, queue, closed, rows, panicked>>

\* Fault: the writer ends and does not say so.
EndInSilence(w) ==
  /\ queue[w] = <<>> /\ w \in closed /\ Goes(w, "loop", At("ended"))
  /\ UNCHANGED <<offered, sending, current, mode, callers, queue, closed, done, rows, panicked>>

\* Closed, and drained.
EndWriter(w) ==
  /\ queue[w] = <<>> /\ w \in closed /\ Goes(w, "loop", At("ended")) /\ done' = done \cup {w}
  /\ UNCHANGED <<offered, sending, current, mode, callers, queue, closed, rows, panicked>>

\* write: the insert may fail, and the record is lost.
Write(w) ==
  /\ Goes(w, "write", At("loop"))
  /\ rows' \in {rows, Append(rows, writers[w].hand)}
  /\ UNCHANGED <<offered, sending, current, mode, callers, queue, closed, done, panicked>>

\* prune: first the rows that are too old, by the time each was offered, ...
PruneAged(w) ==
  /\ writers[w].pc = "pruning"
  /\ \E S \in SUBSET First(Len(rows)) :
       /\ rows' = Without(rows, S)
       /\ writers' = [Others(writers, w, Cardinality(S)) EXCEPT ![w] = At("aged")]
  /\ UNCHANGED <<offered, sending, current, mode, callers, queue, closed, done, panicked>>

\* ... then, where the rest are too many, the oldest of them.
PruneCount(w) ==
  /\ Goes(w, "aged", IF Len(rows) <= MaxRecords THEN At("loop")
                     ELSE [At("counted") EXCEPT !.excess = Len(rows) - MaxRecords])
  /\ UNCHANGED <<offered, sending, current, mode, callers, queue, closed, done, rows, panicked>>

\* Fault: the rows to keep are counted among those to go.
PruneLookupMore(w) ==
  /\ Goes(w, "counted", [writers[w] EXCEPT !.pc = "found", !.oldest = First(writers[w].excess + 1)])
  /\ UNCHANGED <<offered, sending, current, mode, callers, queue, closed, done, rows, panicked>>

PruneLookup(w) ==
  /\ Goes(w, "counted", [writers[w] EXCEPT !.pc = "found", !.oldest = First(writers[w].excess)])
  /\ UNCHANGED <<offered, sending, current, mode, callers, queue, closed, done, rows, panicked>>

PruneDelete(w) ==
  LET gone == Cardinality({i \in DOMAIN rows : rows[i] \in writers[w].oldest})
  IN /\ writers[w].pc = "found" /\ rows' = Without(rows, writers[w].oldest)
     /\ writers' = [Others(writers, w, gone) EXCEPT ![w] = At("loop")]
     /\ UNCHANGED <<offered, sending, current, mode, callers, queue, closed, done, panicked>>

\* Any of these questions to the database may fail, and ends it.
PruneFails(w) ==
  /\ writers[w].pc \in {"pruning", "aged", "counted", "found"}
  /\ writers' = [writers EXCEPT ![w] = At("loop")]
  /\ UNCHANGED <<offered, sending, current, mode, callers, queue, closed, done, rows, panicked>>

\* DeleteLlmRecord and ClearLlmRecords, from the page.
DeleteRows ==
  /\ \E S \in {{rows[i]} : i \in DOMAIN rows} \cup {First(Len(rows))} :
       rows' = Without(rows, S) /\ writers' = Others(writers, None, Cardinality(S))
  /\ rows # <<>>
  /\ UNCHANGED <<offered, sending, current, mode, callers, queue, closed, done, panicked>>

CallerStep(c) == Stop(c) \/ CloseQueue(c) \/ Wait(c) \/ LookAtMode(c) \/ StartLlmRecordWriter(c)

Prune(w) == PruneAged(w) \/ PruneCount(w) \/ PruneLookup(w) \/ PruneDelete(w) \/ PruneFails(w)

RecordNext ==
  \/ \E r \in Record : Offer(r) \/ AddLlmRecord(r)
  \/ \E c \in Caller : SaveSetting(c) \/ CallerStep(c)
  \/ \E w \in Writer : Loop(w) \/ TakeTask(w) \/ EndWriter(w) \/ Write(w) \/ Prune(w)
  \/ DeleteRows

RecordSpec == RecordInit /\ [][RecordNext]_recordVars

\* Everybody goes on.  The writer chooses at random between a channel that is
\* ready and the minute's tick, so it does not pass over the channel for ever.
FairRecordSpec ==
  /\ RecordSpec
  /\ \A r \in Record : WF_recordVars(AddLlmRecord(r))
  /\ \A c \in Caller : WF_recordVars(CallerStep(c))
  /\ \A w \in Writer : /\ WF_recordVars(Write(w) \/ Prune(w))
                       /\ SF_recordVars(TakeTask(w) \/ EndWriter(w))

-----------------------------------------------------------------------------

\* No record is sent on a channel that Stop has closed, which would end the
\* process: closing waits for those who have seen the channel.
NoSendOnClosed == ~panicked

\* A prune leaves the newest MaxRecords rows, less what others deleted between
\* its count and its delete: the page, and a second writer's prune.
PruneLeavesTheNewest ==
  [][\A w \in Writer :
       PruneDelete(w) =>
         /\ Len(rows') + writers[w].others >= MaxRecords
         /\ \E n \in 0 .. Len(rows) : rows' = SubSeq(rows, n + 1, Len(rows))]_recordVars

\* "StopLlmRecordWriter drains the records already accepted", and returns.
StopReturns == \A c \in Caller : callers[c].pc = "wait" ~> callers[c].pc # "wait"

\* The recorder keeps what a best-effort log promises: a stream is a channel
\* with what its writer has in hand, sealed by the close of the channel.
InHand(w) == IF writers[w].pc = "write" THEN <<writers[w].hand>> ELSE <<>>

Log == INSTANCE BestEffortLog WITH
         Stream <- Writer,
         taken <- {r \in offered : sending[r] = None},
         pending <- [w \in Writer |-> InHand(w) \o queue[w]],
         sealed <- closed, settled <- done, log <- rows

KeepsTheLog == Log!Spec
=============================================================================
