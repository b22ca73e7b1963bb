---------------------------- MODULE UsagePipeline ----------------------------
(***************************************************************************)
(* The metering pipeline (internal/usage/pipeline.go) and its shutdown     *)
(* (cmd main.go): handlers Record events into a bounded queue without ever *)
(* blocking, one writer flushes them in batches with bounded retries, and  *)
(* Close stops intake, waits a bounded time for the writer and hands back  *)
(* to a caller that closes the repository and reports the totals.          *)
(*                                                                         *)
(* Events are told apart by nothing the properties ask, so the queue, the  *)
(* batch and the table are counts. The counters of failed and repeated     *)
(* inserts only feed the log and are left out.                             *)
(***************************************************************************)
EXTENDS Integers

CONSTANTS
  QueueCap,    \* capacity of the events channel
  BatchSize,   \* events per flush
  MaxRetries,  \* retries of one flush
  FlushExpiry, \* ticks one flush may take
  DrainWindow, \* ticks Close waits for the writer
  JoinGrace,   \* ticks it waits then, while the writer is still working
  MaxRecords   \* bound on the events recorded

ASSUME PipelineAssumption ==
  /\ QueueCap \in Nat \ {0} /\ BatchSize \in Nat \ {0}
  /\ MaxRetries \in Nat /\ MaxRecords \in Nat
  /\ FlushExpiry \in Nat \ {0} /\ DrainWindow \in Nat \ {0} /\ JoinGrace \in Nat \ {0}

VARIABLES
  accepting,      \* Close has not begun; the channel is closed when FALSE
  queue,          \* events in the channel
  batch,          \* events in the writer's hands
  recorded,       \* history: calls of Record
  queued, inserted, dropped, flushes,  \* Stats
  unreported,     \* droppedSinceReport
  writer,         \* where the writer is
  last,           \* the writer has seen the closed channel drained
  attempt,        \* attempts made of the current flush
  flushAge,       \* ticks the current flush has taken
  landed,         \* the current batch is in the table, acknowledged or not
  stored,         \* external: rows in the table
  repoOpen,       \* the repository is not closed
  closing,        \* where the shutdown is
  waited          \* ticks Close has spent in its current wait

vars == <<accepting, queue, batch, recorded, queued, inserted, dropped, flushes, unreported,
          writer, last, attempt, flushAge, landed, stored, repoOpen, closing, waited>>

table    == <<landed, stored>>
shutdown == <<accepting, repoOpen, closing, waited>>
counters == <<queued, inserted, dropped, flushes, unreported>>

WriterStates == {"loop", "flush", "try", "insert", "refused", "backoff", "drop", "land",
                 "report", "exited"}
ClosingStates == {"serving", "draining", "grace", "returned", "final", "exit"}

Init ==
  /\ accepting = TRUE /\ queue = 0 /\ batch = 0 /\ recorded = 0
  /\ queued = 0 /\ inserted = 0 /\ dropped = 0
  /\ flushes = 0 /\ unreported = 0
  /\ writer = "loop" /\ last = FALSE /\ attempt = 0 /\ flushAge = 0
  /\ landed = FALSE /\ stored = 0
  /\ repoOpen = TRUE /\ closing = "serving" /\ waited = 0

(* The process runs until the shutdown ends it. *)
Running == closing # "exit"

-----------------------------------------------------------------------------
(* Mutant: an event after Close is refused but not counted. *)
RecordSilentAfterClose ==
  /\ Running
  /\ recorded < MaxRecords
  /\ recorded' = recorded + 1
  /\ \/ /\ accepting /\ queue < QueueCap
        /\ queue' = queue + 1 /\ queued' = queued + 1
        /\ UNCHANGED <<dropped, unreported>>
     \/ /\ accepting /\ queue >= QueueCap
        /\ dropped' = dropped + 1 /\ unreported' = unreported + 1
        /\ UNCHANGED <<queue, queued>>
     \/ ~accepting /\ UNCHANGED <<queue, queued, dropped, unreported>>
  /\ UNCHANGED <<batch, inserted, flushes, writer, last,
                 attempt, flushAge, table, shutdown>>

(* Record, under p.mu: enqueued if there is room, else a counted drop. *)
Record ==
  /\ Running
  /\ recorded < MaxRecords
  /\ recorded' = recorded + 1
  /\ \/ /\ accepting /\ queue < QueueCap
        /\ queue' = queue + 1 /\ queued' = queued + 1
        /\ UNCHANGED <<dropped, unreported>>
     \/ /\ ~accepting \/ queue >= QueueCap
        /\ dropped' = dropped + 1 /\ unreported' = unreported + 1
        /\ UNCHANGED <<queue, queued>>
  /\ UNCHANGED <<batch, inserted, flushes, writer, last,
                 attempt, flushAge, table, shutdown>>

-----------------------------------------------------------------------------
(* The write loop: an event is taken into the batch; a full one is         *)
(* flushed.                                                                *)
Take ==
  /\ Running
  /\ writer = "loop" /\ queue > 0
  /\ queue' = queue - 1
  /\ batch' = batch + 1
  /\ writer' = IF batch + 1 >= BatchSize THEN "flush" ELSE "loop"
  /\ UNCHANGED <<recorded, counters, last, attempt, flushAge, table, shutdown>>

(* The flush window elapsed. *)
FlushEvery ==
  /\ Running
  /\ writer = "loop"
  /\ writer' = IF batch = 0 THEN "report" ELSE "flush"
  /\ UNCHANGED <<queue, batch, recorded, counters, last, attempt, flushAge, table, shutdown>>

(* Mutant: the writer leaves on the closed channel without a last flush. *)
DrainedDropsBatch ==
  /\ Running
  /\ writer = "loop" /\ ~accepting /\ queue = 0
  /\ last' = TRUE
  /\ writer' = "report"
  /\ UNCHANGED <<queue, batch, recorded, counters, attempt, flushAge, table, shutdown>>

(* The closed channel is drained: one last flush. *)
Drained ==
  /\ Running
  /\ writer = "loop" /\ ~accepting /\ queue = 0
  /\ last' = TRUE
  /\ writer' = IF batch = 0 THEN "report" ELSE "flush"
  /\ UNCHANGED <<queue, batch, recorded, counters, attempt, flushAge, table, shutdown>>

(* flush: the batch leaves the queue depth and its deadline starts. *)
FlushBegins ==
  /\ Running
  /\ writer = "flush"
  /\ queued' = queued - batch
  /\ attempt' = 0 /\ flushAge' = 0 /\ landed' = FALSE
  /\ writer' = "try"
  /\ UNCHANGED <<queue, batch, recorded, inserted, dropped, flushes,
                 unreported, last, stored, shutdown>>

(* Only a call to the store takes time. It ends when the flush's deadline  *)
(* does, and no timer fires late.                                          *)
Waiting == closing \in {"draining", "grace"}
Patience == IF closing = "draining" THEN DrainWindow ELSE JoinGrace

Tick ==
  /\ Running
  /\ writer = "insert" /\ flushAge < FlushExpiry
  /\ Waiting => waited < Patience
  /\ flushAge' = flushAge + 1
  /\ waited' = IF Waiting THEN waited + 1 ELSE waited
  /\ UNCHANGED <<queue, batch, recorded, counters, writer, last, attempt, table, accepting,
                 repoOpen, closing>>

(* The head of the attempt loop. A closed repository starts no insert; one *)
(* it has started goes on.                                                 *)
Try ==
  /\ Running
  /\ writer = "try"
  /\ writer' = IF flushAge >= FlushExpiry THEN "drop"
               ELSE IF repoOpen THEN "insert" ELSE "refused"
  /\ UNCHANGED <<queue, batch, recorded, counters, last, attempt, flushAge, table, shutdown>>

(* InsertEvents, one INSERT of the whole batch: acknowledged ... *)
InsertLands ==
  /\ Running
  /\ writer = "insert" /\ ~landed
  /\ landed' = TRUE
  /\ stored' = stored + batch
  /\ writer' = "land"
  /\ UNCHANGED <<queue, batch, recorded, counters, last, attempt, flushAge, shutdown>>

(* ... or failed, which may have lost the acknowledgement alone. A batch   *)
(* already in the table fails again: event_id is the primary key.          *)
InsertFails ==
  /\ Running
  /\ \/ writer \in {"insert", "refused"} /\ UNCHANGED table
     \/ writer = "insert" /\ ~landed /\ landed' = TRUE /\ stored' = stored + batch
  /\ writer' = IF attempt < MaxRetries THEN "backoff" ELSE "drop"
  /\ UNCHANGED <<queue, batch, recorded, queued, inserted, dropped, flushes, unreported,
                 last, attempt, flushAge, shutdown>>

(* Mutant: a retry is not counted. *)
BackoffUncounted ==
  /\ Running
  /\ writer = "backoff"
  /\ writer' = "try"
  /\ UNCHANGED <<queue, batch, recorded, counters, last, attempt, flushAge, table, shutdown>>

(* The backoff ends by its timer or by the flush's deadline. *)
Backoff ==
  /\ Running
  /\ writer = "backoff"
  /\ attempt' = attempt + 1
  /\ writer' = "try"
  /\ UNCHANGED <<queue, batch, recorded, counters, last, flushAge, table, shutdown>>

(* Mutant: a batch that never landed is counted as inserted. *)
FlushDropsAsInserted ==
  /\ Running
  /\ writer = "drop"
  /\ inserted' = inserted + batch
  /\ writer' = "report"
  /\ UNCHANGED <<queue, batch, recorded, queued, dropped, flushes,
                 unreported, last, attempt, flushAge, table, shutdown>>

(* The batch is given up and counted ... *)
FlushDrops ==
  /\ Running
  /\ writer = "drop"
  /\ dropped' = dropped + batch
  /\ writer' = "report"
  /\ UNCHANGED <<queue, batch, recorded, queued, inserted, flushes,
                 unreported, last, attempt, flushAge, table, shutdown>>

(* ... or counted as inserted. *)
FlushLands ==
  /\ Running
  /\ writer = "land"
  /\ inserted' = inserted + batch
  /\ flushes' = flushes + 1
  /\ writer' = "report"
  /\ UNCHANGED <<queue, batch, recorded, queued, dropped, unreported,
                 last, attempt, flushAge, table, shutdown>>

(* reportPendingDrops, and the batch is cleared; after the last one the    *)
(* writer leaves.                                                          *)
Report ==
  /\ Running
  /\ writer = "report"
  /\ unreported' = 0
  /\ batch' = 0
  /\ attempt' = 0 /\ flushAge' = 0 /\ landed' = FALSE
  /\ writer' = IF last THEN "exited" ELSE "loop"
  /\ UNCHANGED <<queue, recorded, last, queued, inserted, dropped, flushes,
                 stored, shutdown>>

-----------------------------------------------------------------------------
work == <<queue, batch, recorded, counters, writer, last, attempt, flushAge, table>>

(* Close: intake stops and the channel is closed, under p.mu ... *)
CloseBegins ==
  /\ closing = "serving"
  /\ accepting' = FALSE
  /\ closing' = "draining"
  /\ UNCHANGED <<work, repoOpen, waited>>

(* ... Close waits for the writer ... *)
CloseJoins ==
  /\ Waiting
  /\ writer = "exited"
  /\ closing' = "returned"
  /\ UNCHANGED <<work, accepting, repoOpen, waited>>

(* ... for the drain window, then for the grace, then no longer. *)
CloseGivesUp ==
  /\ Waiting
  /\ waited >= Patience
  /\ closing' = IF closing = "draining" THEN "grace" ELSE "returned"
  /\ waited' = 0
  /\ UNCHANGED <<work, accepting, repoOpen>>

(* The caller closes the repository and reports the totals ... *)
Teardown ==
  /\ closing = "returned"
  /\ repoOpen' = FALSE
  /\ closing' = "final"
  /\ UNCHANGED <<work, accepting, waited>>

(* ... and the process ends, whatever the writer is doing. *)
ProcessExits ==
  /\ closing = "final"
  /\ closing' = "exit"
  /\ UNCHANGED <<work, accepting, repoOpen, waited>>

WriterStep ==
  \/ Take \/ FlushEvery \/ Drained \/ FlushBegins \/ Try \/ InsertLands \/ InsertFails
  \/ Backoff \/ FlushDrops \/ FlushLands \/ Report

CloserStep == CloseJoins \/ CloseGivesUp \/ Teardown \/ ProcessExits

Next == Record \/ WriterStep \/ Tick \/ CloseBegins \/ CloserStep

(* The writer runs and an insert ends, because its context has a deadline; *)
(* the shutdown goroutine runs and its timers fire.                        *)
Spec == Init /\ [][Next]_vars /\ WF_vars(WriterStep) /\ WF_vars(CloserStep)

-----------------------------------------------------------------------------
(* The pipeline keeps its types: the channel never holds more than its     *)
(* capacity nor the writer more than a batch (pipeline.go, Record and      *)
(* writeLoop), and no reported count goes negative.                        *)
TypeOK ==
  /\ accepting \in BOOLEAN /\ last \in BOOLEAN
  /\ landed \in BOOLEAN /\ repoOpen \in BOOLEAN
  /\ queue \in 0..QueueCap /\ batch \in 0..BatchSize
  /\ recorded \in Nat /\ queued \in Nat /\ inserted \in Nat /\ dropped \in Nat
  /\ flushes \in Nat /\ unreported \in Nat
  /\ stored \in Nat /\ attempt \in 0..MaxRetries
  /\ flushAge \in 0..FlushExpiry /\ waited \in Nat
  /\ writer \in WriterStates /\ closing \in ClosingStates

(* Events in the writer's hands and in no counter yet. *)
InHand == IF writer = "report" THEN 0 ELSE batch

(* No event is lost or counted twice (pipeline.go, Record and flush):      *)
(* every call of Record is one event inserted, dropped, queued or in the   *)
(* writer's hands, whatever races with Close, and the queue depth reported *)
(* is the events no flush has begun on.                                    *)
Accounted ==
  /\ recorded = inserted + dropped + queue + InHand
  /\ queued = queue + (IF writer \in {"loop", "flush"} THEN batch ELSE 0)

(* Inserted means stored (pipeline.go, flush): the table holds every event *)
(* counted as inserted, through failed and repeated inserts, lost          *)
(* acknowledgements and a repository closed under the writer, and no row   *)
(* of an event that was neither inserted, dropped nor is being flushed.    *)
InsertedIsStored ==
  /\ inserted + (IF writer = "land" THEN batch ELSE 0) <= stored
  /\ stored <= inserted + dropped + InHand

(* A writer that left leaves nothing behind (pipeline.go, writeLoop): what *)
(* was accepted before Close is inserted or dropped when done is closed.   *)
DrainComplete == writer = "exited" => recorded = inserted + dropped

(* A flush settles (pipeline.go, flush): a batch is counted as inserted or *)
(* dropped in the end though the store may fail every insert, so a dead    *)
(* store never stops the writer from draining the queue.                   *)
FlushSettles == writer = "flush" ~> (writer = "report" \/ closing = "exit")

(* pipeline.go:79-82 and 144-150 say that Close lands every accepted event *)
(* in inserted or dropped either way, "never a silent remainder": the      *)
(* totals main reports would then account for every event.                 *)
NoSilentRemainder == closing = "final" => recorded = inserted + dropped
=============================================================================
