------------------------ MODULE UsagePipelineProofs ------------------------
(***************************************************************************)
(* The metering pipeline accounts for every event, for every queue         *)
(* capacity, batch size, retry count and window. None of the properties    *)
(* is inductive alone: the queue depth is a natural number only because    *)
(* the events are accounted for, and a drained writer is an empty one only *)
(* because a closed channel never fills again. PipelineInv joins them.     *)
(***************************************************************************)
EXTENDS UsagePipeline, TLAPS

(* What the writer's place says of its batch. *)
WriterInv ==
  /\ writer = "loop" => batch < BatchSize
  /\ writer \in {"loop", "flush"} => ~landed
  /\ writer = "backoff" => attempt < MaxRetries
  /\ writer = "land" => landed
  /\ last => ~accepting /\ queue = 0
  /\ writer = "exited" => last /\ batch = 0

(* The table against the counters: rows beyond inserted and dropped are    *)
(* those of a batch that landed and is not settled yet.                    *)
TableInv ==
  /\ inserted + (IF writer = "land" THEN batch ELSE 0) <= stored
  /\ stored <= inserted + dropped + (IF landed /\ writer # "report" THEN batch ELSE 0)

PipelineInv == TypeOK /\ WriterInv /\ Accounted /\ TableInv

(* The initial state satisfies the inductive invariant. *)
LEMMA PipelineInit == Init => PipelineInv
<1> SUFFICES ASSUME Init PROVE PipelineInv
  OBVIOUS
<1> USE PipelineAssumption DEF PipelineAssumption, Init
<1>1. TypeOK
  <2>1. accepting \in BOOLEAN /\ last \in BOOLEAN /\ landed \in BOOLEAN /\ repoOpen \in BOOLEAN
    BY Zenon
  <2> QED
    BY <2>1 DEF TypeOK, WriterStates, ClosingStates
<1>2. WriterInv
  BY DEF WriterInv
<1>3. Accounted
  BY DEF Accounted, InHand
<1>4. TableInv
  BY DEF TableInv
<1> QED
  BY <1>1, <1>2, <1>3, <1>4 DEF PipelineInv

(* Every step of handlers, writer, store and shutdown preserves it. *)
LEMMA PipelineStep == PipelineInv /\ [Next]_vars => PipelineInv'
<1> SUFFICES ASSUME PipelineInv, [Next]_vars PROVE PipelineInv'
  OBVIOUS
<1> USE PipelineAssumption
    DEF PipelineAssumption, PipelineInv, TypeOK, WriterInv, Accounted, TableInv, InHand,
        WriterStates, ClosingStates, table, shutdown, counters, work
<1>1. CASE Record
  BY <1>1 DEF Record
<1>2. CASE Take
  BY <1>2 DEF Take
<1>3. CASE FlushEvery
  BY <1>3 DEF FlushEvery
<1>4. CASE Drained
  <2>1. TypeOK'
    BY <1>4 DEF Drained
  <2>2. WriterInv'
    BY <1>4 DEF Drained
  <2>3. Accounted'
    BY <1>4 DEF Drained
  <2>4. TableInv'
    BY <1>4 DEF Drained
  <2> QED
    BY <2>1, <2>2, <2>3, <2>4
<1>5. CASE FlushBegins
  <2>1. TypeOK'
    <3>1. landed' \in BOOLEAN
      BY <1>5, Zenon DEF FlushBegins
    <3> QED
      BY <1>5, <3>1 DEF FlushBegins
  <2>2. WriterInv'
    BY <1>5 DEF FlushBegins
  <2>3. Accounted'
    BY <1>5 DEF FlushBegins
  <2>4. TableInv'
    BY <1>5 DEF FlushBegins
  <2> QED
    BY <2>1, <2>2, <2>3, <2>4
<1>6. CASE Tick
  BY <1>6 DEF Tick, Waiting, Patience
<1>7. CASE Try
  BY <1>7 DEF Try
<1>8. CASE InsertLands
  <2>1. TypeOK'
    BY <1>8 DEF InsertLands
  <2>2. WriterInv'
    BY <1>8 DEF InsertLands
  <2>3. Accounted'
    BY <1>8 DEF InsertLands
  <2>4. TableInv'
    BY <1>8 DEF InsertLands
  <2> QED
    BY <2>1, <2>2, <2>3, <2>4
<1>9. CASE InsertFails
  <2>1. TypeOK'
    <3>1. landed' \in BOOLEAN
      BY <1>9, Zenon DEF InsertFails
    <3> QED
      BY <1>9, <3>1 DEF InsertFails
  <2>2. WriterInv'
    BY <1>9 DEF InsertFails
  <2>3. Accounted'
    BY <1>9 DEF InsertFails
  <2>4. TableInv'
    BY <1>9 DEF InsertFails
  <2> QED
    BY <2>1, <2>2, <2>3, <2>4
<1>10. CASE Backoff
  BY <1>10 DEF Backoff
<1>11. CASE FlushDrops
  BY <1>11 DEF FlushDrops
<1>12. CASE FlushLands
  BY <1>12 DEF FlushLands
<1>13. CASE Report
  <2>1. TypeOK'
    <3>1. landed' \in BOOLEAN /\ last' \in BOOLEAN
      BY <1>13, Zenon DEF Report
    <3> QED
      BY <1>13, <3>1 DEF Report
  <2>2. WriterInv'
    BY <1>13 DEF Report
  <2>3. Accounted'
    BY <1>13 DEF Report
  <2>4. TableInv'
    BY <1>13 DEF Report
  <2> QED
    BY <2>1, <2>2, <2>3, <2>4
<1>14. CASE CloseBegins
  <2>1. TypeOK'
    BY <1>14 DEF CloseBegins
  <2>2. WriterInv'
    BY <1>14 DEF CloseBegins
  <2>3. Accounted'
    BY <1>14 DEF CloseBegins
  <2>4. TableInv'
    BY <1>14 DEF CloseBegins
  <2> QED
    BY <2>1, <2>2, <2>3, <2>4
<1>15. CASE CloseJoins
  BY <1>15 DEF CloseJoins
<1>16. CASE CloseGivesUp
  BY <1>16 DEF CloseGivesUp
<1>17. CASE Teardown
  <2>1. TypeOK'
    <3>1. repoOpen' \in BOOLEAN
      BY <1>17, Zenon DEF Teardown
    <3> QED
      BY <1>17, <3>1 DEF Teardown
  <2>2. WriterInv'
    BY <1>17 DEF Teardown
  <2>3. Accounted'
    BY <1>17 DEF Teardown
  <2>4. TableInv'
    BY <1>17 DEF Teardown
  <2> QED
    BY <2>1, <2>2, <2>3, <2>4
<1>18. CASE ProcessExits
  BY <1>18 DEF ProcessExits
<1>19. CASE UNCHANGED vars
  BY <1>19 DEF vars
<1> QED
  BY <1>1, <1>2, <1>3, <1>4, <1>5, <1>6, <1>7, <1>8, <1>9, <1>10, <1>11, <1>12, <1>13,
     <1>14, <1>15, <1>16, <1>17, <1>18, <1>19
  DEF Next, WriterStep, CloserStep

(* The inductive invariant holds throughout. *)
LEMMA PipelineInvariant == Spec => []PipelineInv
  BY PipelineInit, PipelineStep, PTL DEF Spec

(* The queue, the batch and every counter keep their ranges (pipeline.go): *)
(* no count goes negative and neither bound is exceeded, for any tuning.   *)
THEOREM PipelineTypeCorrect == Spec => []TypeOK
  BY PipelineInvariant, PTL DEF PipelineInv

(* Every recorded event is inserted, dropped, queued or in the writer's    *)
(* hands at every moment, in and out of shutdown (pipeline.go, Record,     *)
(* flush).                                                                 *)
THEOREM PipelineAccounted == Spec => []Accounted
  BY PipelineInvariant, PTL DEF PipelineInv

(* The table holds every event the counters call inserted, and no event    *)
(* they know nothing of (pipeline.go, flush).                              *)
THEOREM PipelineInsertedIsStored == Spec => []InsertedIsStored
<1>1. PipelineInv => InsertedIsStored
  BY DEF PipelineInv, TypeOK, TableInv, InsertedIsStored, InHand
<1> QED
  BY <1>1, PipelineInvariant, PTL

(* When the writer has left, every event is inserted or dropped            *)
(* (pipeline.go, writeLoop).                                               *)
THEOREM PipelineDrainComplete == Spec => []DrainComplete
<1>1. PipelineInv => DrainComplete
  BY DEF PipelineInv, TypeOK, WriterInv, Accounted, DrainComplete, InHand
<1> QED
  BY <1>1, PipelineInvariant, PTL
=============================================================================
