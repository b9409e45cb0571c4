--------------------------- MODULE PipelineProofs ---------------------------
(***************************************************************************)
(* Ingestion and cleanup together: cleanup never takes anything a document *)
(* still needs, ingestion never brings anything back that cleanup has      *)
(* reported as deleted, and the owner sees what DocumentIndex promises,    *)
(* for any number of generations, chunks, workers, retries and faults.     *)
(*                                                                         *)
(* The first part holds whatever happens to the document lock: a job is    *)
(* only ever about generations nobody may write to any more. The second    *)
(* part, about the points, needs the lock: a worker that is late with a    *)
(* superseded generation still upserts its points.                         *)
(***************************************************************************)
EXTENDS DocumentPipeline, IngestionProofs, CleanupProofs

-----------------------------------------------------------------------------
(* Types *)

PipeTypes == TypeInv /\ CleanupTypeOK

(* Jobs that were not there are fresh, the others are left alone.           *)
LEMMA IngestionSchedules == StoreTypeOK /\ IngestionNext => Scheduled
  BY JobsAppear DEF Scheduled

(* The types hold at first. *)
LEMMA PipeTypesInit == PipelineInit => PipeTypes
  <1> SUFFICES ASSUME PipelineInit PROVE PipeTypes
    OBVIOUS
  <1>1. TypeInv
    BY TypeInit DEF PipelineInit
  <1>2. CleanersTypeOK
    <2>1. NothingUnsaved \in [raw : BOOLEAN, done : SUBSET Collections]
      BY DEF NothingUnsaved
    <2> QED BY <2>1, JobIdsCount DEF PipelineInit, CleanersInit, CleanersTypeOK, CleanerSteps
  <1>3. \A j \in JobIds : jobs[j].retries <= MaxCleanupRetries
    BY CleanupRetryAssumption DEF PipelineInit, IngestionInit, StoreInit, NoJob, NewJob
  <1>4. StoreTypeOK /\ jobQueue \subseteq JobIds
    BY <1>1 DEF TypeInv, IngestionTypeOK, PipelineInit, CleanersInit
  <1> QED BY <1>1, <1>2, <1>3, <1>4 DEF PipeTypes, CleanupTypeOK, CleanersTypeOK

(* Every step keeps the types. *)
LEMMA PipeTypesNext == PipeTypes /\ [PipelineNext]_pipelineVars => PipeTypes'
  <1> SUFFICES ASSUME PipeTypes, [PipelineNext]_pipelineVars PROVE PipeTypes'
    OBVIOUS
  <1>0. TypeInv /\ CleanupTypeOK /\ StoreTypeOK /\ CleanersTypeOK /\ OutboxTypeOK
    BY CleanupTypeParts DEF PipeTypes, TypeInv, IngestionTypeOK
  <1>1. CASE IngestionNext /\ UNCHANGED cleanupVars
    <2>1. TypeInv' /\ StoreTypeOK'
      BY <1>0, <1>1, TypeNext DEF TypeInv, IngestionTypeOK
    <2>2. CleanersTypeOK' /\ jobQueue' \subseteq JobIds
      BY <1>0, <1>1 DEF cleanupVars, CleanersTypeOK, OutboxTypeOK
    <2>3. ASSUME NEW j \in JobIds PROVE jobs'[j].retries <= MaxCleanupRetries
      <3>1. NewJob(j).retries = 0
        BY DEF NewJob
      <3> QED BY <1>0, <1>1, <3>1, IngestionSchedules, CleanupRetryAssumption
              DEF Scheduled, OutboxTypeOK
    <2> QED BY <2>1, <2>2, <2>3 DEF PipeTypes, CleanupTypeOK, CleanersTypeOK
  <1>2. CASE CleanupNext /\ UNCHANGED ingestionVars
    <2>1. CleanupTypeOK' /\ StoreTypeOK'
      BY <1>0, <1>2, TypeStep DEF CleanupTypeOK
    <2>2. ProcessTypeOK' /\ RetryLeft'
      BY <1>0, <1>2, TypeParts DEF ProcessTypeOK, LocalsTypeOK, TypeInv, RetryLeft, ingestionVars
    <2> QED BY <2>1, <2>2, TypeJoin DEF PipeTypes
  <1>3. CASE UNCHANGED pipelineVars
    BY <1>0, <1>3 DEF PipeTypes, pipelineVars, storeVars, ingestionVars, cleanupVars,
                      TypeInv, IngestionTypeOK, CleanupTypeOK, StoreTypeOK, RetryLeft
  <1> QED BY <1>1, <1>2, <1>3 DEF PipelineNext

(* The types hold in every reachable state. *)
LEMMA PipeTypesInvariance == PipelineSpec => []PipeTypes
  BY PipeTypesInit, PipeTypesNext, PTL DEF PipelineSpec
-----------------------------------------------------------------------------
(* What one side leaves to the other *)

(* Ingestion never takes back a generation, a deletion or a fault, stores   *)
(* the object only with a new document, and leaves a cleanup worker its lock.*)
LEMMA IngestionFrame ==
    ASSUME TypeInv, IngestionNext
    PROVE  /\ version' \in 0..MaxVersion /\ version' >= version
           /\ deleted' = deleted \/ Delete
           /\ raw' = raw \/ Upload
           /\ faults \subseteq faults'
           /\ lock \in Cleaners => lock' = lock
  <1>0. /\ version \in 0..MaxVersion /\ MaxVersion \in Nat /\ version' \in 0..MaxVersion
        /\ Free \notin Cleaners /\ Orphan \notin Cleaners /\ Workers \cap Cleaners = {}
    BY BoundsAssumption, ProcessAssumption, TypeNext
       DEF TypeInv, IngestionTypeOK, StoreTypeOK, Processes
  <1> USE DEF fileVars, dataVars, storeVars
  <1>1. ASSUME NEW w \in Workers, WorkerStep(w) \/ WorkerFault(w)
        PROVE  /\ UNCHANGED <<version, deleted, raw>>
               /\ faults \subseteq faults'
               /\ lock \in Cleaners => lock' = lock
    <2>1. UNCHANGED <<version, deleted, raw>>
      BY <1>1, WorkerFrame
    <2>2. CASE Acquire(w) \/ Unlock(w) \/ Crash(w)
      BY <1>0, <2>2 DEF Acquire, Unlock, Crash, LeaseHeld, Spend
    <2>3. CASE ~Acquire(w) /\ ~Unlock(w) /\ ~Crash(w)
      BY <1>1, <2>1, <2>3, WorkerLock
    <2> QED BY <2>1, <2>2, <2>3
  <1>2. CASE OrphanExpires \/ Lapse
    BY <1>0, <1>2 DEF OrphanExpires, ReleaseOrphan, Lapse, Spend
  <1>3. CASE User \/ ApiStep \/ \E g \in Gens : ApiCrash(g)
    BY <1>0, <1>3
       DEF User, ApiStep, Upload, Reparse, Delete, Revoke, Enqueue, Publish, PublishRaises, Recheck,
           ApiCrash, CreateTask, PrepareDeletion, Spend
  <1> QED BY <1>0, <1>1, <1>2, <1>3 DEF IngestionNext

(* Cleanup never takes the lock from a worker that indexes.                 *)
LEMMA CleanupLeavesLock == CleanupNext /\ lock \in Workers => lock' = lock
  <1> SUFFICES ASSUME CleanupNext, lock \in Workers PROVE lock' = lock
    OBVIOUS
  <1>0. Free \notin Workers /\ Workers \cap Cleaners = {}
    BY ProcessAssumption DEF Processes
  <1>1. ASSUME NEW w \in Cleaners, CleanerStep(w) \/ CleanerCrash(w) \/ CloseUnrecorded(w)
        PROVE  lock' = lock
    BY <1>0, <1>1, WorkerChanges DEF TakeLock
  <1>2. ASSUME NEW j \in JobIds,
               \/ Dispatch(j) \/ DispatchFails(j) \/ DelayPasses(j)
               \/ LeaseExpires(j) \/ ManualRetry(j)
        PROVE  lock' = lock
    BY <1>2 DEF Dispatch, DispatchFails, Reserve, DelayPasses, LeaseExpires, ManualRetry
  <1>3. ~CleanerLapse
    BY <1>0 DEF CleanerLapse
  <1> QED BY <1>1, <1>2, <1>3 DEF CleanupNext

(* No job is about the generation a worker may write to.                    *)
LEMMA CurrentUnclaimed ==
    ASSUME PipeTypes, OutboxInv, NEW g \in Gens, Current(g), NEW j \in JobIds, g \in Scope(j)
    PROVE  jobs[j] = NoJob(j)
  <1>1. version = g /\ ~deleted /\ version \in 0..MaxVersion /\ MaxVersion \in Nat
    BY BoundsAssumption DEF Current, PipeTypes, TypeInv, IngestionTypeOK, StoreTypeOK
  <1>2. ~Matches(j)
    BY <1>1 DEF Matches, Scope
  <1> QED BY <1>2 DEF OutboxInv, JobShape

-----------------------------------------------------------------------------
(***************************************************************************)
(* Jobs and the data they are about.                                       *)
(***************************************************************************)

(* A deleted file has its cleanup job. *)
DeletionScheduled == deleted => jobs[0].status # "NONE"

(* A worker deletes points of the generations of its job only.             *)
ScopedTargets ==
    \A w \in Cleaners : \A t \in targets[w] : step[w] # "idle" /\ t[1] \in Scope(job[w])

JobsInv ==
    /\ PipeTypes /\ FileInv /\ OutboxInv
    /\ DeletionScheduled /\ SupersededScheduled /\ DoneStarted
    /\ ScopedTargets /\ RowsGone /\ RawInv

(* JobsInv holds at first. *)
LEMMA JobsInit == PipelineInit => JobsInv
  <1> SUFFICES ASSUME PipelineInit PROVE JobsInv
    OBVIOUS
  <1>0. IngestionInit /\ CleanersInit /\ StoreInit
    BY DEF PipelineInit, IngestionInit
  <1>1. PipeTypes /\ FileInv
    BY <1>0, PipeTypesInit, FileInit
  <1>2. \A j \in JobIds : JobShape(j) /\ jobs[j].status = "NONE"
    BY <1>0 DEF StoreInit, JobShape, NoJob, NewJob
  <1>3. OutboxInv /\ RowsGone
    BY <1>0, <1>2 DEF OutboxInv, Busy, RowsGone, CleanersInit
  <1>4. DeletionScheduled /\ SupersededScheduled /\ DoneStarted
    BY <1>0 DEF StoreInit, DeletionScheduled, SupersededScheduled, DoneStarted
  <1>5. ScopedTargets /\ RawInv
    BY <1>0 DEF StoreInit, CleanersInit, ScopedTargets, RawInv, AfterRaw
  <1> QED BY <1>1, <1>3, <1>4, <1>5 DEF JobsInv

(* A new job is about generations that are superseded or deleted.          *)
LEMMA JobsAreRight ==
    ASSUME PipeTypes, OutboxInv, IngestionNext, NEW j \in JobIds, jobs'[j].status # "NONE"
    PROVE  Matches(j)'
  <1>0. /\ version \in 0..MaxVersion /\ MaxVersion \in Nat /\ JobIds \subseteq Nat
        /\ jobs \in [JobIds -> Job] /\ TypeInv
    BY BoundsAssumption DEF PipeTypes, TypeInv, IngestionTypeOK, StoreTypeOK, JobIds
  <1>1. CASE jobs[j].status # "NONE"
    <2>1. Matches(j)
      BY <1>1 DEF OutboxInv
    <2>2. version' >= version /\ version' \in Nat /\ (deleted => deleted')
      <3>1. Delete => deleted'
        BY DEF Delete, PrepareDeletion
      <3> QED BY <1>0, <3>1, IngestionFrame
    <2> QED BY <1>0, <2>1, <2>2 DEF Matches
  <1>2. CASE jobs[j].status = "NONE"
    <2>1. CASE Delete
      BY <1>0, <1>2, <2>1 DEF Delete, PrepareDeletion, ScheduleDeletion, Matches
    <2>2. CASE \E w \in Workers : Finish(w)
      BY <1>0, <1>2, <2>2 DEF Finish, Report, ScheduleSuperseded, Matches
    <2> QED BY <1>2, <2>1, <2>2, JobsStep
  <1> QED BY <1>1, <1>2

(* Ingestion keeps JobsInv: it schedules jobs for what nobody may write to  *)
(* any more, and writes rows only where there is no job.                   *)
LEMMA JobsIngestion ==
    ASSUME JobsInv, IngestionNext, UNCHANGED cleanupVars
    PROVE  JobsInv'
  <1>0. /\ PipeTypes /\ TypeInv /\ StoreTypeOK /\ CleanersTypeOK /\ FileInv /\ OutboxInv
        /\ version \in 0..MaxVersion /\ MaxVersion \in Nat /\ UNCHANGED cleanerVars
        /\ 0 \in JobIds /\ Gens \subseteq JobIds
    BY BoundsAssumption, CleanupTypeParts, JobIdsCount
       DEF JobsInv, PipeTypes, TypeInv, IngestionTypeOK, StoreTypeOK, cleanupVars, cleanerVars
  <1>1. PipeTypes' /\ FileInv'
    BY <1>0, PipeTypesNext, FileNext DEF PipelineNext
  <1>2. Scheduled
    BY <1>0, IngestionSchedules
  <1>3. OutboxInv'
    BY <1>0, <1>2, JobsAreRight, ScheduledOutbox
  <1>4. DeletionScheduled'
    <2>1. CASE Delete
      BY <1>0, <2>1
         DEF Delete, PrepareDeletion, ScheduleDeletion, DeletionScheduled, NewJob, StoreTypeOK
    <2>2. CASE deleted' = deleted
      BY <1>0, <1>2, <2>2 DEF JobsInv, DeletionScheduled, Scheduled, NewJob
    <2> QED BY <1>0, <2>1, <2>2, IngestionFrame
  <1>5. SupersededScheduled'
    BY <1>0, ScheduledNext DEF JobsInv
  <1>6. DoneStarted'
    <2> SUFFICES ASSUME docStatus' = "DONE" PROVE version' >= 1
      BY DEF DoneStarted
    <2>1. CASE \E w \in Workers : Finish(w)
      <3>1. PICK w \in Workers : Finish(w)
        BY <2>1
      <3>2. msg[w].gen \in Gens /\ version = msg[w].gen /\ version' = version
        BY <1>0, <3>1, BusyMessage DEF Finish, Report, Proceeds, Current, Gen
      <3> QED BY <3>2 DEF Gens
    <2>2. CASE docStatus = "DONE" /\ version' = version
      BY <2>2 DEF JobsInv, DoneStarted
    <2> QED BY <1>0, <2>1, <2>2, DoneStep DEF JobsInv
  <1>7. ScopedTargets'
    BY <1>0 DEF JobsInv, ScopedTargets, cleanerVars, Scope
  <1>8. RowsGone'
    <2> SUFFICES ASSUME NEW j \in JobIds, jobs'[j].status = "SUCCESS", NEW g \in Scope(j)
                 PROVE  rows'[g] = {}
      BY DEF RowsGone, Scope
    <2>1. g \in Gens
      BY ScopeInGens
    <2>2. jobs[j].status = "SUCCESS" /\ rows[g] = {}
      <3>1. NewJob(j).status = "PENDING"
        BY DEF NewJob
      <3> QED BY <1>2, <3>1 DEF Scheduled, JobsInv, RowsGone
    <2>3. ~Current(g)
      BY <1>0, <2>1, <2>2, CurrentUnclaimed DEF NoJob, NewJob
    <2> QED BY <1>0, <2>1, <2>2, <2>3, RowsStep DEF StoreTypeOK
  <1>9. RawInv'
    <2>1. CASE Upload
      <3>1. version = 0 /\ ~deleted /\ jobs' = jobs
        BY <1>0, <2>1 DEF Upload, FileInv, FirstTask, Known
      <3>2. \A j \in JobIds : jobs[j] = NoJob(j)
        BY <1>0, <3>1 DEF OutboxInv, Matches, JobShape, JobIds
      <3>3. jobs[0].raw = "PENDING" /\ \A j \in JobIds : jobs[j].status = "NONE"
        BY <1>0, <3>2 DEF NoJob, NewJob
      <3>4. \A w \in Cleaners : step[w] = "idle" /\ ~unsaved[w].raw
        BY <1>0, <3>3 DEF OutboxInv, Busy, CleanersTypeOK, NothingUnsaved
      <3> QED BY <1>0, <3>1, <3>3, <3>4 DEF RawInv, AfterRaw, cleanerVars
    <2>2. CASE raw' = raw
      <3>1. /\ jobs'[0].raw = "SUCCESS" => jobs[0].raw = "SUCCESS"
            /\ jobs'[0].status = "SUCCESS" => jobs[0].status = "SUCCESS"
        <4>1. NewJob(0).raw = "PENDING" /\ NewJob(0).status = "PENDING"
          BY DEF NewJob
        <4> QED BY <1>0, <1>2, <4>1 DEF Scheduled
      <3> QED BY <1>0, <2>2, <3>1 DEF JobsInv, RawInv, AfterRaw, cleanerVars
    <2> QED BY <1>0, <2>1, <2>2, IngestionFrame
  <1> QED BY <1>1, <1>3, <1>4, <1>5, <1>6, <1>7, <1>8, <1>9 DEF JobsInv

(* What a worker has to delete is read when a pass reaches the vectors and  *)
(* forgotten at its end.                                                    *)
LEMMA ScopedTargetsNext ==
    ASSUME CleanersTypeOK, ScopedTargets, CleanupNext
    PROVE  ScopedTargets'
  <1> SUFFICES ASSUME NEW v \in Cleaners, NEW t \in targets'[v]
               PROVE  step'[v] # "idle" /\ t[1] \in Scope(job'[v])
    BY DEF ScopedTargets, Scope
  <1>1. CASE targets'[v] = targets[v] /\ job'[v] = job[v] /\ (step'[v] # "idle" \/ step'[v] = step[v])
    BY <1>1 DEF ScopedTargets
  <1>2. ASSUME NEW w \in Cleaners, CleanerStep(w) \/ CleanerCrash(w) \/ CloseUnrecorded(w)
        PROVE  step'[v] # "idle" /\ t[1] \in Scope(job'[v])
    <2>1. CASE v # w
      BY <1>1, <1>2, <2>1, WorkerLocals DEF Untouched
    <2>2. CASE v = w
      <3> USE <2>2 DEF CleanersTypeOK, Move, Enter
      <3>1. CASE \E j \in JobIds : Claim(w, j) \/ Ignore(w, j)
        BY <1>1, <3>1 DEF Claim, Ignore, ScopedTargets, cleanerVars
      <3>2. CASE TakeLock(w) \/ Postpone(w)
        BY <1>1, <3>2 DEF TakeLock, Postpone, NextTarget
      <3>3. CASE RawBeat(w) \/ VectorsBeat(w) \/ EnterCollection(w) \/ BatchBeat(w)
        BY <1>1, <3>3 DEF RawBeat, VectorsBeat, EnterCollection, BatchBeat, Beat
      <3>4. CASE RawSave(w) \/ CollectionSave(w) \/ VectorsSave(w)
        BY <1>1, <3>4 DEF RawSave, NextTarget, CollectionSave, VectorsSave
      <3>5. CASE Succeed(w) \/ GiveUp(w) \/ CloseUnrecorded(w) \/ ClaimGone(w)
        BY <1>1, <3>5 DEF Succeed, GiveUp, CloseUnrecorded, ClaimGone
      <3>t. ASSUME NEW kind, Trouble(w, kind) PROVE step'[w] # "idle"
        BY <3>t DEF Trouble, NextTarget
      <3>6. CASE RemoteFails(w) \/ LockGone(w) \/ SaveFails(w) \/ RawDelete(w)
        BY <1>1, <3>t, <3>6 DEF RemoteFails, LockGone, SaveFails, RawDelete
      <3>7. CASE ReadTargets(w)
        <4>1. targets'[w] = Targets(job[w]) /\ job' = job /\ step'[w] = "collection"
          BY <3>7 DEF ReadTargets
        <4> QED BY <4>1 DEF Targets
      <3>8. CASE DeleteBatch(w)
        <4>1. targets'[w] \subseteq targets[w] /\ job' = job /\ step'[w] # "idle"
          BY <3>t, <3>8 DEF DeleteBatch
        <4> QED BY <4>1 DEF ScopedTargets
      <3>9. CASE Release(w) \/ CleanerCrash(w)
        BY <3>9 DEF Release, CleanerCrash, Forget
      <3> QED BY <1>2, <3>1, <3>2, <3>3, <3>4, <3>5, <3>6, <3>7, <3>8, <3>9 DEF CleanerStep
    <2> QED BY <2>1, <2>2
  <1>3. CASE \/ CleanerLapse
             \/ \E j \in JobIds : \/ Dispatch(j) \/ DispatchFails(j) \/ DelayPasses(j)
                                 \/ LeaseExpires(j) \/ ManualRetry(j)
    <2>1. UNCHANGED cleanerVars
      BY <1>3, OtherLocals DEF CleanerLapse, cleanupVars, cleanerVars
    <2> QED BY <1>1, <2>1 DEF cleanerVars
  <1> QED BY <1>2, <1>3 DEF CleanupNext

(* Cleanup takes nothing from the current generation of a document that is  *)
(* not deleted, and not its object.                                         *)
LEMMA CleanupSpares ==
    ASSUME JobsInv, CleanupNext, ~deleted
    PROVE  /\ raw' = raw
           /\ version \in Gens => /\ rows'[version] = rows[version]
                                  /\ points'[version] = points[version]
  <1>0. /\ CleanersTypeOK /\ RestTypeOK /\ OutboxInv /\ ScopedTargets /\ 0 \in JobIds
    BY CleanupTypeParts, JobIdsCount DEF JobsInv, PipeTypes
  <1>1. ASSUME NEW w \in Cleaners, CleanerStep(w) \/ CleanerCrash(w) \/ CloseUnrecorded(w)
        PROVE  /\ raw' = raw
               /\ version \in Gens => /\ rows'[version] = rows[version]
                                      /\ points'[version] = points[version]
    <2>0. job[w] \in JobIds /\ Busy(w) /\ (jobs[job[w]].status # "NONE" => Matches(job[w]))
      BY <1>0 DEF CleanersTypeOK, OutboxInv
    <2>1. step[w] # "idle" => job[w] # 0 /\ version \notin Scope(job[w])
      <3>1. JobIds \subseteq Nat
        BY BoundsAssumption DEF JobIds
      <3>2. step[w] # "idle" => job[w] # 0 /\ job[w] < version
        BY <2>0 DEF Busy, Matches
      <3>3. version \in Nat /\ job[w] \in Nat
        <4>1. version \in 0..MaxVersion /\ MaxVersion \in Nat
          BY BoundsAssumption DEF JobsInv, PipeTypes, TypeInv, IngestionTypeOK, StoreTypeOK
        <4>2. job[w] \in JobIds
          BY <2>0
        <4>3. job[w] \in Nat
          BY <3>1, <4>2
        <4>4. version \in Nat
          BY <4>1
        <4> QED BY <4>3, <4>4
      <3>4. step[w] # "idle" => job[w] # 0 /\ job[w] # version
        BY <3>2, <3>3
      <3>5. job[w] # 0 => Scope(job[w]) = {job[w]}
        BY DEF Scope
      <3> QED BY <3>4, <3>5
    <2>2. raw' = raw
      <3>1. ~RawDelete(w)
        BY <2>0, <2>1 DEF RawDelete, Move, Busy
      <3> QED BY <1>1, <3>1, WorkerChanges
    <2>3. ASSUME version \in Gens PROVE rows'[version] = rows[version]
      <3>1. CASE Succeed(w)
        BY <2>1, <2>3, <3>1 DEF Succeed, Move
      <3> QED BY <1>1, <3>1, WorkerChanges
    <2>4. ASSUME version \in Gens PROVE points'[version] = points[version]
      <3>1. CASE DeleteBatch(w)
        <4>1. PICK batch \in SUBSET TargetsHere(w) :
                      points' = [g \in Gens |-> points[g] \ {c \in Chunks : <<g, c>> \in batch}]
          BY <3>1 DEF DeleteBatch
        <4>2. step[w] # "idle"
          BY <3>1 DEF DeleteBatch
        <4>3. \A t \in batch : t[1] \in Scope(job[w])
          BY <1>0, <4>1 DEF ScopedTargets, TargetsHere
        <4>4. \A c \in Chunks : <<version, c>> \notin batch
          BY <2>1, <4>2, <4>3
        <4>5. points'[version] = points[version] \ {c \in Chunks : <<version, c>> \in batch}
          BY <2>4, <4>1
        <4> QED BY <4>4, <4>5
      <3> QED BY <1>1, <3>1, WorkerChanges
    <2> QED BY <2>2, <2>3, <2>4
  <1>2. CASE \/ CleanerLapse
             \/ \E j \in JobIds : \/ Dispatch(j) \/ DispatchFails(j) \/ DelayPasses(j)
                                 \/ LeaseExpires(j) \/ ManualRetry(j)
    <2>1. UNCHANGED <<rows, points, raw>>
      BY <1>0, <1>2, OtherLocals DEF dataVars
    <2> QED BY <2>1
  <1> QED BY <1>1, <1>2 DEF CleanupNext

(* Cleanup keeps JobsInv: it forgets no job. *)
LEMMA JobsCleanup ==
    ASSUME JobsInv, CleanupNext, UNCHANGED ingestionVars
    PROVE  JobsInv'
  <1>0. /\ CleanupTypeOK /\ CleanersTypeOK /\ RestTypeOK /\ OutboxInv /\ UNCHANGED fileVars
        /\ 0 \in JobIds /\ Gens \subseteq JobIds /\ version \in 0..MaxVersion /\ MaxVersion \in Nat
    BY CleanupTypeParts, JobIdsCount, FileKept, BoundsAssumption
       DEF JobsInv, PipeTypes, FileTypeOK
  <1>1. PipeTypes'
    BY PipeTypesNext DEF JobsInv, PipelineNext
  <1>2. FileInv'
    BY <1>0 DEF JobsInv, FileInv, FirstTask, OneActive, StatusAgrees, Known, Active, Current,
                fileVars, ingestionVars
  <1>3. OutboxInv' /\ ScopedTargets' /\ RowsGone' /\ RawInv'
    BY <1>0, OutboxNext, ScopedTargetsNext, RowsGoneNext, RawNext DEF JobsInv
  <1>4. \A j \in JobIds : jobs'[j].status = "NONE" <=> jobs[j].status = "NONE"
    BY <1>0, JobFieldMoves
  <1>5. DeletionScheduled' /\ DoneStarted'
    BY <1>0, <1>4 DEF JobsInv, DeletionScheduled, DoneStarted, fileVars
  <1>6. SupersededScheduled'
    <2> SUFFICES ASSUME docStatus = "DONE", ~deleted, NEW g \in 1..(version - 1), rows'[g] # {}
                 PROVE  jobs'[g].status # "NONE"
      BY <1>0 DEF SupersededScheduled, fileVars
    <2>1. g \in Gens
      BY <1>0 DEF Gens
    <2>2. rows[g] # {}
      BY <1>0, <2>1, DataShrinks
    <2> QED BY <1>0, <1>4, <2>1, <2>2 DEF JobsInv, SupersededScheduled
  <1> QED BY <1>1, <1>2, <1>3, <1>5, <1>6 DEF JobsInv

(* A step of neither keeps JobsInv. *)
LEMMA JobsRest == JobsInv /\ UNCHANGED pipelineVars => JobsInv'
  <1> SUFFICES ASSUME JobsInv, UNCHANGED pipelineVars PROVE JobsInv'
    OBVIOUS
  <1>0. UNCHANGED <<storeVars, ingestionVars, cleanupVars>>
    BY DEF pipelineVars
  <1>1. PipeTypes' /\ FileInv'
    BY <1>0, PipeTypesNext, FileNext DEF JobsInv, PipeTypes, ingestVars
  <1>2. OutboxInv'
    BY <1>0 DEF JobsInv, OutboxInv, JobShape, Busy, Matches, NoJob, NewJob, storeVars, cleanupVars
  <1>3. DeletionScheduled' /\ SupersededScheduled' /\ DoneStarted' /\ ScopedTargets'
    BY <1>0 DEF JobsInv, DeletionScheduled, SupersededScheduled, DoneStarted, ScopedTargets, Scope,
                storeVars, cleanupVars
  <1>4. RowsGone' /\ RawInv'
    BY <1>0 DEF JobsInv, RowsGone, RawInv, AfterRaw, Scope, storeVars, cleanupVars
  <1> QED BY <1>1, <1>2, <1>3, <1>4 DEF JobsInv

(* JobsInv holds in every reachable state. *)
LEMMA JobsInvariance == PipelineSpec => []JobsInv
  <1>1. JobsInv /\ [PipelineNext]_pipelineVars => JobsInv'
    BY JobsIngestion, JobsCleanup, JobsRest DEF PipelineNext
  <1> QED BY <1>1, JobsInit, PTL DEF PipelineSpec

(* Old data always has an owner: the rows of a superseded generation and of *)
(* a deleted file belong to a job that has not succeeded, whatever failed,  *)
(* crashed or lost its lock.                                                *)
THEOREM RowsOwnedCorrect == PipelineSpec => []RowsOwned
  <1>1. JobsInv => RowsOwned
    <2> SUFFICES ASSUME JobsInv, NEW g \in Gens, rows[g] # {}
                 PROVE  /\ deleted => jobs[0].status \notin {"NONE", "SUCCESS"}
                        /\ (~deleted /\ g < version /\ docStatus = "DONE")
                              => jobs[g].status \notin {"NONE", "SUCCESS"}
      BY DEF RowsOwned
    <2>1. g \in JobIds /\ 0 \in JobIds /\ g # 0 /\ g \in Scope(g) /\ g \in Scope(0)
      BY JobIdsCount DEF Scope, Gens
    <2>2. jobs[0].status # "SUCCESS" /\ jobs[g].status # "SUCCESS"
      BY <2>1 DEF JobsInv, RowsGone
    <2>3. g < version => g \in 1..(version - 1)
      BY BoundsAssumption DEF JobsInv, PipeTypes, TypeInv, IngestionTypeOK, StoreTypeOK, Gens
    <2> QED BY <2>2, <2>3 DEF JobsInv, DeletionScheduled, SupersededScheduled
  <1> QED BY <1>1, JobsInvariance, PTL
-----------------------------------------------------------------------------
(***************************************************************************)
(* The document lock, as long as no live lease runs out.                   *)
(***************************************************************************)
LocksInv == LockInv /\ GuardInv

(* Indexing leaves the guarded steps of cleanup their lock. *)
LEMMA LocksIngestion ==
    ASSUME TypeInv, LocksInv, IngestionNext, UNCHANGED cleanupVars
    PROVE  LocksInv'
  <1>1. LockInv'
    BY LockNext DEF LocksInv
  <1>2. GuardInv'
    <2> SUFFICES ASSUME "lapse" \notin faults', NEW w \in Cleaners PROVE Guards(w)'
      BY DEF GuardInv
    <2>1. "lapse" \notin faults /\ (lock \in Cleaners => lock' = lock)
      BY IngestionFrame
    <2>2. step' = step /\ errors' = errors /\ unsaved' = unsaved
      BY DEF cleanupVars
    <2> QED BY <2>1, <2>2 DEF LocksInv, GuardInv, Guards, Deleting
  <1> QED BY <1>1, <1>2 DEF LocksInv

(* Cleanup leaves a worker that indexes its lock. *)
LEMMA LocksCleanup ==
    ASSUME CleanersTypeOK, LocksInv, CleanupNext, UNCHANGED ingestionVars
    PROVE  LocksInv'
  <1>1. GuardInv'
    BY GuardNext DEF LocksInv
  <1>2. LockInv'
    <2> SUFFICES ASSUME "lapse" \notin faults', NEW w \in Workers, Indexing(w)' PROVE lock' = w
      BY DEF LockInv
    <2>1. "lapse" \notin faults
      BY FaultsGrow
    <2>2. Indexing(w)
      BY DEF Indexing, ingestionVars
    <2>3. lock = w
      BY <2>1, <2>2 DEF LocksInv, LockInv
    <2> QED BY <2>3, CleanupLeavesLock
  <1> QED BY <1>1, <1>2 DEF LocksInv

(* LocksInv holds in every reachable state. *)
LEMMA LocksInvariance == PipelineSpec => []LocksInv
  <1>1. PipelineInit => LocksInv
    <2>1. PipelineInit => GuardInv
      BY DEF PipelineInit, CleanersInit, GuardInv, Guards, Deleting
    <2> QED BY <2>1, LockInit DEF PipelineInit, LocksInv
  <1>2. PipeTypes /\ LocksInv /\ UNCHANGED pipelineVars => LocksInv'
    BY DEF LocksInv, LockInv, GuardInv, Guards, Deleting, Indexing, pipelineVars, storeVars,
           ingestionVars, cleanupVars
  <1>3. PipeTypes /\ LocksInv /\ [PipelineNext]_pipelineVars => LocksInv'
    BY <1>2, LocksIngestion, LocksCleanup, CleanupTypeParts DEF PipeTypes, PipelineNext
  <1> QED BY <1>1, <1>3, PipeTypesInvariance, PTL DEF PipelineSpec

(* At most one worker, of either kind, writes to the document at a time:    *)
(* each kind takes the lock before its first write and neither releases it  *)
(* for the other.                                                           *)
THEOREM ExclusiveCorrect == PipelineSpec => []Exclusive
  <1>1. LocksInv => Exclusive
    BY ProcessAssumption DEF LocksInv, LockInv, GuardInv, Guards, Exclusive
  <1> QED BY <1>1, LocksInvariance, PTL

-----------------------------------------------------------------------------
(***************************************************************************)
(* The points. A worker that has found its task current knows that no job  *)
(* has begun with its generation, and while it holds the lock none can:    *)
(* so whatever it still upserts, the ledger of no job denies.              *)
(***************************************************************************)
Begun(w) == Indexing(w) /\ pc[w] # "check"

(* The ledger of a job that no pass has brought forward. *)
Unopened(r) == r.vectors = "PENDING" /\ r.done = {} /\ r.status # "SUCCESS"

UnopenedInv ==
    \A w \in Workers : Begun(w) =>
        \A j \in JobIds : msg[w].gen \in Scope(j) => Unopened(jobs[j])

PipeDataInv == "lapse" \notin faults => DataInv /\ PointsInv /\ UnopenedInv

(* Only Upsert adds points. *)
LEMMA PointsStep ==
    ASSUME TypeInv, IngestionNext
    PROVE  \/ points' = points
           \/ \E w \in Workers :
                 /\ Upsert(w)
                 /\ msg[w].gen \in Gens
                 /\ \A g \in Gens \ {msg[w].gen} : points'[g] = points[g]
  <1> USE DEF Step, Progress, Report, Handled, fileVars, dataVars, storeVars
  <1>1. CASE User \/ ApiStep \/ OrphanExpires \/ Lapse \/ \E g \in Gens : ApiCrash(g)
    BY <1>1, OthersLeaveData
  <1>2. ASSUME NEW w \in Workers, WorkerFault(w) PROVE points' = points
    BY <1>2 DEF WorkerFault, Crash, Redeliver, ContendLost, RequeueLost, FailUnrecorded
  <1>3. ASSUME NEW w \in Workers, WorkerStep(w), ~Upsert(w) PROVE points' = points
    BY <1>3 DEF WorkerStep, Receive, Admit, Acquire, Contend, LoadTask, Check, Load, Parse,
                Slice, Persist, Prepare, Scan, Scanned, Counted, Embed, Embedded, Index,
                Upserted, Confirm, Confirmed, Finish, Abandon, LeaseGone,
                CallFails, Diagnose, Fail, FailStale, Requeue, Unlock
  <1>4. ASSUME NEW w \in Workers, Upsert(w)
        PROVE  /\ msg[w].gen \in Gens
               /\ \A g \in Gens \ {msg[w].gen} : points'[g] = points[g]
    BY <1>4, BusyMessage DEF Upsert, Gen, TypeInv, IngestionTypeOK, StoreTypeOK
  <1> QED BY <1>1, <1>2, <1>3, <1>4 DEF IngestionNext

(* A worker begins by finding its task current.                             *)
LEMMA WorkerBegins ==
    ASSUME TypeInv, NEW w \in Workers, WorkerStep(w) \/ WorkerFault(w), Begun(w)'
    PROVE  /\ msg' = msg /\ msg[w].gen \in Gens
           /\ Begun(w) \/ Current(msg[w].gen)
  <1> USE DEF Begun, Indexing, Step, Goto, TypeInv, IngestionTypeOK
  <1>0. pc[w] # "idle" => msg[w].gen \in Gens
    BY BusyMessage
  <1>1. CASE WorkerFault(w)
    BY <1>0, <1>1 DEF WorkerFault, Crash, Reset, Redeliver, ContendLost, Raise, Unwind,
                      RequeueLost, FailUnrecorded, Handled, workerVars, Steps
  <1>2. CASE \/ Receive(w) \/ Admit(w) \/ Acquire(w) \/ Contend(w) \/ LoadTask(w)
             \/ Abandon(w) \/ LeaseGone(w) \/ CallFails(w) \/ Diagnose(w) \/ Fail(w)
             \/ FailStale(w) \/ Requeue(w) \/ Unlock(w)
    BY <1>0, <1>2 DEF Receive, Admit, Acquire, Contend, LoadTask, Abandon, LeaseGone, CallFails,
                      Diagnose, Fail, FailStale, Requeue, Unlock, Raise, Unwind, Handled, Reset
  <1>3. CASE Check(w)
    BY <1>0, <1>3 DEF Check, Proceeds, Gen
  <1>4. CASE \/ Load(w) \/ Parse(w) \/ Slice(w) \/ Persist(w) \/ Prepare(w) \/ Scan(w)
             \/ Scanned(w) \/ Counted(w)
    BY <1>0, <1>4 DEF Load, Parse, Slice, Persist, Prepare, Scan, Scanned, Counted, Raise, Unwind, Steps,
                      CallSteps, CheckSteps
  <1>5. CASE \/ Embed(w) \/ Embedded(w) \/ Index(w) \/ Upsert(w) \/ Upserted(w) \/ Confirm(w)
             \/ Confirmed(w) \/ Finish(w)
    BY <1>0, <1>5 DEF Embed, Embedded, Index, Upsert, Upserted, Confirm, Confirmed, Finish, Raise,
                      Unwind, Steps, CallSteps, CheckSteps
  <1> QED BY <1>1, <1>2, <1>3, <1>4, <1>5 DEF WorkerStep

(* Fresh and absent jobs have an unopened ledger. *)
LEMMA FreshUnopened == \A j \in JobIds : Unopened(NewJob(j)) /\ Unopened(NoJob(j))
  BY DEF Unopened, NewJob, NoJob

(* Ingestion opens no ledger, and a worker begins before any is opened.     *)
LEMMA UnopenedIngestion ==
    ASSUME PipeTypes, OutboxInv, UnopenedInv, IngestionNext
    PROVE  UnopenedInv'
  <1>0. TypeInv /\ StoreTypeOK /\ Scheduled
    BY IngestionSchedules DEF PipeTypes, TypeInv, IngestionTypeOK
  <1> SUFFICES ASSUME NEW v \in Workers, Begun(v)', NEW j \in JobIds, msg'[v].gen \in Scope(j)
               PROVE  Unopened(jobs'[j])
    BY DEF UnopenedInv, Scope
  <1>1. Unopened(jobs[j]) => Unopened(jobs'[j])
    BY <1>0, FreshUnopened DEF Scheduled
  <1>2. CASE pc'[v] = pc[v] /\ msg'[v] = msg[v]
    BY <1>1, <1>2 DEF UnopenedInv, Begun, Indexing
  <1>3. ASSUME NEW w \in Workers, WorkerStep(w) \/ WorkerFault(w)
        PROVE  Unopened(jobs'[j])
    <2>1. CASE v = w
      <3>1. msg' = msg /\ msg[v].gen \in Gens /\ (Begun(v) \/ Current(msg[v].gen))
        BY <1>0, <1>3, <2>1, WorkerBegins
      <3>2. CASE Begun(v)
        BY <1>1, <3>1, <3>2 DEF UnopenedInv
      <3>3. CASE Current(msg[v].gen)
        BY <1>1, <3>1, <3>3, CurrentUnclaimed, FreshUnopened
      <3> QED BY <3>1, <3>2, <3>3
    <2>2. CASE v # w
      BY <1>0, <1>2, <1>3, <2>2, OthersCarry
    <2> QED BY <2>1, <2>2
  <1>4. CASE User \/ ApiStep \/ OrphanExpires \/ Lapse \/ \E g \in Gens : ApiCrash(g)
    BY <1>2, <1>4, OthersLeaveData
  <1> QED BY <1>3, <1>4 DEF IngestionNext

(* The lock holds cleanup off while a worker indexes.                       *)
LEMMA HeldOff ==
    ASSUME CleanupTypeOK, OutboxInv, LocksInv, "lapse" \notin faults, CleanupNext,
           NEW w \in Workers, Indexing(w)
    PROVE  /\ rows' = rows /\ points' = points
           /\ \A j \in JobIds : Unopened(jobs[j]) => Unopened(jobs'[j])
  <1>1. ASSUME NEW c \in Cleaners
        PROVE  ~Deleting(c) /\ ~(step[c] = "close" /\ errors[c] = "none")
    BY ProcessAssumption DEF LocksInv, LockInv, GuardInv, Guards, Processes
  <1>2. ASSUME NEW c \in Cleaners
        PROVE  ~Succeed(c) /\ ~DeleteBatch(c) /\ ~Records(c)
    BY <1>1 DEF Succeed, DeleteBatch, Records, Move, Deleting
  <1>3. rows' = rows /\ points' = points
    <2>1. ASSUME NEW c \in Cleaners, CleanerStep(c) \/ CleanerCrash(c) \/ CloseUnrecorded(c)
          PROVE  rows' = rows /\ points' = points
      BY <1>2, <2>1, WorkerChanges
    <2>2. CASE \/ CleanerLapse
               \/ \E j \in JobIds : \/ Dispatch(j) \/ DispatchFails(j) \/ DelayPasses(j)
                                   \/ LeaseExpires(j) \/ ManualRetry(j)
      BY <2>2, OtherLocals, JobIdsCount DEF dataVars
    <2> QED BY <2>1, <2>2 DEF CleanupNext
  <1>4. ASSUME NEW j \in JobIds, Unopened(jobs[j])
        PROVE  Unopened(jobs'[j])
    BY <1>2, <1>4, JobFieldMoves DEF Unopened
  <1> QED BY <1>3, <1>4

(* Cleanup removes the rows of a generation as a whole. *)
LEMMA CleanupWhole ==
    ASSUME RestTypeOK, RowsWhole, CleanupNext
    PROVE  RowsWhole'
  <1>1. ASSUME NEW c \in Cleaners, CleanerStep(c) \/ CleanerCrash(c) \/ CloseUnrecorded(c)
        PROVE  RowsWhole'
    <2>1. CASE Succeed(c)
      BY <2>1 DEF Succeed, RowsWhole
    <2> QED BY <1>1, <2>1, WorkerChanges DEF RowsWhole
  <1>2. CASE \/ CleanerLapse
             \/ \E j \in JobIds : \/ Dispatch(j) \/ DispatchFails(j) \/ DelayPasses(j)
                                 \/ LeaseExpires(j) \/ ManualRetry(j)
    <2>1. rows' = rows
      BY <1>2, OtherLocals, JobIdsCount DEF dataVars
    <2> QED BY <2>1 DEF RowsWhole
  <1> QED BY <1>1, <1>2 DEF CleanupNext

(* Without the loss of a lease, cleanup keeps what is known of the points.  *)
LEMMA PipeDataCleanup ==
    ASSUME JobsInv, LocksInv, PipeDataInv, CleanupNext, UNCHANGED ingestionVars
    PROVE  PipeDataInv'
  <1> SUFFICES ASSUME "lapse" \notin faults'
               PROVE  DataInv' /\ PointsInv' /\ UnopenedInv'
    BY DEF PipeDataInv
  <1>0. /\ "lapse" \notin faults /\ CleanupTypeOK /\ RestTypeOK /\ OutboxInv
        /\ DataInv /\ PointsInv /\ UnopenedInv
        /\ UNCHANGED <<pc, msg>> /\ UNCHANGED fileVars
    BY FaultsGrow, CleanupTypeParts, FileKept DEF PipeDataInv, JobsInv, PipeTypes, ingestionVars
  <1>1. PointsInv'
    BY <1>0, PointsNext
  <1>2. UnopenedInv'
    BY <1>0, HeldOff DEF UnopenedInv, Begun, Indexing, Scope
  <1>3. WorkersKnow'
    <2> SUFFICES ASSUME NEW w \in Workers PROVE KnowsWhole(w)'
      BY DEF WorkersKnow
    <2>1. CASE Indexing(w)
      <3>1. rows' = rows /\ points' = points
        BY <1>0, <2>1, HeldOff
      <3> QED BY <1>0, <3>1 DEF DataInv, WorkersKnow, KnowsWhole, Prepared
    <2>2. CASE ~Indexing(w)
      <3>1. ~Prepared(w) /\ pc[w] # "finish"
        BY <2>2 DEF Indexing, Prepared, Steps, CallSteps, CheckSteps
      <3> QED BY <1>0, <3>1 DEF KnowsWhole, Prepared
    <2> QED BY <2>1, <2>2
  <1>4. RowsWhole' /\ PointsTraceable'
    BY <1>0, <1>1, CleanupWhole DEF DataInv, PointsInv, RowsOutlivePoints, PointsTraceable
  <1>5. DoneStarted' /\ Searchable'
    <2> SUFFICES ASSUME docStatus = "DONE", ~deleted
                 PROVE  rows'[version] = Chunks /\ points'[version] = Chunks
      BY <1>0 DEF DataInv, DoneStarted, Searchable, fileVars
    <2>1. version \in Gens
      BY <1>0 DEF DataInv, DoneStarted, CleanupTypeOK, StoreTypeOK, Gens
    <2> QED BY <1>0, <2>1, CleanupSpares DEF DataInv, Searchable
  <1> QED BY <1>1, <1>2, <1>3, <1>4, <1>5 DEF DataInv

(* Without the loss of a lease, ingestion does too: no cleanup worker is    *)
(* within its pass when points are added, and no ledger speaks of them.     *)
LEMMA PipeDataIngestion ==
    ASSUME JobsInv, LocksInv, PipeDataInv, IngestionNext, UNCHANGED cleanupVars
    PROVE  PipeDataInv'
  <1> SUFFICES ASSUME "lapse" \notin faults'
               PROVE  DataInv' /\ PointsInv' /\ UnopenedInv'
    BY DEF PipeDataInv
  <1>0. /\ PipeTypes /\ TypeInv /\ StoreTypeOK /\ FileInv /\ OutboxInv
        /\ UNCHANGED cleanerVars
    BY DEF JobsInv, PipeTypes, TypeInv, IngestionTypeOK, cleanupVars, cleanerVars
  <1>1. "lapse" \notin faults /\ DataInv /\ PointsInv /\ UnopenedInv
    BY <1>0, IngestionFrame DEF PipeDataInv
  <1>2. DataInv'
    BY <1>0, <1>1, DataNext
  <1>3. UnopenedInv'
    BY <1>0, <1>1, UnopenedIngestion
  <1>4. Scheduled
    BY <1>0, IngestionSchedules
  <1>5. RowsOutlivePoints'
    BY <1>2 DEF DataInv, PointsTraceable, RowsOutlivePoints
  <1>6. CASE points' = points
    <2>1. ASSUME NEW j \in JobIds PROVE LedgerHolds(j)'
      <3>1. CASE jobs'[j] = jobs[j]
        BY <1>1, <1>6, <3>1 DEF PointsInv, LedgerHolds, Scope
      <3>2. CASE jobs'[j] = NewJob(j)
        BY <3>2, FreshUnopened DEF LedgerHolds, Unopened
      <3> QED BY <1>4, <3>1, <3>2 DEF Scheduled
    <2>2. ASSUME NEW c \in Cleaners PROVE Knows(c)' /\ Recalls(c)'
      BY <1>0, <1>1, <1>6 DEF PointsInv, Knows, Recalls, Visiting, TargetsHere, Scope, cleanerVars
    <2> QED BY <1>2, <1>3, <1>5, <2>1, <2>2 DEF PointsInv
  <1>7. ASSUME NEW w \in Workers, Upsert(w), msg[w].gen \in Gens,
               \A g \in Gens \ {msg[w].gen} : points'[g] = points[g]
        PROVE  PointsInv'
    <2>1. Begun(w) /\ Indexing(w) /\ jobs' = jobs
      BY <1>7 DEF Upsert, Begun, Indexing, Steps, CallSteps
    <2>2. ASSUME NEW j \in JobIds PROVE LedgerHolds(j)'
      <3>1. CASE msg[w].gen \in Scope(j)
        BY <1>1, <2>1, <3>1 DEF UnopenedInv, Unopened, LedgerHolds
      <3>2. CASE msg[w].gen \notin Scope(j)
        BY <1>1, <1>7, <2>1, <3>2, ScopeInGens DEF PointsInv, LedgerHolds, Scope
      <3> QED BY <3>1, <3>2
    <2>3. ASSUME NEW c \in Cleaners PROVE Knows(c)' /\ Recalls(c)'
      <3>1. lock = w /\ w # c
        BY <1>1, <2>1, ProcessAssumption DEF LocksInv, LockInv, Processes
      <3>2. ~Deleting(c) /\ ~(step[c] = "close" /\ errors[c] = "none") /\ unsaved[c] = NothingUnsaved
        BY <1>1, <3>1 DEF LocksInv, GuardInv, Guards
      <3> QED BY <1>0, <3>2 DEF Knows, Recalls, NothingUnsaved, Visiting, Deleting, cleanerVars
    <2> QED BY <1>5, <2>2, <2>3 DEF PointsInv
  <1> QED BY <1>0, <1>2, <1>3, <1>6, <1>7, PointsStep

(* PipeDataInv holds in every reachable state. *)
LEMMA PipeDataInvariance == PipelineSpec => []PipeDataInv
  <1>1. PipelineInit => PipeDataInv
    <2> SUFFICES ASSUME PipelineInit PROVE PipeDataInv
      OBVIOUS
    <2>0. StoreInit /\ WorkersInit /\ CleanersInit
      BY DEF PipelineInit, IngestionInit
    <2>1. DataInv
      BY DataInit DEF PipelineInit
    <2>2. PointsInv
      BY <2>0, ScopeInGens
         DEF StoreInit, CleanersInit, PointsInv, RowsOutlivePoints, LedgerHolds, Knows, Recalls,
             NothingUnsaved, Visiting
    <2>3. UnopenedInv
      BY <2>0 DEF WorkersInit, UnopenedInv, Begun, Indexing
    <2> QED BY <2>1, <2>2, <2>3 DEF PipeDataInv
  <1>2. PipeDataInv /\ UNCHANGED pipelineVars => PipeDataInv'
    <2> SUFFICES ASSUME PipeDataInv, UNCHANGED pipelineVars, "lapse" \notin faults
                 PROVE  DataInv' /\ PointsInv' /\ UnopenedInv'
      BY DEF PipeDataInv, pipelineVars, storeVars
    <2>0. UNCHANGED <<storeVars, ingestionVars, cleanupVars>> /\ DataInv /\ PointsInv /\ UnopenedInv
      BY DEF PipeDataInv, pipelineVars
    <2>1. DataInv'
      BY <2>0 DEF DataInv, RowsWhole, WorkersKnow, KnowsWhole, Prepared, PointsTraceable, DoneStarted,
                  Searchable, storeVars, ingestionVars
    <2>2. PointsInv'
      BY <2>0 DEF PointsInv, RowsOutlivePoints, LedgerHolds, Knows, Recalls, Visiting, TargetsHere, Scope,
                  storeVars, cleanupVars
    <2>3. UnopenedInv'
      BY <2>0 DEF UnopenedInv, Unopened, Begun, Indexing, Scope, storeVars, ingestionVars
    <2> QED BY <2>1, <2>2, <2>3
  <1>3. JobsInv /\ LocksInv /\ PipeDataInv /\ [PipelineNext]_pipelineVars => PipeDataInv'
    BY <1>2, PipeDataIngestion, PipeDataCleanup DEF PipelineNext
  <1> QED BY <1>1, <1>3, JobsInvariance, LocksInvariance, PTL DEF PipelineSpec

(* No point is ever stranded without the chunk row through which cleanup    *)
(* finds it, though late workers upsert and cleanup deletes rows.           *)
THEOREM NoneStrandedCorrect == PipelineSpec => []NoneStranded
  <1>1. PipeDataInv => NoneStranded
    BY DEF PipeDataInv, PointsInv, RowsOutlivePoints, NoneStranded
  <1> QED BY <1>1, PipeDataInvariance, PTL

(* Once the deletion job has succeeded nothing of the document is left, and *)
(* no worker that was still indexing brings anything back.                  *)
THEOREM NothingLeftCorrect == PipelineSpec => []NothingLeft
  <1>1. JobsInv /\ PipeDataInv => NothingLeft
    <2> SUFFICES ASSUME JobsInv, PipeDataInv, "lapse" \notin faults, jobs[0].status = "SUCCESS"
                 PROVE  ~raw /\ \A g \in Gens : rows[g] = {} /\ points[g] = {}
      BY DEF NothingLeft
    <2>1. ~raw
      BY DEF JobsInv, RawInv
    <2>2. \A g \in Gens : rows[g] = {}
      BY JobIdsCount DEF JobsInv, RowsGone, Scope
    <2>3. \A g \in Gens : points[g] \subseteq rows[g]
      BY DEF PipeDataInv, PointsInv, RowsOutlivePoints
    <2> QED BY <2>1, <2>2, <2>3
  <1> QED BY <1>1, JobsInvariance, PipeDataInvariance, PTL

(* Beside ingestion, too, the ledger of a job is true and a job is reported *)
(* as SUCCESS only when everything it is about is gone.                     *)
THEOREM LedgerKept == PipelineSpec => []("lapse" \notin faults => LedgerTrue /\ CleanedUp)
  <1>1. JobsInv /\ PipeDataInv => ("lapse" \notin faults => LedgerTrue /\ CleanedUp)
    <2> SUFFICES ASSUME JobsInv, PipeDataInv, "lapse" \notin faults PROVE LedgerTrue /\ CleanedUp
      OBVIOUS
    <2>1. CleanInv
      BY DEF JobsInv, PipeTypes, PipeDataInv, CleanInv
    <2> QED BY <2>1, CleanInvHolds
  <1> QED BY <1>1, JobsInvariance, PipeDataInvariance, PTL

-----------------------------------------------------------------------------
(***************************************************************************)
(* What the owner sees, whatever happens to the lock: late workers and     *)
(* cleanup only touch generations that nobody looks at any more.           *)
(***************************************************************************)

(* Messages and requests are about generations that exist. *)
GensStarted ==
    /\ \A m \in queue : m.gen <= version
    /\ \A w \in Workers : msg[w].gen <= version
    /\ \A g \in Gens : dispatch[g] # "none" => g <= version

(* A worker on the current generation takes nothing for granted in vain.    *)
CurrentKnown == \A w \in Workers : (~deleted /\ msg[w].gen = version) => KnowsWhole(w)

SeenInv == MapInv /\ RowsWhole /\ GensStarted /\ CurrentKnown

(* The messages a worker takes, keeps and gives back. *)
LEMMA WorkerMessages ==
    ASSUME TypeInv, NEW w \in Workers, WorkerStep(w) \/ WorkerFault(w)
    PROVE  /\ \A m \in queue' : m \in queue \/ m.gen = msg[w].gen
           /\ msg'[w] \in queue \cup {msg[w], NoMessage}
           /\ msg'[w] = msg[w] \/ pc'[w] \in {"idle", "received"}
           /\ dispatch' = dispatch
  <1> USE DEF TypeInv, IngestionTypeOK, Step, Goto, Raise, Unwind, Handled, Reset, workerVars,
              brokerVars
  <1>0. pc[w] # "idle" => Retried(w).gen = msg[w].gen
    BY BusyMessage DEF Retried, Message
  <1>1. CASE WorkerFault(w)
    BY <1>1 DEF WorkerFault, Crash, Redeliver, ContendLost, RequeueLost, FailUnrecorded
  <1>2. CASE Receive(w) \/ Contend(w) \/ LoadTask(w) \/ Requeue(w) \/ Unlock(w)
    BY <1>0, <1>2 DEF Receive, Contend, LoadTask, Requeue, Unlock
  <1>3. CASE \/ Admit(w) \/ Acquire(w) \/ Check(w) \/ Load(w) \/ Parse(w) \/ Slice(w)
             \/ Persist(w) \/ Prepare(w) \/ Scan(w) \/ Scanned(w) \/ Counted(w)
    BY <1>3 DEF Admit, Acquire, Check, Load, Parse, Slice, Persist, Prepare, Scan, Scanned,
                Counted
  <1>4. CASE \/ Embed(w) \/ Embedded(w) \/ Index(w) \/ Upsert(w) \/ Upserted(w)
             \/ Confirm(w) \/ Confirmed(w) \/ Finish(w)
    BY <1>4 DEF Embed, Embedded, Index, Upsert, Upserted, Confirm, Confirmed, Finish
  <1>5. CASE \/ Abandon(w) \/ LeaseGone(w) \/ CallFails(w) \/ Diagnose(w) \/ Fail(w) \/ FailStale(w)
    BY <1>5 DEF Abandon, LeaseGone, CallFails, Diagnose, Fail, FailStale
  <1> QED BY <1>1, <1>2, <1>3, <1>4, <1>5 DEF WorkerStep

(* No message runs ahead of the document. *)
LEMMA GensNext ==
    ASSUME TypeInv, FileInv, GensStarted, IngestionNext
    PROVE  GensStarted'
  <1>0. /\ version \in 0..MaxVersion /\ MaxVersion \in Nat /\ MaxVersion >= 1 /\ 1 \in Gens
        /\ dispatch \in [Gens -> DispatchState] /\ msg \in [Workers -> Message \cup {NoMessage}]
        /\ queue \subseteq Message /\ NoMessage.gen = 0
    BY BoundsAssumption DEF TypeInv, IngestionTypeOK, StoreTypeOK, Gens, NoMessage
  <1>1. \A m \in Message \cup {NoMessage} : m.gen \in 0..MaxVersion
    BY <1>0 DEF Message, Gens
  <1>2. ASSUME NEW w \in Workers, WorkerStep(w) \/ WorkerFault(w)
        PROVE  GensStarted'
    <2>1. version' = version
      BY <1>2, WorkerFrame
    <2>2. \A v \in Workers \ {w} : msg'[v] = msg[v]
      BY <1>2, OthersCarry
    <2>3. msg'[w].gen <= version
      BY <1>0, <1>2, WorkerMessages DEF GensStarted
    <2> QED BY <1>2, <2>1, <2>2, <2>3, WorkerMessages DEF GensStarted
  <1>3. CASE UNCHANGED <<queue, msg, dispatch>>
    <2>1. version' \in 0..MaxVersion /\ version' >= version
      BY IngestionFrame
    <2> QED BY <1>0, <1>1, <1>3, <2>1 DEF GensStarted, Gens
  <1>4. ASSUME NEW g \in Gens, CreateTask(g), g >= version
        PROVE  GensStarted'
    BY <1>0, <1>1, <1>4 DEF CreateTask, GensStarted, Gens, workerVars
  <1>5. CASE Enqueue
    BY <1>0, <1>4, <1>5 DEF Enqueue
  <1>6. CASE Reparse
    <2>1. version + 1 \in Gens /\ CreateTask(version + 1)
      BY <1>0, <1>6 DEF Reparse, Gens
    <2> QED BY <1>0, <1>4, <2>1
  <1>7. ASSUME NEW g \in Gens, Publish(g) \/ PublishRaises(g) \/ Recheck(g) \/ ApiCrash(g)
        PROVE  GensStarted'
    <2>1. g <= version /\ version' = version /\ msg' = msg
      BY <1>0, <1>7 DEF Publish, PublishRaises, Recheck, ApiCrash, GensStarted, storeVars, fileVars,
                        workerVars
    <2>2. \A m \in queue' : m \in queue \/ m.gen = g
      BY <1>7 DEF Publish, PublishRaises, Recheck, ApiCrash
    <2>3. \A h \in Gens : h # g => dispatch'[h] = dispatch[h]
      BY <1>0, <1>7 DEF Publish, PublishRaises, Recheck, ApiCrash
    <2> QED BY <2>1, <2>2, <2>3 DEF GensStarted
  <1>8. ASSUME NEW g \in Gens, Revoke(g)
        PROVE  GensStarted'
    BY <1>8 DEF Revoke, GensStarted, storeVars, workerVars
  <1>9. CASE Upload \/ Delete \/ OrphanExpires \/ Lapse
    BY <1>3, <1>9 DEF Upload, Delete, OrphanExpires, Lapse, ingestionVars
  <1> QED BY <1>2, <1>5, <1>6, <1>7, <1>8, <1>9 DEF IngestionNext, User, ApiStep

(* Ingestion keeps SeenInv. *)
LEMMA SeenIngestion ==
    ASSUME JobsInv, SeenInv, IngestionNext
    PROVE  SeenInv'
  <1>0. /\ TypeInv /\ FileInv /\ RowsWhole
        /\ version \in 0..MaxVersion /\ MaxVersion \in Nat
        /\ rows \in [Gens -> SUBSET Chunks]
    BY BoundsAssumption DEF JobsInv, PipeTypes, TypeInv, IngestionTypeOK, StoreTypeOK, SeenInv
  <1>1. MapInv' /\ GensStarted'
    BY <1>0, MapNext, GensNext DEF SeenInv
  <1>2. RowsWhole'
    BY <1>0, RowsStep DEF RowsWhole
  <1>3. CurrentKnown'
    <2> SUFFICES ASSUME NEW v \in Workers, ~deleted', msg'[v].gen = version'
                 PROVE  KnowsWhole(v)'
      BY DEF CurrentKnown
    <2>1. ASSUME NEW w \in Workers, WorkerStep(w) \/ WorkerFault(w)
          PROVE  KnowsWhole(v)'
      <3>1. UNCHANGED <<version, deleted>>
        BY <2>1, WorkerFrame
      <3>2. CASE msg'[v] = msg[v]
        BY <1>0, <2>1, <3>1, <3>2, WorkerKnows DEF SeenInv, CurrentKnown
      <3>3. CASE msg'[v] # msg[v]
        <4>1. v = w
          BY <1>0, <2>1, <3>3, OthersCarry
        <4>2. pc'[v] \in {"idle", "received"}
          BY <1>0, <2>1, <3>3, <4>1, WorkerMessages
        <4> QED BY <4>2 DEF KnowsWhole, Prepared
      <3> QED BY <3>2, <3>3
    <2>2. CASE User \/ ApiStep \/ OrphanExpires \/ Lapse \/ \E g \in Gens : ApiCrash(g)
      <3>1. UNCHANGED <<rows, points, pc, msg>>
        BY <2>2, OthersLeaveData
      <3>2. version' \in 0..MaxVersion /\ version' >= version /\ ~deleted
        <4>1. Delete => deleted'
          BY DEF Delete, PrepareDeletion
        <4> QED BY <1>0, <4>1, IngestionFrame
      <3>3. msg[v].gen \in 0..MaxVersion /\ msg[v].gen <= version
        BY <1>0 DEF SeenInv, GensStarted, TypeInv, IngestionTypeOK, Message, NoMessage, Gens
      <3>4. msg[v].gen = version
        BY <1>0, <3>1, <3>2, <3>3
      <3> QED BY <3>1, <3>2, <3>4 DEF SeenInv, CurrentKnown, KnowsWhole, Prepared
    <2> QED BY <2>1, <2>2 DEF IngestionNext
  <1> QED BY <1>1, <1>2, <1>3 DEF SeenInv

(* Cleanup keeps SeenInv. *)
LEMMA SeenCleanup ==
    ASSUME JobsInv, SeenInv, CleanupNext, UNCHANGED ingestionVars
    PROVE  SeenInv'
  <1>0. /\ TypeInv /\ RestTypeOK /\ version \in 0..MaxVersion /\ MaxVersion \in Nat
        /\ UNCHANGED fileVars
    BY BoundsAssumption, CleanupTypeParts, FileKept DEF JobsInv, PipeTypes, FileTypeOK
  <1>1. MapInv'
    <2>1. FutureEmpty'
      <3>1. \A g \in Gens : rows'[g] \subseteq rows[g]
        BY <1>0, DataShrinks
      <3> QED BY <1>0, <3>1 DEF SeenInv, MapInv, FutureEmpty, fileVars
    <2>2. OriginalStored'
      BY <1>0, CleanupSpares DEF SeenInv, MapInv, OriginalStored, fileVars
    <2> QED BY <1>0, <2>1, <2>2 DEF SeenInv, MapInv, TaskKnown, FreshRow, fileVars, ingestionVars
  <1>2. RowsWhole'
    BY <1>0, CleanupWhole DEF SeenInv
  <1>3. GensStarted'
    BY <1>0 DEF SeenInv, GensStarted, fileVars, ingestionVars
  <1>4. CurrentKnown'
    <2> SUFFICES ASSUME NEW v \in Workers, ~deleted, msg[v].gen = version
                 PROVE  KnowsWhole(v)'
      BY <1>0 DEF CurrentKnown, fileVars, ingestionVars
    <2>1. CASE pc[v] = "idle"
      BY <2>1 DEF KnowsWhole, Prepared, ingestionVars
    <2>2. CASE pc[v] # "idle"
      <3>1. version \in Gens
        BY <1>0, <2>2, BusyMessage
      <3>2. rows'[version] = rows[version] /\ points'[version] = points[version]
        BY <3>1, CleanupSpares
      <3> QED BY <1>0, <3>2 DEF SeenInv, CurrentKnown, KnowsWhole, Prepared, fileVars, ingestionVars
    <2> QED BY <2>1, <2>2
  <1> QED BY <1>1, <1>2, <1>3, <1>4 DEF SeenInv

(* SeenInv holds in every reachable state. *)
LEMMA SeenInvariance == PipelineSpec => []SeenInv
  <1>1. PipelineInit => SeenInv
    <2> SUFFICES ASSUME PipelineInit PROVE SeenInv
      OBVIOUS
    <2>0. IngestionInit /\ StoreInit /\ WorkersInit
      BY DEF PipelineInit, IngestionInit
    <2>1. MapInv /\ RowsWhole
      BY <2>0, MapInit DEF StoreInit, RowsWhole
    <2>2. GensStarted /\ CurrentKnown
      BY <2>0 DEF StoreInit, WorkersInit, NoMessage, GensStarted, CurrentKnown, KnowsWhole, Prepared
    <2> QED BY <2>1, <2>2 DEF SeenInv
  <1>2. SeenInv /\ UNCHANGED pipelineVars => SeenInv'
    BY DEF SeenInv, MapInv, FutureEmpty, TaskKnown, OriginalStored, FreshRow, RowsWhole, GensStarted,
           CurrentKnown, KnowsWhole, Prepared, pipelineVars, storeVars, ingestionVars
  <1>3. JobsInv /\ SeenInv /\ [PipelineNext]_pipelineVars => SeenInv'
    BY <1>2, SeenIngestion, SeenCleanup DEF PipelineNext
  <1> QED BY <1>1, <1>3, JobsInvariance, PTL DEF PipelineSpec

(* What is taken for granted makes a report of success true. *)
LEMMA SeenComplete == JobsInv /\ SeenInv => Complete
  <1> SUFFICES ASSUME JobsInv, SeenInv, NEW w \in Workers, pc[w] = "finish", Current(msg[w].gen)
               PROVE  Found = Chunks
    BY DEF Complete
  <1>1. version \in Gens /\ ~deleted /\ msg[w].gen = version
    BY BusyMessage DEF JobsInv, PipeTypes, Current
  <1>2. rows[version] = Chunks /\ points[version] = Chunks
    BY <1>1 DEF SeenInv, CurrentKnown, KnowsWhole, Prepared
  <1> QED BY <1>1, <1>2 DEF Found, Gens

(* The owner of the document does not see cleanup at work. *)
LEMMA CleanupUnseen ==
    ASSUME JobsInv, CleanupNext
    PROVE  UNCHANGED Promise!indexVars
  <1>0. UNCHANGED fileVars /\ version \in 0..MaxVersion /\ MaxVersion \in Nat
    BY BoundsAssumption, FileKept, CleanupTypeParts DEF JobsInv, PipeTypes, FileTypeOK
  <1>1. CASE deleted
    BY <1>0, <1>1, DeletedUnseen DEF fileVars
  <1>2. CASE ~deleted
    <2>1. Found' = Found
      <3>1. UNCHANGED <<version, deleted>>
        BY <1>0 DEF fileVars
      <3>2. CASE version = 0
        BY <1>2, <3>1, <3>2 DEF Found
      <3>3. CASE version # 0
        <4>1. version \in Gens
          BY <1>0, <3>3 DEF Gens
        <4>2. rows'[version] = rows[version] /\ points'[version] = points[version]
          BY <1>2, <4>1, CleanupSpares
        <4> QED BY <3>1, <4>2 DEF Found
      <3> QED BY <3>2, <3>3
    <2>2. raw' = raw
      BY <1>2, CleanupSpares
    <2> QED BY <1>0, <2>1, <2>2 DEF Promise!indexVars, Phase, Active, fileVars
  <1> QED BY <1>1, <1>2

(* Ingestion and cleanup together keep the promise of DocumentIndex: the    *)
(* owner finds a document as a whole or not at all, loses no passage of it, *)
(* and a deletion is final, whatever is late, retried, crashes or lapses.   *)
THEOREM PipelinePromiseKept == PipelineSpec => KeepsPromise
  <1>1. PipelineInit => Promise!IndexInit
    BY InitMaps DEF PipelineInit
  <1>2. JobsInv /\ SeenInv /\ [PipelineNext]_pipelineVars => [Promise!IndexNext]_Promise!indexVars
    <2> SUFFICES ASSUME JobsInv, SeenInv, [PipelineNext]_pipelineVars
                 PROVE  [Promise!IndexNext]_Promise!indexVars
      OBVIOUS
    <2>0. TypeInv /\ FileInv /\ MapInv /\ Complete
      BY SeenComplete DEF JobsInv, PipeTypes, SeenInv
    <2>1. CASE IngestionNext
      BY <2>0, <2>1, NextMaps
    <2>2. CASE CleanupNext
      BY <2>2, CleanupUnseen
    <2>3. CASE UNCHANGED pipelineVars
      BY <2>3, Unseen DEF pipelineVars, storeVars
    <2> QED BY <2>1, <2>2, <2>3 DEF PipelineNext
  <1> QED BY <1>1, <1>2, JobsInvariance, SeenInvariance, PTL
          DEF PipelineSpec, KeepsPromise, Promise!IndexSpec

=============================================================================
