---------------------------- MODULE CleanupProofs ----------------------------
(***************************************************************************)
(* What cleanup reports as deleted is gone, and what it has not deleted    *)
(* can still be found, for any number of generations, collections, chunks, *)
(* workers, retries and faults.                                            *)
(*                                                                         *)
(* The lemmas about steps speak of CleanupNext alone, so that they hold    *)
(* beside ingestion, too. Nothing in them uses the document lock or that a *)
(* claim has one worker: within cleanup data only shrinks, so what one     *)
(* worker knows cannot be undone by another that lost its claim.           *)
(***************************************************************************)
EXTENDS Cleanup, TLAPS

-----------------------------------------------------------------------------
(* Types *)

(* The types of the cleanup workers' own variables. *)
CleanersTypeOK ==
    /\ step \in [Cleaners -> CleanerSteps]
    /\ job \in [Cleaners -> JobIds]
    /\ visit \in [Cleaners -> SUBSET Collections]
    /\ here \in [Cleaners -> SUBSET Collections]
    /\ targets \in [Cleaners -> SUBSET (Gens \X Chunks)]
    /\ errors \in [Cleaners -> {"none", "transient", "permanent"}]
    /\ unsaved \in [Cleaners -> [raw : BOOLEAN, done : SUBSET Collections]]

OutboxTypeOK ==
    /\ jobs \in [JobIds -> Job]
    /\ \A j \in JobIds : jobs[j].retries <= MaxCleanupRetries
    /\ jobQueue \subseteq JobIds

(* The types of what cleanup deletes and of the lock. *)
RestTypeOK ==
    /\ rows \in [Gens -> SUBSET Chunks]
    /\ points \in [Gens -> SUBSET Chunks]
    /\ raw \in BOOLEAN
    /\ lock \in Processes \cup {Free, Orphan}
    /\ faults \subseteq FaultKinds

FileTypeOK ==
    /\ version \in 0..MaxVersion
    /\ deleted \in BOOLEAN
    /\ docStatus \in DocStatus
    /\ metaTask \in 0..MaxVersion
    /\ task \in [Gens -> Task]
    /\ torn \in BOOLEAN

(* CleanupTypeOK is the types of the four parts of the state. *)
LEMMA CleanupTypeParts ==
    CleanupTypeOK <=> CleanersTypeOK /\ OutboxTypeOK /\ RestTypeOK /\ FileTypeOK
  BY DEF CleanupTypeOK, StoreTypeOK, CleanersTypeOK, OutboxTypeOK, RestTypeOK, FileTypeOK

(* A fault leaves the set of faults well formed. *)
LEMMA SpendKeepsFaults ==
    ASSUME faults \subseteq FaultKinds, NEW f, Spend(f)
    PROVE  faults' \subseteq FaultKinds /\ faults \subseteq faults' /\ f \in faults'
  BY BoundsAssumption DEF Spend

(* The jobs are the deletion of the file, 0, and one for each generation.   *)
LEMMA JobIdsCount == 0 \in JobIds /\ Gens \subseteq JobIds /\ \A j \in JobIds \ {0} : j \in Gens
  BY BoundsAssumption DEF JobIds, Gens

(* The steps of a cleanup worker. *)
LEMMA StepNames ==
    CleanerSteps = {"idle", "rawSave", "collectionSave", "close", "handle", "release", "raw",
                    "vectors", "collection", "batch", "claimed", "rawDelete", "targets", "deleting"}
  BY DEF CleanerSteps, RemoteSteps, BeatSteps

(* One job is replaced by another record of the right type. *)
LEMMA JobChanges ==
    ASSUME OutboxTypeOK, NEW j \in JobIds, NEW r \in Job, r.retries <= MaxCleanupRetries,
           jobs' = [jobs EXCEPT ![j] = r], jobQueue' \subseteq JobIds
    PROVE  OutboxTypeOK'
  BY DEF OutboxTypeOK

(* The fields of a job. *)
LEMMA JobFields ==
    ASSUME OutboxTypeOK, NEW j \in JobIds
    PROVE  /\ jobs[j] \in Job
           /\ jobs[j].status \in JobStatus
           /\ jobs[j].raw \in TargetStatus
           /\ jobs[j].vectors \in TargetStatus
           /\ jobs[j].done \subseteq Collections
           /\ jobs[j].retries \in Nat /\ jobs[j].retries <= MaxCleanupRetries
           /\ jobs[j].delayed \in BOOLEAN
           /\ jobs[j].owner \in {Free} \cup Cleaners
           /\ jobs[j].live \in BOOLEAN
  BY DEF OutboxTypeOK, Job

(* The four parts give CleanupTypeOK in the next state. *)
LEMMA CleanupTypeJoin ==
    ASSUME CleanersTypeOK', OutboxTypeOK', RestTypeOK', FileTypeOK'
    PROVE  CleanupTypeOK'
  BY DEF CleanupTypeOK, StoreTypeOK, CleanersTypeOK, OutboxTypeOK, RestTypeOK, FileTypeOK

(* The dispatcher and the clock keep the types. *)
LEMMA DispatcherTypes ==
    ASSUME CleanupTypeOK, NEW j \in JobIds,
           \/ Dispatch(j) \/ DispatchFails(j)
           \/ DelayPasses(j) \/ LeaseExpires(j) \/ ManualRetry(j)
    PROVE  CleanupTypeOK'
  <1>0. CleanersTypeOK /\ OutboxTypeOK /\ RestTypeOK /\ FileTypeOK
    BY CleanupTypeParts
  <1>1. 0 \in Nat /\ 0 <= MaxCleanupRetries /\ "PENDING" \in JobStatus
    BY CleanupRetryAssumption DEF JobStatus
  <1>2. jobQueue' \subseteq JobIds
    BY <1>0 DEF OutboxTypeOK, Dispatch, DispatchFails, DelayPasses, LeaseExpires, ManualRetry,
                cleanupVars, cleanerVars
  <1>3. \/ jobs' = [jobs EXCEPT ![j] = [@ EXCEPT !.status = "PENDING", !.owner = Free, !.live = FALSE]]
        \/ jobs' = [jobs EXCEPT ![j] = [@ EXCEPT !.delayed = FALSE]]
        \/ jobs' = [jobs EXCEPT ![j] = [@ EXCEPT !.live = FALSE]]
        \/ jobs' = [jobs EXCEPT ![j] = [@ EXCEPT !.status = "PENDING", !.retries = 0,
                                                 !.owner = Free, !.live = FALSE]]
    BY DEF Dispatch, DispatchFails, Reserve, DelayPasses, LeaseExpires, ManualRetry
  <1>4. \E r \in Job : r.retries <= MaxCleanupRetries /\ jobs' = [jobs EXCEPT ![j] = r]
    <2> DEFINE r1 == [jobs[j] EXCEPT !.status = "PENDING", !.owner = Free, !.live = FALSE]
               r2 == [jobs[j] EXCEPT !.delayed = FALSE]
               r3 == [jobs[j] EXCEPT !.live = FALSE]
               r4 == [jobs[j] EXCEPT !.status = "PENDING", !.retries = 0,
                                     !.owner = Free, !.live = FALSE]
    <2>1. r1 \in Job /\ r1.retries <= MaxCleanupRetries
      BY <1>0, <1>1, JobFields DEF Job
    <2>2. r2 \in Job /\ r2.retries <= MaxCleanupRetries
      BY <1>0, <1>1, JobFields DEF Job
    <2>3. r3 \in Job /\ r3.retries <= MaxCleanupRetries
      BY <1>0, <1>1, JobFields DEF Job
    <2>4. r4 \in Job /\ r4.retries <= MaxCleanupRetries
      BY <1>0, <1>1, JobFields DEF Job
    <2>5. \E r \in {r1, r2, r3, r4} : jobs' = [jobs EXCEPT ![j] = r]
      BY <1>3
    <2> QED BY <2>1, <2>2, <2>3, <2>4, <2>5
  <1>5. OutboxTypeOK'
    BY <1>0, <1>2, <1>4, JobChanges
  <1>6. CleanersTypeOK' /\ FileTypeOK'
    BY <1>0 DEF Dispatch, DispatchFails, Reserve, DelayPasses, LeaseExpires, ManualRetry,
                CleanersTypeOK, FileTypeOK, cleanupVars, cleanerVars, fileVars, dataVars
  <1>7. RestTypeOK'
    BY <1>0, SpendKeepsFaults
       DEF Dispatch, DispatchFails, Reserve, DelayPasses, LeaseExpires, ManualRetry,
           RestTypeOK, dataVars
  <1> QED BY <1>5, <1>6, <1>7, CleanupTypeJoin

(* What has been finished is either gone on record or still to be recorded. *)
LEMMA FinishedType ==
    ASSUME CleanersTypeOK, NEW w \in Cleaners
    PROVE  Finished(w).raw \in BOOLEAN /\ Finished(w).done \subseteq Collections
  BY DEF CleanersTypeOK, Finished

(* A heartbeat writes the lease of the job, and a checkpoint with results    *)
(* the targets, too.                                                        *)
LEMMA CheckpointWrites ==
    ASSUME OutboxTypeOK, CleanersTypeOK, NEW w \in Cleaners
    PROVE  /\ Renewed(w) = [jobs EXCEPT ![job[w]] = [jobs[job[w]] EXCEPT !.live = TRUE]]
           /\ Recorded(w) \in Job
           /\ Recorded(w).status = jobs[job[w]].status
           /\ Recorded(w).retries = jobs[job[w]].retries
           /\ Recorded(w).raw = IF Finished(w).raw THEN "SUCCESS" ELSE jobs[job[w]].raw
           /\ Recorded(w).done = jobs[job[w]].done \cup Finished(w).done
           /\ Recorded(w).vectors = IF step[w] = "collection" THEN "SUCCESS" ELSE jobs[job[w]].vectors
  <1> DEFINE j == job[w]
             r == Renewed(w)[j]
             d == jobs[j].done \cup Finished(w).done
             ra == IF Finished(w).raw THEN "SUCCESS" ELSE jobs[j].raw
             ve == IF step[w] = "collection" THEN "SUCCESS" ELSE jobs[j].vectors
  <1>0. jobs \in [JobIds -> Job] /\ j \in JobIds /\ jobs[j] \in Job
    BY DEF OutboxTypeOK, CleanersTypeOK
  <1>1. Renewed(w) = [jobs EXCEPT ![j] = [jobs[j] EXCEPT !.live = TRUE]]
    BY DEF Renewed
  <1>2. r = [jobs[j] EXCEPT !.live = TRUE]
    BY <1>0, <1>1
  <1>3. r \in Job /\ r.status = jobs[j].status /\ r.retries = jobs[j].retries /\ r.raw = jobs[j].raw
        /\ r.done = jobs[j].done /\ r.vectors = jobs[j].vectors
    BY <1>0, <1>2 DEF Job
  <1>4. ra \in TargetStatus /\ ve \in TargetStatus /\ d \in SUBSET Collections
    BY <1>0, FinishedType DEF Job, TargetStatus
  <1>5. Recorded(w) = [r EXCEPT !.raw = ra, !.done = d, !.vectors = ve]
    BY <1>3 DEF Recorded
  <1> HIDE DEF r, ra, d, ve
  <1>6. /\ Recorded(w) \in Job /\ Recorded(w).status = r.status /\ Recorded(w).retries = r.retries
        /\ Recorded(w).raw = ra /\ Recorded(w).done = d /\ Recorded(w).vectors = ve
    BY <1>3, <1>4, <1>5 DEF Job
  <1> QED BY <1>1, <1>3, <1>6 DEF ra, d, ve

(* A job that is neither absent nor finished. *)
Pursued(r) == r.status \in {"PENDING", "PROCESSING", "FAILED"}

(* Nothing of what target_results records differs. *)
SameLedger(r, s) == s.raw = r.raw /\ s.vectors = r.vectors /\ s.done = r.done

Pursues(r, s) == Pursued(r) /\ Pursued(s) /\ SameLedger(r, s)

(* Worker w records its results: the vectors only once every target is gone. *)
Records(w) ==
    /\ Record(w)
    /\ step[w] \in {"rawSave", "collectionSave", "collection"}
    /\ step[w] = "collection" => visit[w] = {} /\ targets[w] = {}

(* The checkpoints by which worker w brings job j forward. *)
Advances(w, j, s) ==
    /\ j = job[w] /\ jobs[j].status = "PROCESSING"
    /\ \/ Records(w) /\ s = Recorded(w)
       \/ /\ Succeed(w)
          /\ s = [jobs[j] EXCEPT !.status = "SUCCESS", !.owner = Free, !.live = FALSE,
                                 !.delayed = FALSE, !.retries = jobs[j].retries]

(* Worker w replaces job j by s. *)
WritesJob(w, j, s) ==
    /\ s.retries <= MaxCleanupRetries
    /\ jobs' = [jobs EXCEPT ![j] = s]
    /\ Pursues(jobs[j], s) \/ Advances(w, j, s)

(* A step of a worker leaves the outbox alone, or keeps on with one job, or *)
(* is one of those checkpoints.                                             *)
LEMMA WorkerWrites ==
    ASSUME CleanupTypeOK, NEW w \in Cleaners,
           CleanerStep(w) \/ CleanerCrash(w) \/ CloseUnrecorded(w)
    PROVE  \/ jobs' = jobs
           \/ \E j \in JobIds, s \in Job : WritesJob(w, j, s)
  <1> DEFINE k == job[w]
  <1> DEFINE Wrote == \E j \in JobIds, s \in Job : WritesJob(w, j, s)
  <1>0. CleanersTypeOK /\ OutboxTypeOK /\ k \in JobIds
    BY CleanupTypeParts DEF CleanersTypeOK
  <1>c. /\ Renewed(w) = [jobs EXCEPT ![k] = [jobs[k] EXCEPT !.live = TRUE]]
        /\ Recorded(w) \in Job /\ Recorded(w).retries = jobs[k].retries
    BY <1>0, CheckpointWrites, Zenon
  <1>1. ASSUME NEW j \in JobIds, Claim(w, j)
        PROVE  Wrote
    <2> DEFINE s1 == [jobs[j] EXCEPT !.status = "PROCESSING", !.owner = w, !.live = TRUE]
               s2 == [jobs[j] EXCEPT !.status = "FAILED"]
    <2>1. \E s \in {s1, s2} : jobs' = [jobs EXCEPT ![j] = s]
      BY <1>1 DEF Claim
    <2>2. s1 \in Job /\ s1.retries <= MaxCleanupRetries /\ s1.status = "PROCESSING" /\ SameLedger(jobs[j], s1)
      BY <1>0, JobFields DEF Job, JobStatus, SameLedger
    <2>3. s2 \in Job /\ s2.retries <= MaxCleanupRetries /\ s2.status = "FAILED" /\ SameLedger(jobs[j], s2)
      BY <1>0, JobFields DEF Job, JobStatus, SameLedger
    <2>4. Pursued(jobs[j])
      BY <1>1 DEF Claim, Claimable, Pursued
    <2> HIDE DEF s1, s2
    <2>5. Pursues(jobs[j], s1) /\ Pursues(jobs[j], s2)
      BY <2>2, <2>3, <2>4 DEF Pursues, Pursued
    <2>w. \E s \in {s1, s2} : WritesJob(w, j, s)
      BY <2>1, <2>2, <2>3, <2>5 DEF WritesJob
    <2> QED BY <2>2, <2>3, <2>w
  <1>2. ASSUME NEW status \in {"PENDING", "FAILED"}, NEW delayed \in BOOLEAN, NEW retries \in Nat,
               retries <= MaxCleanupRetries, Fenced(w), jobs' = Handed(w, status, delayed, retries)
        PROVE  Wrote
    <2> DEFINE s == [jobs[k] EXCEPT !.status = status, !.owner = Free, !.live = FALSE,
                                    !.delayed = delayed, !.retries = retries]
    <2>1. jobs' = [jobs EXCEPT ![k] = s]
      BY <1>2 DEF Handed
    <2>2. s \in Job /\ s.retries <= MaxCleanupRetries /\ s.status \in {"PENDING", "FAILED"}
          /\ SameLedger(jobs[k], s)
      BY <1>0, <1>2, JobFields DEF Job, JobStatus, SameLedger
    <2>3. Pursued(jobs[k])
      BY <1>2 DEF Fenced, Pursued
    <2> HIDE DEF s
    <2>4. Pursues(jobs[k], s)
      BY <2>2, <2>3 DEF Pursues, Pursued
    <2>w. WritesJob(w, k, s)
      BY <2>1, <2>2, <2>4 DEF WritesJob
    <2> QED BY <1>0, <2>2, <2>w
  <1>3. ASSUME Fenced(w), jobs' = Renewed(w)
        PROVE  Wrote
    <2> DEFINE s == [jobs[k] EXCEPT !.live = TRUE]
    <2>1. jobs' = [jobs EXCEPT ![k] = s]
      BY <1>0, <1>3, <1>c
    <2>2. s \in Job /\ s.retries <= MaxCleanupRetries /\ s.status = jobs[k].status
          /\ SameLedger(jobs[k], s)
      BY <1>0, JobFields DEF Job, JobStatus, SameLedger
    <2>3. jobs[k].status = "PROCESSING"
      BY <1>3 DEF Fenced
    <2> HIDE DEF s
    <2>4. Pursues(jobs[k], s)
      BY <2>2, <2>3 DEF Pursues, Pursued
    <2>w. WritesJob(w, k, s)
      BY <2>1, <2>2, <2>4 DEF WritesJob
    <2> QED BY <1>0, <2>2, <2>w
  <1>4. CASE Records(w)
    <2>1. jobs' = [jobs EXCEPT ![k] = Recorded(w)] /\ jobs[k].status = "PROCESSING"
      BY <1>4 DEF Records, Record, Fenced
    <2>2. Recorded(w) \in Job /\ Recorded(w).retries <= MaxCleanupRetries
      BY <1>0, <1>c, JobFields
    <2>3. Advances(w, k, Recorded(w))
      BY <1>4, <2>1 DEF Advances
    <2>4. WritesJob(w, k, Recorded(w))
      BY <2>1, <2>2, <2>3 DEF WritesJob
    <2> QED BY <1>0, <2>2, <2>4
  <1>5. CASE RawSave(w) \/ CollectionSave(w)
    BY <1>4, <1>5 DEF RawSave, CollectionSave, Move, Records
  <1>6. CASE VectorsSave(w) \/ SaveFails(w)
    <2>1. jobs' = jobs \/ Records(w)
      BY <1>6 DEF VectorsSave, SaveFails, Move, Records
    <2> QED BY <1>4, <2>1
  <1>7. CASE Succeed(w)
    <2> DEFINE s == [jobs[k] EXCEPT !.status = "SUCCESS", !.owner = Free, !.live = FALSE,
                                    !.delayed = FALSE, !.retries = jobs[k].retries]
    <2>1. jobs' = [jobs EXCEPT ![k] = s] /\ jobs[k].status = "PROCESSING"
      BY <1>7 DEF Succeed, Fenced, Handed
    <2>2. s \in Job /\ s.retries <= MaxCleanupRetries
      BY <1>0, JobFields DEF Job, JobStatus
    <2>3. Advances(w, k, s)
      BY <1>7, <2>1 DEF Advances
    <2> HIDE DEF s
    <2>w. WritesJob(w, k, s)
      BY <1>0, <2>1, <2>2, <2>3 DEF WritesJob
    <2> QED BY <1>0, <2>2, <2>3, <2>w
  <1>8. CASE GiveUp(w)
    <2>1. Fenced(w) /\ jobs[k].retries \in Nat /\ jobs[k].retries <= MaxCleanupRetries
      BY <1>0, <1>8, JobFields DEF GiveUp
    <2>2. \/ /\ jobs[k].retries < MaxCleanupRetries
             /\ jobs' = Handed(w, "PENDING", TRUE, jobs[k].retries + 1)
          \/ jobs' = Handed(w, "FAILED", FALSE, jobs[k].retries)
      BY <1>8 DEF GiveUp
    <2>3. jobs[k].retries < MaxCleanupRetries => jobs[k].retries + 1 <= MaxCleanupRetries
      BY <2>1, CleanupRetryAssumption
    <2>4. CASE jobs[k].retries < MaxCleanupRetries
               /\ jobs' = Handed(w, "PENDING", TRUE, jobs[k].retries + 1)
      <3>1. jobs[k].retries + 1 \in Nat /\ jobs[k].retries + 1 <= MaxCleanupRetries
        BY <2>1, <2>3, <2>4
      <3> QED BY <1>2, <2>1, <2>4, <3>1
    <2>5. CASE jobs' = Handed(w, "FAILED", FALSE, jobs[k].retries)
      <3> QED BY <1>2, <2>1, <2>5
    <2> QED BY <2>2, <2>4, <2>5
  <1>9. CASE Postpone(w)
    <2>1. Fenced(w) /\ jobs[k].retries \in Nat /\ jobs[k].retries <= MaxCleanupRetries
          /\ jobs' = Handed(w, "PENDING", TRUE, jobs[k].retries)
      BY <1>0, <1>9, JobFields DEF Postpone
    <2> QED BY <1>2, <2>1
  <1>10. CASE RawBeat(w) \/ VectorsBeat(w) \/ EnterCollection(w) \/ BatchBeat(w)
    BY <1>3, <1>10 DEF RawBeat, VectorsBeat, EnterCollection, BatchBeat, Beat
  <1>12. CASE \/ \E j \in JobIds : Ignore(w, j)
              \/ TakeLock(w) \/ RawDelete(w) \/ ReadTargets(w) \/ DeleteBatch(w)
              \/ RemoteFails(w) \/ LockGone(w) \/ ClaimGone(w) \/ Release(w)
              \/ CleanerCrash(w) \/ CloseUnrecorded(w)
    BY <1>12 DEF Ignore, TakeLock, RawDelete, ReadTargets, DeleteBatch, RemoteFails, LockGone,
                 ClaimGone, Release, CleanerCrash, CloseUnrecorded, storeVars
  <1> QED
    BY <1>1, <1>5, <1>6, <1>7, <1>8, <1>9, <1>10, <1>12 DEF CleanerStep

(* The variables of worker v stay as they are. *)
Untouched(v) ==
    /\ step'[v] = step[v] /\ job'[v] = job[v] /\ visit'[v] = visit[v]
    /\ here'[v] = here[v] /\ targets'[v] = targets[v] /\ errors'[v] = errors[v]
    /\ unsaved'[v] = unsaved[v]

(* A step of a worker writes to its own variables only, and keeps their types. *)
LEMMA WorkerLocals ==
    ASSUME CleanersTypeOK, NEW w \in Cleaners,
           CleanerStep(w) \/ CleanerCrash(w) \/ CloseUnrecorded(w)
    PROVE  CleanersTypeOK' /\ \A v \in Cleaners \ {w} : Untouched(v)
  <1> DEFINE Good == CleanersTypeOK' /\ \A v \in Cleaners \ {w} : Untouched(v)
  <1> USE StepNames
  <1>1. \A j : NextTarget(w) \in CleanerSteps /\ "raw" \in CleanerSteps
    BY DEF NextTarget
  <1>2. CASE \E j \in JobIds : Claim(w, j) \/ Ignore(w, j)
    BY <1>2 DEF Claim, Ignore, Move, Enter, CleanersTypeOK, Untouched, cleanerVars
  <1>3. CASE TakeLock(w) \/ Postpone(w) \/ Succeed(w) \/ GiveUp(w) \/ ClaimGone(w) \/ CloseUnrecorded(w)
    <2>1. UNCHANGED <<job, visit, here, targets, errors, unsaved>>
      BY <1>3 DEF TakeLock, Postpone, Succeed, GiveUp, ClaimGone, CloseUnrecorded
    <2>2. \E s \in CleanerSteps : step' = [step EXCEPT ![w] = s]
      BY <1>1, <1>3 DEF TakeLock, Postpone, Succeed, GiveUp, ClaimGone, CloseUnrecorded, Move, Enter
    <2> QED BY <2>1, <2>2 DEF CleanersTypeOK, Untouched
  <1>e. Finished(w) \in [raw : BOOLEAN, done : SUBSET Collections]
        /\ NothingUnsaved \in [raw : BOOLEAN, done : SUBSET Collections]
    BY DEF Finished, NothingUnsaved, CleanersTypeOK
  <1>s. CASE RawSave(w) \/ VectorsSave(w)
    <2>1. UNCHANGED <<job, visit, here, targets, errors>>
      BY <1>s DEF RawSave, VectorsSave
    <2>2. \E s \in CleanerSteps : step' = [step EXCEPT ![w] = s]
      BY <1>1, <1>s DEF RawSave, VectorsSave, Move, Enter
    <2>3. unsaved' = unsaved \/ unsaved' = [unsaved EXCEPT ![w] = NothingUnsaved]
      BY <1>s DEF RawSave, VectorsSave, Record
    <2> QED BY <1>e, <2>1, <2>2, <2>3 DEF CleanersTypeOK, Untouched
  <1>4. CASE RawBeat(w) \/ VectorsBeat(w) \/ BatchBeat(w)
    BY <1>4 DEF RawBeat, VectorsBeat, BatchBeat, Beat, Move, Enter, CleanersTypeOK, Untouched
  <1>5. CASE EnterCollection(w)
    BY <1>5 DEF EnterCollection, Beat, Move, Enter, CleanersTypeOK, Untouched
  <1>6. CASE ReadTargets(w)
    <2>1. {CollectionOf[t[1]] : t \in Targets(job[w])} \subseteq Collections
      BY DataAssumption DEF Targets
    <2>2. Targets(job[w]) \subseteq Gens \X Chunks
      BY DEF Targets
    <2> QED BY <1>6, <2>1, <2>2 DEF ReadTargets, Move, Enter, CleanersTypeOK, Untouched
  <1>7. CASE CollectionSave(w)
    BY <1>e, <1>7 DEF CollectionSave, Record, Move, Enter, CleanersTypeOK, Untouched
  <1>8. ASSUME NEW kind \in {"transient", "permanent"}, Trouble(w, kind),
               UNCHANGED <<job, visit, here, targets>>,
               NEW results \in {unsaved[w], Finished(w), NothingUnsaved},
               unsaved' = [unsaved EXCEPT ![w] = results]
        PROVE  Good
    <2>1. \E s \in CleanerSteps : step' = [step EXCEPT ![w] = s]
      BY <1>1, <1>8 DEF Trouble, Enter
    <2>2. \E e \in {"none", "transient", "permanent"} : errors' = [errors EXCEPT ![w] = e]
      BY <1>8 DEF Trouble, Severity, Join, CleanersTypeOK
    <2>3. results \in [raw : BOOLEAN, done : SUBSET Collections]
      BY <1>e, <1>8 DEF CleanersTypeOK
    <2> QED BY <1>8, <2>1, <2>2, <2>3 DEF CleanersTypeOK, Untouched
  <1>k. UNCHANGED unsaved => unsaved' = [unsaved EXCEPT ![w] = unsaved[w]]
    BY DEF CleanersTypeOK
  <1>r. CASE RawDelete(w)
    <2>1. CASE Trouble(w, "transient")
      BY <1>8, <1>k, <1>r, <2>1 DEF RawDelete
    <2>2. CASE Enter(w, "rawSave") /\ UNCHANGED errors
      BY <1>r, <2>2 DEF RawDelete, Enter, CleanersTypeOK, Untouched
    <2> QED BY <1>r, <2>1, <2>2 DEF RawDelete
  <1>f. CASE SaveFails(w)
    <2>1. PICK kind \in {"transient", "permanent"} : Trouble(w, kind)
      BY <1>f DEF SaveFails
    <2>2. \E results \in {Finished(w), NothingUnsaved} : unsaved' = [unsaved EXCEPT ![w] = results]
      BY <1>f DEF SaveFails, Record
    <2> QED BY <1>8, <1>f, <2>1, <2>2 DEF SaveFails
  <1>9. CASE RemoteFails(w) \/ LockGone(w)
    BY <1>8, <1>k, <1>9 DEF RemoteFails, LockGone
  <1>10. CASE DeleteBatch(w)
    <2>1. CASE Trouble(w, "transient") /\ UNCHANGED targets
      BY <1>8, <1>k, <1>10, <2>1 DEF DeleteBatch
    <2>2. CASE \E batch : targets' = [targets EXCEPT ![w] = @ \ batch]
                          /\ (Enter(w, "collectionSave") \/ Enter(w, "batch")) /\ UNCHANGED errors
      BY <1>10, <2>2 DEF DeleteBatch, Enter, CleanersTypeOK, Untouched
    <2> QED BY <1>10, <2>1, <2>2 DEF DeleteBatch
  <1>11. CASE Release(w) \/ CleanerCrash(w)
    <2>1. 0 \in JobIds
      BY JobIdsCount
    <2>2. unsaved' = [unsaved EXCEPT ![w] = NothingUnsaved]
      BY <1>11 DEF Release, CleanerCrash, Forget
    <2>3. unsaved' \in [Cleaners -> [raw : BOOLEAN, done : SUBSET Collections]]
          /\ \A v \in Cleaners \ {w} : unsaved'[v] = unsaved[v]
      BY <1>e, <2>2 DEF CleanersTypeOK
    <2>4. /\ step' = [step EXCEPT ![w] = "idle"] /\ job' = [job EXCEPT ![w] = 0]
          /\ visit' = [visit EXCEPT ![w] = {}] /\ here' = [here EXCEPT ![w] = {}]
          /\ targets' = [targets EXCEPT ![w] = {}] /\ errors' = [errors EXCEPT ![w] = "none"]
      BY <1>11 DEF Release, CleanerCrash, Forget, Enter
    <2> QED BY <2>1, <2>3, <2>4 DEF CleanersTypeOK, Untouched
  <1> QED
    BY <1>2, <1>3, <1>s, <1>r, <1>f, <1>4, <1>5, <1>6, <1>7, <1>9, <1>10, <1>11 DEF CleanerStep

(* What each step of a worker may change of the document's data, the lock   *)
(* and the queue.                                                           *)
LEMMA WorkerChanges ==
    ASSUME NEW w \in Cleaners, CleanerStep(w) \/ CleanerCrash(w) \/ CloseUnrecorded(w)
    PROVE  /\ UNCHANGED fileVars
           /\ UNCHANGED rows \/ Succeed(w)
           /\ UNCHANGED points \/ DeleteBatch(w)
           /\ UNCHANGED raw \/ RawDelete(w)
           /\ UNCHANGED lock \/ TakeLock(w) \/ (lock = w /\ lock' \in {Free, Orphan}
                                                 /\ (Release(w) \/ CleanerCrash(w)))
           /\ UNCHANGED faults \/ Spend("crash") \/ Spend("database")
           /\ jobQueue' \subseteq jobQueue \cup {job[w]}
  <1> USE DEF storeVars, fileVars, dataVars
  <1>1. CASE \E j \in JobIds : Claim(w, j) \/ Ignore(w, j)
    BY <1>1 DEF Claim, Ignore
  <1>2. CASE TakeLock(w) \/ Postpone(w) \/ RawDelete(w)
    BY <1>2 DEF TakeLock, Postpone, RawDelete
  <1>3. CASE RawBeat(w) \/ VectorsBeat(w) \/ EnterCollection(w) \/ BatchBeat(w)
    BY <1>3 DEF RawBeat, VectorsBeat, EnterCollection, BatchBeat, Beat
  <1>4. CASE RawSave(w) \/ CollectionSave(w) \/ VectorsSave(w) \/ SaveFails(w)
    BY <1>4 DEF RawSave, CollectionSave, VectorsSave, SaveFails
  <1>5. CASE ReadTargets(w) \/ DeleteBatch(w)
    BY <1>5 DEF ReadTargets, DeleteBatch
  <1>6. CASE Succeed(w) \/ GiveUp(w)
    BY <1>6 DEF Succeed, GiveUp
  <1>7. CASE RemoteFails(w) \/ LockGone(w) \/ ClaimGone(w)
    BY <1>7 DEF RemoteFails, LockGone, ClaimGone
  <1>8. CASE Release(w)
    BY <1>8 DEF Release, OwnsLock
  <1>9. CASE CleanerCrash(w)
    BY <1>9 DEF CleanerCrash, OwnsLock
  <1>10. CASE CloseUnrecorded(w)
    BY <1>10 DEF CloseUnrecorded
  <1> QED
    BY <1>1, <1>2, <1>3, <1>4, <1>5, <1>6, <1>7, <1>8, <1>9, <1>10 DEF CleanerStep

(* A step of a worker keeps the types. *)
LEMMA WorkerTypes ==
    ASSUME CleanupTypeOK, NEW w \in Cleaners,
           CleanerStep(w) \/ CleanerCrash(w) \/ CloseUnrecorded(w)
    PROVE  CleanupTypeOK'
  <1>0. CleanersTypeOK /\ OutboxTypeOK /\ RestTypeOK /\ FileTypeOK
    BY CleanupTypeParts
  <1>1. CleanersTypeOK'
    BY <1>0, WorkerLocals
  <1>2. OutboxTypeOK'
    <2>1. jobQueue' \subseteq JobIds
      BY <1>0, WorkerChanges DEF OutboxTypeOK, CleanersTypeOK
    <2>2. CASE jobs' = jobs
      BY <1>0, <2>1, <2>2 DEF OutboxTypeOK
    <2>3. CASE \E j \in JobIds, s \in Job : WritesJob(w, j, s)
      BY <1>0, <2>1, <2>3, JobChanges DEF WritesJob
    <2> QED BY <2>2, <2>3, WorkerWrites
  <1>3. FileTypeOK'
    BY <1>0, WorkerChanges DEF FileTypeOK, fileVars
  <1>4. rows' \in [Gens -> SUBSET Chunks]
    BY <1>0, WorkerChanges DEF Succeed, RestTypeOK
  <1>5. points' \in [Gens -> SUBSET Chunks]
    <2>1. CASE DeleteBatch(w)
      <3>1. PICK batch :
               points' = [g \in Gens |-> points[g] \ {c \in Chunks : <<g, c>> \in batch}]
        BY <2>1 DEF DeleteBatch
      <3> QED BY <1>0, <3>1 DEF RestTypeOK
    <2> QED BY <1>0, <2>1, WorkerChanges DEF RestTypeOK
  <1>6. raw' \in BOOLEAN
    BY <1>0, WorkerChanges DEF RawDelete, RestTypeOK
  <1>7. lock' \in Processes \cup {Free, Orphan}
    BY <1>0, WorkerChanges DEF TakeLock, RestTypeOK, Processes
  <1>8. faults' \subseteq FaultKinds
    BY <1>0, WorkerChanges, SpendKeepsFaults DEF RestTypeOK
  <1> QED BY <1>1, <1>2, <1>3, <1>4, <1>5, <1>6, <1>7, <1>8, CleanupTypeJoin DEF RestTypeOK

(* The remaining steps of the specification. *)
LEMMA TypeOthers ==
    ASSUME CleanupTypeOK,
           \/ DeleteFile \/ OrphanLockExpires \/ CleanerLapse \/ UNCHANGED cleanVars
    PROVE  CleanupTypeOK'
  <1>0. CleanersTypeOK /\ OutboxTypeOK /\ RestTypeOK /\ FileTypeOK
    BY CleanupTypeParts
  <1>1. CASE DeleteFile
    <2>1. CleanersTypeOK' /\ RestTypeOK'
      BY <1>0, <1>1 DEF DeleteFile, PrepareDeletion, dataVars, cleanupVars, CleanersTypeOK, RestTypeOK
    <2>2. NewJob(0) \in Job /\ NewJob(0).retries <= MaxCleanupRetries
      BY CleanupRetryAssumption DEF NewJob, Job, JobStatus, TargetStatus
    <2>3. \/ jobs' = [jobs EXCEPT ![0] = NewJob(0)]
          \/ jobs' = [jobs EXCEPT ![0] = jobs[0]]
      BY <1>0, <1>1 DEF DeleteFile, PrepareDeletion, ScheduleDeletion
    <2>4. jobQueue' \subseteq JobIds
      BY <1>0, <1>1 DEF DeleteFile, cleanupVars, OutboxTypeOK
    <2>5. OutboxTypeOK'
      BY <1>0, <2>2, <2>3, <2>4, JobChanges, JobFields, JobIdsCount
    <2>6. task' \in [Gens -> Task]
      BY <1>0, <1>1 DEF DeleteFile, PrepareDeletion, CancelTasks, FileTypeOK, Task, TaskStatus, TaskStage
    <2>7. FileTypeOK'
      BY <1>0, <1>1, <2>6 DEF DeleteFile, PrepareDeletion, FileTypeOK
    <2> QED BY <2>1, <2>5, <2>7, CleanupTypeJoin
  <1>2. CASE OrphanLockExpires \/ CleanerLapse
    <2>1. CleanersTypeOK' /\ OutboxTypeOK' /\ FileTypeOK'
      BY <1>0, <1>2 DEF OrphanLockExpires, ReleaseOrphan, CleanerLapse, cleanupVars, fileVars,
                        CleanersTypeOK, OutboxTypeOK, FileTypeOK
    <2>2. RestTypeOK'
      BY <1>0, <1>2, SpendKeepsFaults
         DEF OrphanLockExpires, ReleaseOrphan, CleanerLapse, dataVars, RestTypeOK
    <2> QED BY <2>1, <2>2, CleanupTypeJoin
  <1>3. CASE UNCHANGED cleanVars
    BY <1>0, <1>3, CleanupTypeJoin
       DEF cleanVars, storeVars, cleanupVars, CleanersTypeOK, OutboxTypeOK, RestTypeOK, FileTypeOK
  <1> QED BY <1>1, <1>2, <1>3

(* The types hold at first. *)
LEMMA TypeStart == CleanupInit => CleanupTypeOK
  <1> SUFFICES ASSUME CleanupInit PROVE CleanupTypeOK
    OBVIOUS
  <1>1. CleanersTypeOK
    <2>1. NothingUnsaved \in [raw : BOOLEAN, done : SUBSET Collections]
      BY DEF NothingUnsaved
    <2> QED BY <2>1, StepNames, JobIdsCount DEF CleanupInit, CleanersInit, CleanersTypeOK
  <1>2. jobs \in [JobIds -> Job] /\ \A j \in JobIds : jobs[j].retries = 0
    <2>1. \A j \in JobIds : /\ NewJob(j) \in Job /\ NewJob(j).retries = 0
                            /\ NoJob(j) \in Job /\ NoJob(j).retries = 0
      BY DEF NewJob, NoJob, Job, JobStatus, TargetStatus
    <2>2. jobs = [j \in JobIds |-> IF j \in 1..(MaxVersion - 1) /\ rows[j] # {}
                                   THEN NewJob(j) ELSE NoJob(j)]
      BY DEF CleanupInit, FinishedStore
    <2> QED BY <2>1, <2>2
  <1>3. OutboxTypeOK
    BY <1>2, CleanupRetryAssumption DEF OutboxTypeOK, CleanupInit, CleanersInit
  <1>4. RestTypeOK
    BY DEF RestTypeOK, CleanupInit, FinishedStore
  <1>5. FileTypeOK
    <2>1. task \in [Gens -> Task]
      BY DEF CleanupInit, FinishedStore, Task, TaskStatus, TaskStage
    <2>2. MaxVersion \in 0..MaxVersion
      BY BoundsAssumption
    <2> QED BY <2>1, <2>2 DEF FileTypeOK, CleanupInit, FinishedStore, DocStatus
  <1> QED BY <1>1, <1>3, <1>4, <1>5, CleanupTypeParts

(* Every step of cleanup keeps the types. *)
LEMMA TypeStep == CleanupTypeOK /\ CleanupNext => CleanupTypeOK'
  BY DispatcherTypes, WorkerTypes, TypeOthers DEF CleanupNext

(* Every variable of the outbox keeps its type; the retries of a job never  *)
(* exceed their limit.                                                      *)
THEOREM CleanupTypeCorrect == CleanupSpec => []CleanupTypeOK
  <1>1. CleanupTypeOK /\ [CleanupNext \/ DeleteFile \/ OrphanLockExpires]_cleanVars => CleanupTypeOK'
    BY TypeStep, TypeOthers
  <1> QED BY <1>1, TypeStart, PTL DEF CleanupSpec

-----------------------------------------------------------------------------
(* The outbox: how jobs move *)

(* A job that does not exist has the fields of a fresh one, only a deletion *)
(* has an original to remove, and a finished job waits for nothing.         *)
JobShape(j) ==
    /\ jobs[j].vectors # "SKIPPED"
    /\ jobs[j].raw = "SKIPPED" <=> j # 0
    /\ jobs[j].status = "NONE" => jobs[j] = NoJob(j)
    /\ jobs[j].status = "SUCCESS" => ~jobs[j].delayed /\ ~jobs[j].live

(* The job a worker carries out exists, and its raw steps are for a deletion. *)
Busy(w) ==
    /\ step[w] # "idle" => jobs[job[w]].status # "NONE"
    /\ step[w] \in {"raw", "rawDelete", "rawSave"} \/ unsaved[w].raw => job[w] = 0
    /\ step[w] = "idle" => unsaved[w] = NothingUnsaved

OutboxInv ==
    /\ \A j \in JobIds : JobShape(j) /\ (jobs[j].status # "NONE" => Matches(j))
    /\ \A w \in Cleaners : Busy(w)

(* What a checkpoint changes. *)
LEMMA AdvanceFields ==
    ASSUME OutboxTypeOK, CleanersTypeOK, NEW w \in Cleaners, NEW j \in JobIds, NEW s, Advances(w, j, s)
    PROVE  /\ job[w] = j /\ jobs[j].status = "PROCESSING" /\ s.status \in {"PROCESSING", "SUCCESS"}
           /\ s.raw # jobs[j].raw => Records(w) /\ Finished(w).raw /\ s.raw = "SUCCESS"
           /\ s.vectors # jobs[j].vectors => Records(w) /\ step[w] = "collection" /\ s.vectors = "SUCCESS"
           /\ s.done # jobs[j].done => Records(w) /\ s.done = jobs[j].done \cup Finished(w).done
           /\ s.status = "SUCCESS" => Succeed(w) /\ ~s.delayed /\ ~s.live
  <1>0. job[w] = j /\ jobs[j].status = "PROCESSING" /\ jobs[j] \in Job
    BY JobFields DEF Advances
  <1>1. \A r \in Job : \A n :
                LET s1 == [r EXCEPT !.status = "SUCCESS", !.owner = Free, !.live = FALSE,
                                    !.delayed = FALSE, !.retries = n]
                IN  s1.status = "SUCCESS" /\ s1.raw = r.raw /\ s1.vectors = r.vectors
                    /\ s1.done = r.done /\ ~s1.delayed /\ ~s1.live
    BY DEF Job
  <1>2. CASE Records(w) /\ s = Recorded(w)
    BY <1>0, <1>2, CheckpointWrites
  <1>3. CASE Succeed(w) /\ s = [jobs[j] EXCEPT !.status = "SUCCESS", !.owner = Free, !.live = FALSE,
                                              !.delayed = FALSE, !.retries = jobs[j].retries]
    BY <1>0, <1>1, <1>3
  <1> QED BY <1>2, <1>3 DEF Advances

(* What the dispatcher, the clock and the owner's retry do to a job: they   *)
(* pursue it.                                                               *)
LEMMA DispatcherPursues ==
    ASSUME OutboxTypeOK, NEW k \in JobIds, JobShape(k),
           \/ Dispatch(k) \/ DispatchFails(k)
           \/ DelayPasses(k) \/ LeaseExpires(k) \/ ManualRetry(k)
    PROVE  \E s : Pursues(jobs[k], s) /\ jobs' = [jobs EXCEPT ![k] = s]
  <1>0. jobs[k] \in Job /\ jobs[k].status \in JobStatus
    BY JobFields
  <1> DEFINE r == jobs[k]
             s1 == [r EXCEPT !.status = "PENDING", !.owner = Free, !.live = FALSE]
             s2 == [r EXCEPT !.delayed = FALSE]
             s3 == [r EXCEPT !.live = FALSE]
             s4 == [r EXCEPT !.status = "PENDING", !.retries = 0, !.owner = Free, !.live = FALSE]
  <1>1. \E s \in {s1, s2, s3, s4} : jobs' = [jobs EXCEPT ![k] = s]
    BY DEF Dispatch, DispatchFails, Reserve, DelayPasses, LeaseExpires, ManualRetry
  <1>2. Pursued(r)
    BY <1>0 DEF Dispatch, DispatchFails, Reserve, Due, DelayPasses, LeaseExpires, ManualRetry, Pursued,
                JobShape, NoJob, NewJob, JobStatus
  <1>3. SameLedger(r, s1) /\ SameLedger(r, s2) /\ SameLedger(r, s3) /\ SameLedger(r, s4)
    BY <1>0 DEF SameLedger, Job
  <1>4. s1.status = "PENDING" /\ s4.status = "PENDING" /\ s2.status = r.status /\ s3.status = r.status
    BY <1>0 DEF Job
  <1> HIDE DEF s1, s2, s3, s4
  <1>5. Pursues(r, s1) /\ Pursues(r, s2) /\ Pursues(r, s3) /\ Pursues(r, s4)
    BY <1>2, <1>3, <1>4 DEF Pursues, Pursued
  <1> QED BY <1>1, <1>5

(* Every step of cleanup leaves a job alone, keeps on with it, or records   *)
(* what a worker has just done.                                             *)
LEMMA JobMoves ==
    ASSUME CleanupTypeOK, OutboxInv, CleanupNext, NEW j \in JobIds
    PROVE  \/ jobs'[j] = jobs[j]
           \/ Pursues(jobs[j], jobs'[j])
           \/ \E w \in Cleaners : Advances(w, j, jobs'[j])
  <1>0. OutboxTypeOK /\ DOMAIN jobs = JobIds
    BY CleanupTypeParts DEF OutboxTypeOK
  <1>1. ASSUME NEW k \in JobIds, NEW s, jobs' = [jobs EXCEPT ![k] = s]
        PROVE  jobs'[j] = jobs[j] \/ (k = j /\ jobs'[j] = s)
    BY <1>0, <1>1
  <1>2. CASE \E k \in JobIds : \/ Dispatch(k) \/ DispatchFails(k)
                               \/ DelayPasses(k) \/ LeaseExpires(k) \/ ManualRetry(k)
    <2>1. PICK k \in JobIds : \/ Dispatch(k) \/ DispatchFails(k)
                              \/ DelayPasses(k) \/ LeaseExpires(k) \/ ManualRetry(k)
      BY <1>2
    <2>2. JobShape(k)
      BY DEF OutboxInv
    <2>3. PICK s : Pursues(jobs[k], s) /\ jobs' = [jobs EXCEPT ![k] = s]
      BY <1>0, <2>1, <2>2, DispatcherPursues
    <2> QED BY <1>1, <2>3
  <1>3. CASE \E w \in Cleaners : CleanerStep(w) \/ CleanerCrash(w) \/ CloseUnrecorded(w)
    <2>1. PICK w \in Cleaners : CleanerStep(w) \/ CleanerCrash(w) \/ CloseUnrecorded(w)
      BY <1>3
    <2>2. CASE \E k \in JobIds, s \in Job : WritesJob(w, k, s)
      <3>1. PICK k \in JobIds, s \in Job : WritesJob(w, k, s)
        BY <2>2
      <3> QED BY <1>1, <3>1 DEF WritesJob
    <2> QED BY <2>1, <2>2, WorkerWrites
  <1>4. CASE CleanerLapse
    BY <1>4 DEF CleanerLapse
  <1> QED BY <1>2, <1>3, <1>4 DEF CleanupNext

(* The same, field by field. *)
LEMMA JobFieldMoves ==
    ASSUME CleanupTypeOK, OutboxInv, CleanupNext, NEW j \in JobIds
    PROVE  /\ jobs'[j].status = "NONE" <=> jobs[j].status = "NONE"
           /\ jobs[j].status \in {"NONE", "SUCCESS"} => jobs'[j] = jobs[j]
           /\ (jobs'[j].status = "SUCCESS" /\ jobs[j].status # "SUCCESS") =>
                 /\ ~jobs'[j].delayed /\ ~jobs'[j].live
                 /\ \E w \in Cleaners : Succeed(w) /\ job[w] = j
           /\ jobs'[j].raw # jobs[j].raw =>
                 jobs'[j].raw = "SUCCESS" /\ \E w \in Cleaners : Finished(w).raw /\ job[w] = j
           /\ jobs'[j].vectors # jobs[j].vectors =>
                 /\ jobs'[j].vectors = "SUCCESS"
                 /\ \E w \in Cleaners : Records(w) /\ step[w] = "collection" /\ job[w] = j
           /\ jobs'[j].done # jobs[j].done =>
                 \E w \in Cleaners : /\ Records(w) /\ job[w] = j
                                     /\ jobs'[j].done = jobs[j].done \cup Finished(w).done
  <1>0. OutboxTypeOK /\ CleanersTypeOK
    BY CleanupTypeParts
  <1>1. CASE jobs'[j] = jobs[j]
    BY <1>1
  <1>2. CASE Pursues(jobs[j], jobs'[j])
    BY <1>2 DEF Pursues, Pursued, SameLedger
  <1>3. ASSUME NEW w \in Cleaners, Advances(w, j, jobs'[j])
        PROVE  /\ job[w] = j /\ jobs[j].status = "PROCESSING" /\ jobs'[j].status \in {"PROCESSING", "SUCCESS"}
               /\ jobs'[j].raw # jobs[j].raw => Records(w) /\ Finished(w).raw /\ jobs'[j].raw = "SUCCESS"
               /\ jobs'[j].vectors # jobs[j].vectors
                    => Records(w) /\ step[w] = "collection" /\ jobs'[j].vectors = "SUCCESS"
               /\ jobs'[j].done # jobs[j].done
                    => Records(w) /\ jobs'[j].done = jobs[j].done \cup Finished(w).done
               /\ jobs'[j].status = "SUCCESS" => Succeed(w) /\ ~jobs'[j].delayed /\ ~jobs'[j].live
    BY <1>0, <1>3, AdvanceFields
  <1>4. CASE \E w \in Cleaners : Advances(w, j, jobs'[j])
    BY <1>3, <1>4
  <1> QED BY <1>1, <1>2, <1>4, JobMoves

(* Where a worker's step leads it. *)
LEMMA WorkerFlow ==
    ASSUME CleanersTypeOK, NEW w \in Cleaners,
           CleanerStep(w) \/ CleanerCrash(w) \/ CloseUnrecorded(w)
    PROVE  \/ \E j \in JobIds : Claim(w, j)
           \/ UNCHANGED cleanerVars /\ step[w] = "idle"
           \/ step'[w] = "idle" /\ unsaved'[w] = NothingUnsaved
           \/ /\ step[w] # "idle" /\ step'[w] # "idle" /\ job' = job
              /\ step'[w] = "raw" => TakeLock(w) /\ jobs[job[w]].raw = "PENDING"
              /\ step'[w] = "rawDelete" => step[w] = "raw"
              /\ step'[w] = "rawSave" => step[w] = "rawDelete"
              /\ unsaved'[w].raw => unsaved[w].raw \/ step[w] = "rawSave"
  <1> USE DEF CleanersTypeOK, Move, Enter
  <1>u. unsaved'[w] = NothingUnsaved => ~unsaved'[w].raw
    BY DEF NothingUnsaved
  <1>1. CASE \E j \in JobIds : Claim(w, j) \/ Ignore(w, j)
    BY <1>1 DEF Ignore
  <1>2. CASE TakeLock(w) \/ Postpone(w)
    BY <1>2 DEF TakeLock, Postpone, NextTarget
  <1>3. CASE RawBeat(w) \/ VectorsBeat(w) \/ EnterCollection(w) \/ BatchBeat(w)
    BY <1>3 DEF RawBeat, VectorsBeat, EnterCollection, BatchBeat, Beat
  <1>4. CASE RawSave(w) \/ CollectionSave(w) \/ VectorsSave(w)
    <2>1. unsaved' = unsaved \/ unsaved'[w] = NothingUnsaved
      BY <1>4 DEF RawSave, CollectionSave, VectorsSave, Record
    <2> QED BY <1>u, <1>4, <2>1 DEF RawSave, CollectionSave, VectorsSave, NextTarget
  <1>5. CASE ReadTargets(w)
    BY <1>5 DEF ReadTargets
  <1>6. CASE Succeed(w) \/ GiveUp(w) \/ CloseUnrecorded(w)
    BY <1>6 DEF Succeed, GiveUp, CloseUnrecorded
  <1>7. ASSUME NEW kind, Trouble(w, kind), step[w] # "idle", job' = job
        PROVE  /\ step[w] # "idle" /\ job' = job
               /\ step'[w] \notin {"raw", "rawDelete", "rawSave", "idle"}
    BY <1>7 DEF Trouble, NextTarget
  <1>f. CASE SaveFails(w)
    <2>1. unsaved'[w] = NothingUnsaved \/ unsaved'[w].raw = Finished(w).raw
      BY <1>f DEF SaveFails, Record
    <2>2. unsaved'[w].raw => unsaved[w].raw \/ step[w] = "rawSave"
      BY <1>u, <2>1 DEF Finished
    <2> QED BY <1>7, <1>f, <2>2 DEF SaveFails
  <1>r. CASE RawDelete(w)
    <2>1. CASE Trouble(w, "transient")
      BY <1>7, <1>r, <2>1 DEF RawDelete
    <2>2. CASE Enter(w, "rawSave")
      BY <1>r, <2>2 DEF RawDelete
    <2> QED BY <1>r, <2>1, <2>2 DEF RawDelete
  <1>8. CASE RemoteFails(w) \/ LockGone(w)
    BY <1>7, <1>8 DEF RemoteFails, LockGone, RemoteSteps, BeatSteps
  <1>9. CASE ClaimGone(w)
    BY <1>9 DEF ClaimGone
  <1>10. CASE DeleteBatch(w)
    BY <1>7, <1>10 DEF DeleteBatch
  <1>11. CASE Release(w) \/ CleanerCrash(w)
    BY <1>11 DEF Release, CleanerCrash, Forget
  <1> QED
    BY <1>1, <1>2, <1>3, <1>4, <1>5, <1>6, <1>f, <1>r, <1>8, <1>9, <1>10, <1>11 DEF CleanerStep

(* A step that is not a worker's leaves all workers alone. *)
LEMMA OtherLocals ==
    ASSUME NEW j \in JobIds,
           \/ Dispatch(j) \/ DispatchFails(j) \/ DelayPasses(j) \/ LeaseExpires(j) \/ ManualRetry(j)
           \/ CleanerLapse
    PROVE  UNCHANGED <<cleanerVars, fileVars, dataVars>>
  BY DEF Dispatch, DispatchFails, Reserve, DelayPasses, LeaseExpires, ManualRetry, CleanerLapse,
         cleanupVars, cleanerVars

(* The file row is none of cleanup's business. *)
LEMMA FileKept == CleanupNext => UNCHANGED fileVars
  <1>1. 0 \in JobIds
    BY JobIdsCount
  <1> QED BY <1>1, OtherLocals, WorkerChanges DEF CleanupNext

(* Jobs and claims stay well formed. *)
LEMMA OutboxNext ==
    ASSUME CleanupTypeOK, OutboxInv, CleanupNext
    PROVE  OutboxInv'
  <1>0. CleanersTypeOK /\ OutboxTypeOK
    BY CleanupTypeParts
  <1>1. ASSUME NEW j \in JobIds
        PROVE  JobShape(j)' /\ (jobs'[j].status # "NONE" => Matches(j)')
    <2>1. JobShape(j) /\ (jobs[j].status # "NONE" => Matches(j))
      BY DEF OutboxInv
    <2>2. jobs'[j].vectors # "SKIPPED"
      BY <2>1, JobFieldMoves DEF JobShape
    <2>3. jobs'[j].raw = "SKIPPED" <=> j # 0
      <3>1. CASE jobs'[j].raw # jobs[j].raw
        <4>1. PICK w \in Cleaners : Finished(w).raw /\ job[w] = j
          BY <3>1, JobFieldMoves
        <4>2. j = 0
          BY <4>1 DEF OutboxInv, Busy, Finished
        <4> QED BY <3>1, <4>2, JobFieldMoves
      <3> QED BY <2>1, <3>1 DEF JobShape
    <2>4. jobs'[j].status = "NONE" => jobs'[j] = NoJob(j)
      BY <2>1, JobFieldMoves DEF JobShape
    <2>5. jobs'[j].status = "SUCCESS" => ~jobs'[j].delayed /\ ~jobs'[j].live
      BY <2>1, JobFieldMoves DEF JobShape
    <2>6. Matches(j)' <=> Matches(j)
      BY FileKept DEF Matches, fileVars
    <2>7. JobShape(j)'
      BY <2>2, <2>3, <2>4, <2>5 DEF JobShape, NoJob, NewJob
    <2> QED BY <2>1, <2>6, <2>7, JobFieldMoves
  <1>2. ASSUME NEW v \in Cleaners, step'[v] = step[v], job'[v] = job[v], unsaved'[v] = unsaved[v]
        PROVE  Busy(v)'
    BY <1>0, <1>2, JobFieldMoves DEF OutboxInv, Busy, CleanersTypeOK
  <1>3. ASSUME NEW w \in Cleaners, CleanerStep(w) \/ CleanerCrash(w) \/ CloseUnrecorded(w),
               NEW v \in Cleaners
        PROVE  Busy(v)'
    <2>1. CASE v # w
      BY <1>0, <1>2, <1>3, <2>1, WorkerLocals DEF Untouched
    <2>2. CASE v = w /\ \E j \in JobIds : Claim(w, j)
      <3>1. PICK j \in JobIds : Claim(w, j)
        BY <2>2
      <3>2. jobs[j].status # "NONE" /\ Matches(j)
        BY <3>1 DEF Claim, Claimable, OutboxInv
      <3>3. step'[w] = "claimed" /\ job'[w] = j /\ unsaved' = unsaved /\ step[w] = "idle"
        BY <1>0, <3>1, <3>2 DEF Claim, Move, Enter, CleanersTypeOK
      <3>4. ~unsaved'[w].raw
        BY <3>3 DEF OutboxInv, Busy, NothingUnsaved
      <3> QED BY <2>2, <3>2, <3>3, <3>4, JobFieldMoves DEF Busy
    <2>3. CASE v = w /\ UNCHANGED cleanerVars
      BY <1>2, <2>3 DEF cleanerVars
    <2>4. CASE v = w /\ step'[w] = "idle" /\ unsaved'[w] = NothingUnsaved
      BY <2>4 DEF Busy, NothingUnsaved
    <2>5. CASE /\ v = w /\ step[w] # "idle" /\ step'[w] # "idle" /\ job' = job
               /\ step'[w] = "raw" => TakeLock(w) /\ jobs[job[w]].raw = "PENDING"
               /\ step'[w] = "rawDelete" => step[w] = "raw"
               /\ step'[w] = "rawSave" => step[w] = "rawDelete"
               /\ unsaved'[w].raw => unsaved[w].raw \/ step[w] = "rawSave"
      <3>1. job[w] \in JobIds /\ jobs[job[w]].status # "NONE" /\ JobShape(job[w])
        BY <1>0, <2>5 DEF OutboxInv, Busy, CleanersTypeOK
      <3>2. step'[w] \in {"raw", "rawDelete", "rawSave"} \/ unsaved'[w].raw => job[w] = 0
        BY <2>5, <3>1 DEF OutboxInv, Busy, JobShape
      <3> QED BY <2>5, <3>1, <3>2, JobFieldMoves DEF Busy
    <2> QED BY <1>0, <1>3, <2>1, <2>2, <2>3, <2>4, <2>5, WorkerFlow
  <1>4. ASSUME NEW v \in Cleaners
        PROVE  Busy(v)'
    <2>1. 0 \in JobIds
      BY JobIdsCount
    <2> QED BY <1>2, <1>3, <2>1, OtherLocals DEF CleanupNext, cleanerVars
  <1> QED BY <1>1, <1>4 DEF OutboxInv

-----------------------------------------------------------------------------
(* The data: what is recorded as deleted is gone *)

Visiting(w) == step[w] \in {"collection", "batch", "deleting", "collectionSave"}

(* What worker w knows about the points: those that are left are among its  *)
(* targets, and a pass without errors has no targets it will not visit.     *)
Knows(w) ==
    /\ Visiting(w) =>
          \A g \in Scope(job[w]) : \A c \in points[g] : <<g, c>> \in targets[w]
    /\ step[w] = "collectionSave" => TargetsHere(w) = {}
    /\ (Visiting(w) /\ errors[w] = "none") =>
          \A t \in targets[w] : \/ CollectionOf[t[1]] \in visit[w]
                                \/ step[w] # "collection" /\ CollectionOf[t[1]] \in here[w]
    /\ (step[w] = "close" /\ errors[w] = "none") =>
          \A g \in Scope(job[w]) : points[g] = {}

(* What it has finished and no checkpoint has recorded is gone, too. *)
Recalls(w) == \A g \in Scope(job[w]) : CollectionOf[g] \in unsaved[w].done => points[g] = {}

(* The ledger of job j is true of the points. *)
LedgerHolds(j) ==
    \A g \in Scope(j) :
        (jobs[j].vectors = "SUCCESS" \/ CollectionOf[g] \in jobs[j].done) => points[g] = {}

PointsInv ==
    /\ RowsOutlivePoints
    /\ \A j \in JobIds : LedgerHolds(j)
    /\ \A w \in Cleaners : Knows(w) /\ Recalls(w)

(* A finished job has left no chunk row. *)
RowsGone == \A j \in JobIds : jobs[j].status = "SUCCESS" => \A g \in Scope(j) : rows[g] = {}

(* Steps of a pass after the one for the original object. *)
AfterRaw(w) == step[w] \in {"vectors", "targets", "collection", "batch", "deleting",
                            "collectionSave", "close"}

(* The original object of a deleted file is gone once the ledger says so or  *)
(* a pass has come past it without an error.                                *)
RawInv ==
    /\ jobs[0].raw = "SUCCESS" => ~raw
    /\ jobs[0].status = "SUCCESS" => ~raw
    /\ \A w \in Cleaners :
          /\ step[w] = "rawSave" \/ unsaved[w].raw => ~raw
          /\ (AfterRaw(w) /\ errors[w] = "none" /\ job[w] = 0) => ~raw

(* A job is about generations. *)
LEMMA ScopeInGens == \A j \in JobIds : Scope(j) \subseteq Gens
  BY JobIdsCount DEF Scope

(* Within cleanup, data only shrinks. *)
LEMMA DataShrinks ==
    ASSUME RestTypeOK, CleanupNext
    PROVE  /\ \A g \in Gens : points'[g] \subseteq points[g] /\ rows'[g] \subseteq rows[g]
           /\ raw' => raw
  <1>0. 0 \in JobIds
    BY JobIdsCount
  <1>1. ASSUME NEW w \in Cleaners, CleanerStep(w) \/ CleanerCrash(w) \/ CloseUnrecorded(w)
        PROVE  /\ \A g \in Gens : points'[g] \subseteq points[g] /\ rows'[g] \subseteq rows[g]
               /\ raw' => raw
    <2>1. \A g \in Gens : points'[g] \subseteq points[g]
      <3>1. CASE DeleteBatch(w)
        <4>1. PICK batch :
                 points' = [g \in Gens |-> points[g] \ {c \in Chunks : <<g, c>> \in batch}]
          BY <3>1 DEF DeleteBatch
        <4> QED BY <4>1
      <3> QED BY <1>1, <3>1, WorkerChanges
    <2>2. \A g \in Gens : rows'[g] \subseteq rows[g]
      BY <1>1, WorkerChanges DEF Succeed
    <2>3. raw' => raw
      BY <1>1, WorkerChanges DEF RawDelete
    <2> QED BY <2>1, <2>2, <2>3
  <1>2. ASSUME UNCHANGED dataVars
        PROVE  /\ \A g \in Gens : points'[g] \subseteq points[g] /\ rows'[g] \subseteq rows[g]
               /\ raw' => raw
    BY <1>2 DEF dataVars
  <1> QED BY <1>0, <1>1, <1>2, OtherLocals DEF CleanupNext

(* A worker that rests knows what it knew. *)
LEMMA RestingKnows ==
    ASSUME CleanupTypeOK, CleanupNext, NEW v \in Cleaners, Knows(v), Recalls(v), Untouched(v)
    PROVE  Knows(v)' /\ Recalls(v)'
  <1>1. Scope(job[v]) \subseteq Gens /\ RestTypeOK
    BY CleanupTypeParts, ScopeInGens DEF CleanersTypeOK
  <1>2. \A g \in Scope(job[v]) : points'[g] \subseteq points[g]
    BY <1>1, DataShrinks
  <1> QED BY <1>2 DEF Knows, Recalls, Untouched, Visiting, TargetsHere, Scope

(* A worker that finds the vectors recorded as done finds no points left. *)
LEMMA RecordedAsDone ==
    ASSUME CleanupTypeOK, OutboxInv, PointsInv, NEW w \in Cleaners
    PROVE  /\ NextTarget(w) \in {"vectors", "close"}
           /\ NextTarget(w) = "close" => \A g \in Scope(job[w]) : points[g] = {}
  <1>1. job[w] \in JobIds /\ jobs[job[w]].vectors \in TargetStatus
    BY CleanupTypeParts, JobFields DEF CleanersTypeOK
  <1>2. NextTarget(w) = "close" => jobs[job[w]].vectors = "SUCCESS"
    BY <1>1 DEF NextTarget, OutboxInv, JobShape, TargetStatus
  <1> QED BY <1>1, <1>2 DEF NextTarget, PointsInv, LedgerHolds

(* What a pass has finished is gone, recorded or not. *)
LEMMA FinishedGone ==
    ASSUME NEW w \in Cleaners, Knows(w), Recalls(w), NEW g \in Scope(job[w]), CollectionOf[g] \in Finished(w).done
    PROVE  points[g] = {}
  <1>1. CASE CollectionOf[g] \in unsaved[w].done
    BY <1>1 DEF Recalls
  <1>2. CASE step[w] = "collectionSave" /\ CollectionOf[g] \in here[w]
    <2>1. \A c \in points[g] : <<g, c>> \in targets[w]
      BY <1>2 DEF Knows, Visiting
    <2>2. \A c : <<g, c>> \notin targets[w]
      BY <1>2 DEF Knows, TargetsHere
    <2> QED BY <2>1, <2>2
  <1> QED BY <1>1, <1>2 DEF Finished

(* The results of a pass are kept, recorded or added to. *)
LEMMA ResultsFlow ==
    ASSUME CleanersTypeOK, NEW w \in Cleaners,
           CleanerStep(w) \/ CleanerCrash(w) \/ CloseUnrecorded(w)
    PROVE  \/ unsaved'[w] = NothingUnsaved
           \/ job' = job /\ unsaved'[w] \in {unsaved[w], Finished(w)}
           \/ step[w] = "idle" /\ unsaved' = unsaved
  <1> USE DEF CleanersTypeOK
  <1>1. CASE \E j \in JobIds : Claim(w, j) \/ Ignore(w, j)
    BY <1>1 DEF Claim, Ignore, Move, cleanerVars
  <1>2. CASE TakeLock(w) \/ Postpone(w) \/ RawDelete(w) \/ ReadTargets(w) \/ DeleteBatch(w)
             \/ Succeed(w) \/ GiveUp(w) \/ CloseUnrecorded(w)
    BY <1>2 DEF TakeLock, Postpone, RawDelete, ReadTargets, DeleteBatch, Succeed, GiveUp, CloseUnrecorded
  <1>3. CASE RawBeat(w) \/ VectorsBeat(w) \/ EnterCollection(w) \/ BatchBeat(w)
    BY <1>3 DEF RawBeat, VectorsBeat, EnterCollection, BatchBeat, Beat
  <1>4. CASE RawSave(w) \/ CollectionSave(w) \/ VectorsSave(w) \/ SaveFails(w)
    BY <1>4 DEF RawSave, CollectionSave, VectorsSave, SaveFails, Record
  <1>5. CASE RemoteFails(w) \/ LockGone(w) \/ ClaimGone(w)
    BY <1>5 DEF RemoteFails, LockGone, ClaimGone
  <1>6. CASE Release(w) \/ CleanerCrash(w)
    BY <1>6 DEF Release, CleanerCrash, Forget
  <1> QED BY <1>1, <1>2, <1>3, <1>4, <1>5, <1>6 DEF CleanerStep

(* So what the worker recalls stays true. *)
LEMMA ActingRecalls ==
    ASSUME CleanupTypeOK, OutboxInv, PointsInv, CleanupNext, NEW w \in Cleaners,
           CleanerStep(w) \/ CleanerCrash(w) \/ CloseUnrecorded(w)
    PROVE  Recalls(w)'
  <1>0. CleanersTypeOK /\ RestTypeOK /\ Scope(job[w]) \subseteq Gens /\ Knows(w) /\ Recalls(w)
    BY CleanupTypeParts, ScopeInGens DEF CleanersTypeOK, PointsInv
  <1>1. \A g \in Scope(job[w]) : points'[g] \subseteq points[g]
    BY <1>0, DataShrinks
  <1>2. CASE unsaved'[w] = NothingUnsaved
    BY <1>2 DEF Recalls, NothingUnsaved
  <1>3. CASE step[w] = "idle" /\ unsaved' = unsaved
    BY <1>2, <1>3 DEF OutboxInv, Busy
  <1>4. CASE job' = job /\ unsaved'[w] \in {unsaved[w], Finished(w)}
    <2>1. unsaved'[w].done \subseteq Finished(w).done
      BY <1>4 DEF Finished
    <2>2. ASSUME NEW g \in Scope(job[w]), CollectionOf[g] \in unsaved'[w].done
          PROVE  points'[g] = {}
      BY <1>0, <1>1, <2>1, <2>2, FinishedGone
    <2> QED BY <1>4, <2>2 DEF Recalls, Scope
  <1> QED BY <1>0, <1>2, <1>3, <1>4, ResultsFlow

(* The steps of a pass keep what its worker knows. *)
LEMMA ActingKnows ==
    ASSUME CleanupTypeOK, OutboxInv, PointsInv, CleanupNext, NEW w \in Cleaners,
           CleanerStep(w) \/ CleanerCrash(w) \/ CloseUnrecorded(w)
    PROVE  Knows(w)'
  <1> DEFINE k == job[w]
  <1>0. CleanersTypeOK /\ RestTypeOK /\ k \in JobIds /\ Scope(k) \subseteq Gens /\ Knows(w)
    BY CleanupTypeParts, ScopeInGens DEF CleanersTypeOK, PointsInv
  <1>1. \A g \in Scope(k) : points'[g] \subseteq points[g]
    BY <1>0, DataShrinks
  <1> USE DEF CleanersTypeOK
  <1>2. ASSUME step'[w] \notin {"collection", "batch", "deleting", "collectionSave", "close"}
        PROVE  Knows(w)'
    BY <1>2 DEF Knows, Visiting
  <1>3. ASSUME step'[w] = "close", job' = job,
               errors'[w] = "none" => \A g \in Scope(k) : points[g] = {}
        PROVE  Knows(w)'
    BY <1>1, <1>3 DEF Knows, Visiting, Scope
  <1>4. ASSUME step'[w] = NextTarget(w), job' = job
        PROVE  Knows(w)'
    BY <1>2, <1>3, <1>4, RecordedAsDone
  <1>5. CASE TakeLock(w) \/ RawSave(w)
    BY <1>0, <1>2, <1>4, <1>5 DEF TakeLock, RawSave, Move, Enter
  <1>6. CASE \E j \in JobIds : Claim(w, j) \/ Ignore(w, j)
    BY <1>0, <1>2, <1>6 DEF Claim, Ignore, Move, Enter, cleanerVars
  <1>7. CASE Postpone(w) \/ Succeed(w) \/ GiveUp(w) \/ CloseUnrecorded(w) \/ ClaimGone(w)
    BY <1>0, <1>2, <1>7 DEF Postpone, Succeed, GiveUp, CloseUnrecorded, ClaimGone, Move, Enter
  <1>8. CASE RawBeat(w) \/ VectorsBeat(w)
    BY <1>0, <1>2, <1>8 DEF RawBeat, VectorsBeat, Beat, Move, Enter
  <1>9. CASE Release(w) \/ CleanerCrash(w)
    BY <1>0, <1>2, <1>9 DEF Release, CleanerCrash, Forget, Enter
  <1>10. CASE ReadTargets(w)
    <2>1. step'[w] = "collection" /\ job' = job /\ points' = points /\ targets'[w] = Targets(k)
          /\ visit'[w] = {CollectionOf[t[1]] : t \in Targets(k)}
      BY <1>0, <1>10 DEF ReadTargets, Move, Enter, storeVars
    <2>2. ASSUME NEW g \in Scope(k), NEW c \in points[g]
          PROVE  <<g, c>> \in Targets(k)
      <3>1. CollectionOf[g] \notin jobs[k].done
        BY <1>0, <2>2 DEF PointsInv, LedgerHolds
      <3>2. c \in rows[g] /\ c \in Chunks /\ g \in Gens
        BY <1>0, <2>2 DEF PointsInv, RowsOutlivePoints, RestTypeOK
      <3> QED BY <2>2, <3>1, <3>2 DEF Targets
    <2> QED BY <2>1, <2>2 DEF Knows, Visiting, Scope
  <1>11. CASE EnterCollection(w)
    <2>1. PICK c \in visit[w] : /\ step[w] = "collection" /\ step'[w] = "deleting"
                                /\ visit'[w] = visit[w] \ {c} /\ here'[w] = {c}
                                /\ UNCHANGED <<points, job, targets, errors>>
      BY <1>0, <1>11 DEF EnterCollection, Beat, Move, Enter, dataVars
    <2> QED BY <1>0, <2>1 DEF Knows, Visiting, Scope
  <1>12. CASE BatchBeat(w)
    <2>1. /\ step[w] = "batch" /\ step'[w] = "deleting"
          /\ UNCHANGED <<points, job, targets, errors, visit, here>>
      BY <1>0, <1>12 DEF BatchBeat, Beat, Move, Enter, dataVars
    <2> QED BY <1>0, <2>1 DEF Knows, Visiting, Scope
  <1>13. CASE CollectionSave(w)
    <2>1. /\ step[w] = "collectionSave" /\ step'[w] = "collection" /\ here'[w] = {}
          /\ UNCHANGED <<points, job, targets, errors, visit>>
      BY <1>0, <1>13 DEF CollectionSave, Move, Enter, dataVars
    <2>2. \A t \in targets[w] : CollectionOf[t[1]] \notin here[w]
      BY <1>0, <2>1 DEF Knows, TargetsHere
    <2> QED BY <1>0, <2>1, <2>2 DEF Knows, Visiting, Scope
  <1>14. CASE VectorsSave(w)
    <2>1. /\ step[w] = "collection" /\ step'[w] = "close" /\ visit[w] = {} /\ job' = job
          /\ errors' = errors
      BY <1>0, <1>14 DEF VectorsSave, Move, Enter
    <2>2. ASSUME errors[w] = "none"
          PROVE  \A g \in Scope(k) : points[g] = {}
      <3>1. targets[w] = {}
        BY <1>0, <2>1, <2>2 DEF Knows, Visiting
      <3> QED BY <1>0, <2>1, <3>1 DEF Knows, Visiting
    <2> QED BY <1>3, <2>1, <2>2
  <1>15. ASSUME NEW kind \in {"transient", "permanent"}, Trouble(w, kind),
                UNCHANGED <<job, visit, here, targets>>
         PROVE  Knows(w)'
    <2>1. errors'[w] # "none"
      BY <1>0, <1>15 DEF Trouble, Severity, Join
    <2>2. CASE step[w] \in {"rawDelete", "rawSave"}
      BY <1>0, <1>4, <1>15, <2>2 DEF Trouble, Enter, OuterSteps
    <2>3. CASE step[w] \in {"batch", "deleting", "collectionSave"}
      <3>1. step'[w] = "collection"
        BY <1>0, <1>15, <2>3 DEF Trouble, Enter, OuterSteps
      <3> QED BY <1>0, <1>1, <1>15, <2>1, <2>3, <3>1 DEF Knows, Visiting, Scope
    <2>4. CASE step[w] \notin {"rawDelete", "rawSave", "batch", "deleting", "collectionSave"}
      <3>1. step'[w] \in {"close", "handle"}
        BY <1>0, <1>15, <2>4 DEF Trouble, Enter
      <3> QED BY <1>2, <1>3, <1>15, <2>1, <3>1
    <2> QED BY <2>2, <2>3, <2>4
  <1>16. CASE RemoteFails(w) \/ LockGone(w) \/ SaveFails(w)
    BY <1>15, <1>16 DEF RemoteFails, LockGone, SaveFails
  <1>18. CASE RawDelete(w)
    <2>1. CASE Trouble(w, "transient")
      BY <1>15, <1>18, <2>1 DEF RawDelete
    <2>2. CASE Enter(w, "rawSave")
      BY <1>0, <1>2, <2>2 DEF Enter
    <2> QED BY <1>18, <2>1, <2>2 DEF RawDelete
  <1>17. CASE DeleteBatch(w)
    <2>1. CASE Trouble(w, "transient") /\ UNCHANGED targets
      BY <1>15, <1>17, <2>1 DEF DeleteBatch
    <2>2. CASE ~(Trouble(w, "transient") /\ UNCHANGED targets)
      <3>1. PICK batch \in SUBSET TargetsHere(w) :
               /\ points' = [g \in Gens |-> points[g] \ {c \in Chunks : <<g, c>> \in batch}]
               /\ targets' = [targets EXCEPT ![w] = @ \ batch]
               /\ Enter(w, IF batch = TargetsHere(w) THEN "collectionSave" ELSE "batch")
        BY <1>17, <2>2 DEF DeleteBatch
      <3>2. step[w] = "deleting" /\ UNCHANGED <<job, visit, here, errors>>
        BY <1>17, <2>2 DEF DeleteBatch
      <3>3. /\ targets'[w] = targets[w] \ batch
            /\ step'[w] = IF batch = TargetsHere(w) THEN "collectionSave" ELSE "batch"
        BY <1>0, <3>1 DEF Enter
      <3>4. \A g \in Scope(k) : \A c \in points'[g] : <<g, c>> \in targets'[w]
        <4>1. ASSUME NEW g \in Scope(k), NEW c \in points'[g]
              PROVE  <<g, c>> \in targets'[w]
          <5>1. g \in Gens /\ points[g] \subseteq Chunks
            BY <1>0 DEF RestTypeOK
          <5>2. c \in points[g] /\ c \in Chunks /\ <<g, c>> \notin batch
            BY <3>1, <5>1
          <5>3. <<g, c>> \in targets[w]
            BY <1>0, <3>2, <5>2 DEF Knows, Visiting
          <5> QED BY <3>3, <5>2, <5>3
        <4> QED BY <4>1, Zenon
      <3>5. step'[w] = "collectionSave" => TargetsHere(w)' = {}
        BY <3>2, <3>3 DEF TargetsHere
      <3>6. errors[w] = "none" => \A t \in targets'[w] : CollectionOf[t[1]] \in visit[w] \cup here[w]
        BY <1>0, <3>2, <3>3 DEF Knows, Visiting
      <3> QED BY <3>2, <3>3, <3>4, <3>5, <3>6 DEF Knows, Visiting, Scope
    <2> QED BY <2>1, <2>2
  <1> QED
    BY <1>5, <1>6, <1>7, <1>8, <1>9, <1>10, <1>11, <1>12, <1>13, <1>14, <1>16, <1>17, <1>18 DEF CleanerStep

(* What the ledger says stays true, chunk rows outlive their points, and    *)
(* every worker knows what is left.                                         *)
LEMMA PointsNext ==
    ASSUME CleanupTypeOK, OutboxInv, PointsInv, CleanupNext
    PROVE  PointsInv'
  <1>0. CleanersTypeOK /\ RestTypeOK /\ 0 \in JobIds
    BY CleanupTypeParts, JobIdsCount
  <1>1. \A g \in Gens : points'[g] \subseteq points[g] /\ rows'[g] \subseteq rows[g]
    BY <1>0, DataShrinks
  <1>2. RowsOutlivePoints'
    <2>1. CASE UNCHANGED rows
      BY <1>1, <2>1 DEF PointsInv, RowsOutlivePoints
    <2>2. CASE \E w \in Cleaners : Succeed(w)
      <3>1. PICK w \in Cleaners : Succeed(w)
        BY <2>2
      <3>2. /\ \A g \in Scope(job[w]) : points[g] = {}
            /\ \A g \in Gens \ Scope(job[w]) : rows'[g] = rows[g]
        BY <3>1 DEF PointsInv, Knows, Succeed, Move
      <3> QED BY <1>1, <3>2 DEF PointsInv, RowsOutlivePoints
    <2> QED BY <1>0, <2>1, <2>2, WorkerChanges, OtherLocals DEF CleanupNext, dataVars
  <1>3. ASSUME NEW j \in JobIds
        PROVE  LedgerHolds(j)'
    <2>0. LedgerHolds(j) /\ Scope(j) \subseteq Gens
      BY ScopeInGens DEF PointsInv
    <2>1. ASSUME NEW g \in Scope(j), jobs'[j].vectors = "SUCCESS"
          PROVE  points[g] = {}
      <3>1. CASE jobs[j].vectors = "SUCCESS"
        BY <2>0, <2>1, <3>1 DEF LedgerHolds
      <3>2. CASE jobs[j].vectors # "SUCCESS"
        <4>1. PICK w \in Cleaners : Records(w) /\ step[w] = "collection" /\ job[w] = j
          BY <2>1, <3>2, JobFieldMoves
        <4>2. targets[w] = {} /\ Knows(w)
          BY <4>1 DEF Records, PointsInv
        <4> QED BY <2>1, <4>1, <4>2 DEF Knows, Visiting
      <3> QED BY <3>1, <3>2
    <2>2. ASSUME NEW g \in Scope(j), CollectionOf[g] \in jobs'[j].done
          PROVE  points[g] = {}
      <3>1. CASE CollectionOf[g] \in jobs[j].done
        BY <2>0, <2>2, <3>1 DEF LedgerHolds
      <3>2. CASE CollectionOf[g] \notin jobs[j].done
        <4>1. PICK w \in Cleaners : job[w] = j /\ jobs'[j].done = jobs[j].done \cup Finished(w).done
          BY <2>2, <3>2, JobFieldMoves
        <4>2. Knows(w) /\ Recalls(w) /\ CollectionOf[g] \in Finished(w).done
          BY <2>2, <3>2, <4>1 DEF PointsInv
        <4> QED BY <2>2, <4>1, <4>2, FinishedGone
      <3> QED BY <3>1, <3>2
    <2>3. Scope(j)' = Scope(j)
      BY DEF Scope
    <2> QED BY <1>1, <2>0, <2>1, <2>2, <2>3 DEF LedgerHolds
  <1>4. ASSUME NEW v \in Cleaners
        PROVE  Knows(v)' /\ Recalls(v)'
    <2>0. Knows(v) /\ Recalls(v)
      BY DEF PointsInv
    <2>1. CASE \E w \in Cleaners : CleanerStep(w) \/ CleanerCrash(w) \/ CloseUnrecorded(w)
      <3>1. PICK w \in Cleaners : CleanerStep(w) \/ CleanerCrash(w) \/ CloseUnrecorded(w)
        BY <2>1
      <3>2. CASE v = w
        BY <3>1, <3>2, ActingKnows, ActingRecalls
      <3>3. CASE v # w
        BY <1>0, <2>0, <3>1, <3>3, WorkerLocals, RestingKnows
      <3> QED BY <3>2, <3>3
    <2>2. CASE UNCHANGED cleanerVars
      BY <2>0, <2>2, RestingKnows DEF cleanerVars, Untouched
    <2> QED BY <1>0, <2>1, <2>2, OtherLocals DEF CleanupNext
  <1> QED BY <1>2, <1>3, <1>4 DEF PointsInv

(* A finished job is left without chunk rows. *)
LEMMA RowsGoneNext ==
    ASSUME CleanupTypeOK, OutboxInv, RowsGone, CleanupNext
    PROVE  RowsGone'
  <1> SUFFICES ASSUME NEW j \in JobIds, jobs'[j].status = "SUCCESS", NEW g \in Scope(j)
               PROVE  rows'[g] = {}
    BY DEF RowsGone, Scope
  <1>0. g \in Gens /\ RestTypeOK
    BY CleanupTypeParts, ScopeInGens
  <1>1. CASE jobs[j].status = "SUCCESS"
    BY <1>0, <1>1, DataShrinks DEF RowsGone
  <1>2. CASE jobs[j].status # "SUCCESS"
    <2>1. PICK w \in Cleaners : Succeed(w) /\ job[w] = j
      BY <1>2, JobFieldMoves
    <2> QED BY <1>0, <2>1 DEF Succeed
  <1> QED BY <1>1, <1>2

(* The original object of a deleted file stays away. *)
LEMMA RawNext ==
    ASSUME CleanupTypeOK, OutboxInv, RawInv, CleanupNext
    PROVE  RawInv'
  <1>0. CleanersTypeOK /\ RestTypeOK /\ 0 \in JobIds
    BY CleanupTypeParts, JobIdsCount
  <1>1. raw' => raw
    BY <1>0, DataShrinks
  <1>2. jobs'[0].raw = "SUCCESS" => ~raw'
    <2>1. CASE jobs[0].raw = "SUCCESS"
      BY <1>1, <2>1 DEF RawInv
    <2>2. CASE jobs[0].raw # "SUCCESS" /\ jobs'[0].raw = "SUCCESS"
      <3>1. PICK w \in Cleaners : Finished(w).raw
        BY <1>0, <2>2, JobFieldMoves
      <3> QED BY <1>1, <3>1 DEF RawInv, Finished
    <2> QED BY <2>1, <2>2
  <1>3. jobs'[0].status = "SUCCESS" => ~raw'
    <2>1. CASE jobs[0].status = "SUCCESS"
      BY <1>1, <2>1 DEF RawInv
    <2>2. CASE jobs[0].status # "SUCCESS" /\ jobs'[0].status = "SUCCESS"
      <3>1. PICK w \in Cleaners : Succeed(w) /\ job[w] = 0
        BY <1>0, <2>2, JobFieldMoves
      <3> QED BY <1>1, <3>1 DEF RawInv, Succeed, Move, AfterRaw
    <2> QED BY <2>1, <2>2
  <1> DEFINE Clean(v) == /\ step[v] = "rawSave" => ~raw
                         /\ (AfterRaw(v) /\ errors[v] = "none" /\ job[v] = 0) => ~raw
  <1>4. ASSUME NEW v \in Cleaners, Untouched(v)
        PROVE  Clean(v)'
    BY <1>1, <1>4 DEF RawInv, Untouched, AfterRaw
  <1>5. ASSUME NEW w \in Cleaners, CleanerStep(w) \/ CleanerCrash(w) \/ CloseUnrecorded(w)
        PROVE  Clean(w)'
    <2> USE DEF CleanersTypeOK
    <2>1. ASSUME step'[w] # "rawSave", ~AfterRaw(w)'
          PROVE  Clean(w)'
      BY <2>1 DEF AfterRaw
    <2>2. ASSUME AfterRaw(w), step'[w] # "rawSave", job' = job, errors' = errors
          PROVE  Clean(w)'
      BY <1>1, <2>2 DEF AfterRaw, RawInv
    <2>3. CASE \E j \in JobIds : Claim(w, j) \/ Ignore(w, j)
      BY <1>0, <2>1, <2>3 DEF Claim, Ignore, Move, Enter, cleanerVars, AfterRaw
    <2>4. CASE TakeLock(w)
      <3>1. /\ step'[w] = IF jobs[job[w]].raw = "PENDING" THEN "raw" ELSE NextTarget(w)
            /\ job' = job /\ job[w] \in JobIds
        BY <1>0, <2>4 DEF TakeLock, Move, Enter
      <3>2. job[w] = 0 => jobs[0].raw \in {"PENDING", "SUCCESS"}
        BY <1>0, CleanupTypeParts, JobFields DEF OutboxInv, JobShape, TargetStatus
      <3> QED BY <1>1, <3>1, <3>2 DEF RawInv, NextTarget, AfterRaw
    <2>5. CASE RawDelete(w)
      BY <2>5 DEF RawDelete
    <2>6. CASE RawSave(w)
      BY <1>0, <1>1, <2>6 DEF RawSave, Move, Enter, RawInv, NextTarget, AfterRaw
    <2>7. CASE Postpone(w) \/ Succeed(w) \/ GiveUp(w) \/ CloseUnrecorded(w) \/ ClaimGone(w) \/ RawBeat(w)
      BY <1>0, <2>1, <2>7 DEF Postpone, Succeed, GiveUp, CloseUnrecorded, ClaimGone, RawBeat, Beat,
                              Move, Enter, AfterRaw
    <2>8. CASE VectorsBeat(w) \/ EnterCollection(w) \/ BatchBeat(w)
      BY <1>0, <2>2, <2>8 DEF VectorsBeat, EnterCollection, BatchBeat, Beat, Move, Enter, AfterRaw
    <2>9. CASE ReadTargets(w) \/ CollectionSave(w) \/ VectorsSave(w)
      BY <1>0, <2>2, <2>9 DEF ReadTargets, CollectionSave, VectorsSave, Move, Enter, AfterRaw
    <2>10. CASE Release(w) \/ CleanerCrash(w)
      BY <1>0, <2>1, <2>10 DEF Release, CleanerCrash, Forget, Enter, AfterRaw
    <2>11. ASSUME NEW kind \in {"transient", "permanent"}, Trouble(w, kind)
           PROVE  Clean(w)'
      BY <1>0, <2>11 DEF Trouble, Severity, Enter, Join, NextTarget
    <2>12. CASE RemoteFails(w) \/ LockGone(w) \/ SaveFails(w)
      BY <2>11, <2>12 DEF RemoteFails, LockGone, SaveFails
    <2>13. CASE DeleteBatch(w)
      <3>1. CASE Trouble(w, "transient")
        BY <2>11, <3>1
      <3>2. CASE ~Trouble(w, "transient")
        BY <1>0, <2>2, <2>13, <3>2 DEF DeleteBatch, Enter, AfterRaw
      <3> QED BY <3>1, <3>2
    <2> QED
      BY <1>5, <2>3, <2>4, <2>5, <2>6, <2>7, <2>8, <2>9, <2>10, <2>12, <2>13 DEF CleanerStep
  <1>6. ASSUME NEW v \in Cleaners
        PROVE  Clean(v)'
    <2>1. CASE \E w \in Cleaners : CleanerStep(w) \/ CleanerCrash(w) \/ CloseUnrecorded(w)
      BY <1>0, <1>4, <1>5, <2>1, WorkerLocals
    <2>2. CASE UNCHANGED cleanerVars
      BY <1>4, <2>2 DEF cleanerVars, Untouched
    <2> QED BY <1>0, <2>1, <2>2, OtherLocals DEF CleanupNext
  <1>7. ASSUME NEW v \in Cleaners, unsaved'[v].raw
        PROVE  ~raw'
    <2>1. unsaved[v].raw => ~raw'
      BY <1>1 DEF RawInv
    <2>2. CASE UNCHANGED cleanerVars
      BY <1>7, <2>1, <2>2 DEF cleanerVars
    <2>3. ASSUME NEW w \in Cleaners, CleanerStep(w) \/ CleanerCrash(w) \/ CloseUnrecorded(w)
          PROVE  unsaved[v].raw \/ Finished(v).raw
      <3>1. CASE v = w
        BY <1>0, <1>7, <2>3, <3>1, ResultsFlow DEF NothingUnsaved
      <3>2. CASE v # w
        BY <1>0, <1>7, <2>3, <3>2, WorkerLocals DEF Untouched
      <3> QED BY <3>1, <3>2
    <2>4. Finished(v).raw => ~raw'
      BY <1>1 DEF RawInv, Finished
    <2> QED BY <1>0, <2>1, <2>2, <2>3, <2>4, OtherLocals DEF CleanupNext
  <1> QED BY <1>2, <1>3, <1>6, <1>7 DEF RawInv, AfterRaw

(* Transactions of the API and of ingestion add jobs and leave the others   *)
(* alone.                                                                   *)
Scheduled ==
    \A j \in JobIds : \/ jobs'[j] = jobs[j]
                      \/ jobs[j].status = "NONE" /\ jobs'[j] = NewJob(j)

(* Jobs that are added keep the outbox well formed, if they are right.      *)
LEMMA ScheduledOutbox ==
    ASSUME CleanersTypeOK, OutboxInv, Scheduled, UNCHANGED cleanerVars,
           \A j \in JobIds : jobs'[j].status # "NONE" => Matches(j)'
    PROVE  OutboxInv'
  <1>1. ASSUME NEW j \in JobIds
        PROVE  JobShape(j)'
    <2>1. CASE jobs'[j] = jobs[j]
      BY <2>1 DEF OutboxInv, JobShape, NoJob, NewJob
    <2>2. CASE jobs'[j] = NewJob(j)
      BY <2>2 DEF JobShape, NewJob
    <2> QED BY <2>1, <2>2 DEF Scheduled
  <1>2. ASSUME NEW w \in Cleaners
        PROVE  Busy(w)'
    <2>1. job[w] \in JobIds /\ Busy(w) /\ step' = step /\ job' = job /\ unsaved' = unsaved
      BY DEF CleanersTypeOK, OutboxInv, cleanerVars
    <2>2. jobs'[job[w]].status = "NONE" => jobs[job[w]].status = "NONE"
      BY <2>1 DEF Scheduled
    <2> QED BY <2>1, <2>2 DEF Busy
  <1> QED BY <1>1, <1>2 DEF OutboxInv

(* A fresh job has recorded nothing, so what is recorded stays true.        *)
LEMMA ScheduledData ==
    ASSUME PointsInv, RowsGone, RawInv, Scheduled, UNCHANGED <<cleanerVars, dataVars>>
    PROVE  PointsInv' /\ RowsGone' /\ RawInv'
  <1>1. \A j \in JobIds : \/ jobs'[j] = jobs[j]
                          \/ /\ jobs'[j].status = "PENDING" /\ jobs'[j].vectors = "PENDING"
                             /\ jobs'[j].raw # "SUCCESS" /\ jobs'[j].done = {}
    <2>1. \A j : LET r == NewJob(j) IN r.status = "PENDING" /\ r.vectors = "PENDING"
                                      /\ r.raw # "SUCCESS" /\ r.done = {}
      BY DEF NewJob
    <2> QED BY <2>1 DEF Scheduled
  <1>2. PointsInv'
    BY <1>1 DEF PointsInv, RowsOutlivePoints, LedgerHolds, Knows, Recalls, Visiting, TargetsHere, Scope,
                cleanerVars, dataVars
  <1>3. RowsGone'
    BY <1>1 DEF RowsGone, Scope, dataVars
  <1>4. RawInv'
    BY <1>1, JobIdsCount DEF RawInv, AfterRaw, cleanerVars, dataVars
  <1> QED BY <1>2, <1>3, <1>4

-----------------------------------------------------------------------------
(* The theorems *)

CleanInv == CleanupTypeOK /\ OutboxInv /\ PointsInv /\ RowsGone /\ RawInv

(* CleanInv holds at first. *)
LEMMA CleanStart == CleanupInit => CleanInv
  <1> SUFFICES ASSUME CleanupInit PROVE CleanInv
    OBVIOUS
  <1>0. CleanupTypeOK /\ CleanersTypeOK /\ OutboxTypeOK
    BY TypeStart, CleanupTypeParts
  <1>1. \A w \in Cleaners : step[w] = "idle" /\ unsaved[w] = NothingUnsaved
    BY DEF CleanupInit, CleanersInit
  <1>u. ~NothingUnsaved.raw /\ NothingUnsaved.done = {}
    BY DEF NothingUnsaved
  <1>2. ASSUME NEW j \in JobIds
        PROVE  /\ JobShape(j) /\ (jobs[j].status # "NONE" => Matches(j))
               /\ jobs[j].status \in {"NONE", "PENDING"} /\ jobs[j].raw # "SUCCESS"
               /\ jobs[j].vectors = "PENDING" /\ jobs[j].done = {}
    <2>1. CASE j \in 1..(MaxVersion - 1) /\ jobs[j] = NewJob(j)
      BY <2>1, BoundsAssumption DEF JobShape, NewJob, Matches, CleanupInit, FinishedStore
    <2>2. CASE jobs[j] = NoJob(j)
      BY <2>2 DEF JobShape, NoJob, NewJob
    <2> QED BY <2>1, <2>2 DEF CleanupInit, FinishedStore
  <1>3. OutboxInv
    BY <1>1, <1>2, <1>u DEF OutboxInv, Busy
  <1>4. PointsInv
    BY <1>1, <1>2, <1>u DEF PointsInv, RowsOutlivePoints, LedgerHolds, Knows, Recalls, Visiting,
                      CleanupInit, FinishedStore
  <1>5. RowsGone /\ RawInv
    BY <1>1, <1>2, <1>u, JobIdsCount DEF RowsGone, RawInv, AfterRaw
  <1> QED BY <1>0, <1>3, <1>4, <1>5 DEF CleanInv

(* Every step keeps CleanInv. *)
LEMMA CleanStep ==
    CleanInv /\ [CleanupNext \/ DeleteFile \/ OrphanLockExpires]_cleanVars => CleanInv'
  <1> SUFFICES ASSUME CleanInv, [CleanupNext \/ DeleteFile \/ OrphanLockExpires]_cleanVars
               PROVE  CleanInv'
    OBVIOUS
  <1>0. CleanupTypeOK' /\ CleanersTypeOK /\ OutboxTypeOK
    BY TypeStep, TypeOthers, CleanupTypeParts DEF CleanInv
  <1>1. CASE CleanupNext
    BY <1>0, <1>1, OutboxNext, PointsNext, RowsGoneNext, RawNext DEF CleanInv
  <1>2. CASE DeleteFile
    <2>1. UNCHANGED <<cleanerVars, dataVars>> /\ deleted' = TRUE /\ version' = version
      BY <1>2 DEF DeleteFile, PrepareDeletion, cleanupVars, cleanerVars, dataVars
    <2>2. Scheduled
      BY <1>0, <1>2 DEF DeleteFile, PrepareDeletion, ScheduleDeletion, Scheduled, OutboxTypeOK
    <2>3. \A j \in JobIds : jobs'[j].status # "NONE" => Matches(j)'
      BY <1>0, <1>2, <2>1
         DEF DeleteFile, PrepareDeletion, ScheduleDeletion, OutboxTypeOK, CleanInv, OutboxInv, Matches
    <2> QED BY <1>0, <2>1, <2>2, <2>3, ScheduledOutbox, ScheduledData DEF CleanInv
  <1>3. CASE OrphanLockExpires \/ UNCHANGED cleanVars
    <2>1. UNCHANGED <<cleanerVars, dataVars, jobs, version, deleted>>
      BY <1>3 DEF OrphanLockExpires, ReleaseOrphan, cleanVars, storeVars, cleanupVars, cleanerVars,
                      fileVars, dataVars
    <2>2. Scheduled /\ \A j \in JobIds : jobs'[j].status # "NONE" => Matches(j)'
      BY <2>1 DEF Scheduled, CleanInv, OutboxInv, Matches
    <2> QED BY <1>0, <2>1, <2>2, ScheduledOutbox, ScheduledData DEF CleanInv
  <1> QED BY <1>1, <1>2, <1>3

(* CleanInv holds in every reachable state. *)
LEMMA CleanInvariance == CleanupSpec => []CleanInv
  BY CleanStart, CleanStep, PTL DEF CleanupSpec

(* CleanInv implies the invariants that cleanup is about. *)
LEMMA CleanInvHolds == CleanInv => LedgerTrue /\ RowsOutlivePoints /\ CleanedUp
  <1> SUFFICES ASSUME CleanInv PROVE LedgerTrue /\ RowsOutlivePoints /\ CleanedUp
    OBVIOUS
  <1>1. LedgerTrue
    <2> SUFFICES ASSUME NEW j \in JobIds, jobs[j].status # "NONE"
                 PROVE  /\ jobs[j].raw = "SUCCESS" => ~raw
                        /\ LedgerHolds(j)
      BY DEF LedgerTrue, LedgerHolds
    <2>1. CASE j = 0
      BY <2>1 DEF CleanInv, RawInv, PointsInv
    <2>2. CASE j # 0
      BY <2>2 DEF CleanInv, OutboxInv, JobShape, PointsInv
    <2> QED BY <2>1, <2>2
  <1>2. RowsOutlivePoints
    BY DEF CleanInv, PointsInv
  <1>3. CleanedUp
    BY <1>2, ScopeInGens DEF CleanInv, RowsGone, RawInv, RowsOutlivePoints, CleanedUp
  <1> QED BY <1>1, <1>2, <1>3

(* The ledger a resumed pass relies on (target_results) is true: whatever   *)
(* failed, was retried or was done by two workers, a collection or object   *)
(* it records as finished has nothing left.                                 *)
THEOREM LedgerTrueCorrect == CleanupSpec => []LedgerTrue
  BY CleanInvHolds, CleanInvariance, PTL

(* Chunk rows outlive their points, so every point that is left can still   *)
(* be found by a later pass.                                                *)
THEOREM RowsOutlivePointsCorrect == CleanupSpec => []RowsOutlivePoints
  BY CleanInvHolds, CleanInvariance, PTL

(* A job is reported as SUCCESS only when its points, chunk rows and, for a *)
(* deleted file, the original are gone.                                     *)
THEOREM CleanedUpCorrect == CleanupSpec => []CleanedUp
  BY CleanInvHolds, CleanInvariance, PTL

(* A worker whose claim was superseded cannot change the outcome of a job   *)
(* that succeeded.                                                          *)
THEOREM SuccessFinalCorrect == CleanupSpec => SuccessFinal
  <1>1. /\ CleanInv
        /\ [CleanupNext \/ DeleteFile \/ OrphanLockExpires]_cleanVars
        => [\A j \in JobIds : jobs[j].status = "SUCCESS" => jobs'[j] = jobs[j]]_cleanVars
    <2>1. CASE CleanInv /\ CleanupNext
      BY <2>1, JobFieldMoves DEF CleanInv
    <2>2. CASE CleanInv /\ DeleteFile
      BY <2>2, CleanupTypeParts
         DEF CleanInv, OutboxTypeOK, DeleteFile, PrepareDeletion, ScheduleDeletion
    <2>3. CASE OrphanLockExpires
      BY <2>3 DEF OrphanLockExpires, ReleaseOrphan
    <2> QED BY <2>1, <2>2, <2>3
  <1> QED BY <1>1, CleanInvariance, PTL DEF CleanupSpec, SuccessFinal

-----------------------------------------------------------------------------
(* The document lock *)

(* A worker that deletes, is about to report success or has something to     *)
(* record holds the lock.                                                   *)
Guards(w) ==
    \/ Deleting(w)
    \/ step[w] = "close" /\ errors[w] = "none"
    \/ unsaved[w] # NothingUnsaved
    => lock = w

GuardInv == "lapse" \notin faults => \A w \in Cleaners : Guards(w)

(* A fault is never forgotten. *)
LEMMA FaultsGrow == CleanupNext \/ DeleteFile \/ OrphanLockExpires => faults \subseteq faults'
  <1>1. ASSUME NEW j \in JobIds,
               \/ Dispatch(j) \/ DispatchFails(j) \/ DelayPasses(j) \/ LeaseExpires(j) \/ ManualRetry(j)
        PROVE  faults \subseteq faults'
    BY <1>1 DEF Dispatch, DispatchFails, Reserve, DelayPasses, LeaseExpires, ManualRetry, Spend
  <1>2. ASSUME NEW w \in Cleaners, CleanerStep(w) \/ CleanerCrash(w) \/ CloseUnrecorded(w)
        PROVE  faults \subseteq faults'
    BY <1>2, WorkerChanges DEF Spend
  <1>3. CleanerLapse \/ DeleteFile \/ OrphanLockExpires => faults \subseteq faults'
    BY DEF CleanerLapse, DeleteFile, PrepareDeletion, OrphanLockExpires, ReleaseOrphan, Spend
  <1> QED BY <1>1, <1>2, <1>3 DEF CleanupNext

(* A worker enters the guarded steps with the lock, and leaves them with it. *)
LEMMA ActingGuards ==
    ASSUME CleanersTypeOK, NEW w \in Cleaners, Guards(w),
           CleanerStep(w) \/ CleanerCrash(w) \/ CloseUnrecorded(w)
    PROVE  Guards(w)'
  <1> USE DEF CleanersTypeOK
  <1>u. unsaved'[w] # NothingUnsaved => lock' = w
    <2> SUFFICES ASSUME unsaved'[w] # NothingUnsaved PROVE lock' = w
      OBVIOUS
    <2>1. unsaved'[w] = Finished(w) => unsaved'[w] = unsaved[w] \/ Deleting(w)
      <3>1. CASE step[w] \in {"rawSave", "collectionSave"}
        BY <3>1 DEF Deleting
      <3>2. CASE step[w] \notin {"rawSave", "collectionSave"}
        BY <3>2 DEF Finished
      <3> QED BY <3>1, <3>2
    <2>2. lock = w
      BY <2>1, ResultsFlow DEF Guards
    <2>3. ~TakeLock(w)
      BY <2>2, ProcessAssumption DEF TakeLock, Processes
    <2>4. ~Release(w) /\ ~CleanerCrash(w)
      BY DEF Release, CleanerCrash, Forget
    <2> QED BY <2>2, <2>3, <2>4, WorkerChanges
  <1>1. ASSUME step'[w] \in {"idle", "claimed", "handle", "release"}
        PROVE  Guards(w)'
    BY <1>1, <1>u DEF Guards, Deleting
  <1>2. ASSUME Deleting(w), lock' = lock
        PROVE  Guards(w)'
    BY <1>2 DEF Guards
  <1>3. CASE \E j \in JobIds : Claim(w, j) \/ Ignore(w, j)
    BY <1>1, <1>3 DEF Claim, Ignore, Move, Enter, cleanerVars
  <1>4. CASE TakeLock(w)
    BY <1>4 DEF TakeLock, Guards
  <1>5. CASE Postpone(w) \/ Succeed(w) \/ GiveUp(w) \/ CloseUnrecorded(w) \/ ClaimGone(w)
             \/ Release(w) \/ CleanerCrash(w)
    BY <1>1, <1>5 DEF Postpone, Succeed, GiveUp, CloseUnrecorded, ClaimGone, Release, CleanerCrash,
                      Forget, Move, Enter
  <1>6. CASE RawBeat(w) \/ VectorsBeat(w) \/ EnterCollection(w) \/ BatchBeat(w)
    BY <1>2, <1>6 DEF RawBeat, VectorsBeat, EnterCollection, BatchBeat, Beat, Move, Deleting
  <1>7. CASE RawDelete(w) \/ RawSave(w) \/ ReadTargets(w) \/ CollectionSave(w) \/ VectorsSave(w)
             \/ SaveFails(w) \/ DeleteBatch(w)
    BY <1>2, <1>7 DEF RawDelete, RawSave, ReadTargets, CollectionSave, VectorsSave, SaveFails,
                      DeleteBatch, Move, Deleting, storeVars
  <1>8. CASE RemoteFails(w) \/ LockGone(w)
    <2>1. PICK kind \in {"transient", "permanent"} : Trouble(w, kind)
      BY <1>8 DEF RemoteFails, LockGone
    <2>2. lock' = lock
      BY <1>8 DEF RemoteFails, LockGone, storeVars
    <2>3. CASE step[w] \in {"claimed", "close"}
      <3>1. step'[w] = "handle"
        BY <2>1, <2>3 DEF Trouble, Enter, OuterSteps
      <3> QED BY <1>1, <3>1
    <2>4. CASE step[w] \notin {"claimed", "close"}
      <3>1. Deleting(w)
        BY <1>8, <2>4 DEF RemoteFails, LockGone, Deleting, RemoteSteps, BeatSteps
      <3> QED BY <1>2, <2>2, <3>1
    <2> QED BY <2>3, <2>4
  <1> QED BY <1>3, <1>4, <1>5, <1>6, <1>7, <1>8 DEF CleanerStep

(* Every step of cleanup keeps GuardInv. *)
LEMMA GuardNext ==
    ASSUME CleanersTypeOK, GuardInv, CleanupNext
    PROVE  GuardInv'
  <1> SUFFICES ASSUME "lapse" \notin faults', NEW v \in Cleaners
               PROVE  Guards(v)'
    BY DEF GuardInv
  <1>1. "lapse" \notin faults /\ Guards(v)
    BY FaultsGrow DEF GuardInv
  <1>2. v \notin {Free, Orphan}
    BY ProcessAssumption DEF Processes
  <1>3. CASE \E w \in Cleaners : CleanerStep(w) \/ CleanerCrash(w) \/ CloseUnrecorded(w)
    <2>1. PICK w \in Cleaners : CleanerStep(w) \/ CleanerCrash(w) \/ CloseUnrecorded(w)
      BY <1>3
    <2>2. CASE v = w
      BY <1>1, <2>1, <2>2, ActingGuards
    <2>3. CASE v # w
      <3>1. Untouched(v)
        BY <2>1, <2>3, WorkerLocals
      <3>2. lock' = lock \/ lock # v
        BY <1>2, <2>1, <2>3, WorkerChanges DEF TakeLock
      <3> QED BY <1>1, <3>1, <3>2 DEF Guards, Deleting, Untouched
    <2> QED BY <2>2, <2>3
  <1>4. CASE \E j \in JobIds : Dispatch(j) \/ DispatchFails(j) \/ DelayPasses(j) \/ LeaseExpires(j)
                               \/ ManualRetry(j)
    <2>1. UNCHANGED <<lock, cleanerVars>>
      <3>1. UNCHANGED lock
        BY <1>4 DEF Dispatch, DispatchFails, Reserve, DelayPasses, LeaseExpires, ManualRetry
      <3>2. UNCHANGED cleanerVars
        BY <1>4, OtherLocals
      <3> QED BY <3>1, <3>2
    <2> QED BY <1>1, <2>1 DEF Guards, Deleting, cleanerVars
  <1>5. CASE CleanerLapse
    BY <1>5 DEF CleanerLapse, Spend
  <1> QED BY <1>3, <1>4, <1>5 DEF CleanupNext

(* At most one cleanup worker deletes at a time, as long as no live lease   *)
(* runs out: the lock is taken before the first deletion, refused to others *)
(* and never released on a stranger's behalf.                               *)
THEOREM OneDeleterCorrect == CleanupSpec => []OneDeleter
  <1>1. CleanupInit => GuardInv
    BY DEF CleanupInit, CleanersInit, GuardInv, Guards, Deleting
  <1>2. /\ CleanupTypeOK /\ GuardInv
        /\ [CleanupNext \/ DeleteFile \/ OrphanLockExpires]_cleanVars
        => GuardInv'
    <2>1. CASE CleanupTypeOK /\ GuardInv /\ CleanupNext
      BY <2>1, CleanupTypeParts, GuardNext
    <2>2. CASE GuardInv /\ DeleteFile
      BY <2>2 DEF DeleteFile, PrepareDeletion, cleanupVars, GuardInv, Guards, Deleting
    <2>3. CASE GuardInv /\ OrphanLockExpires
      BY <2>3, ProcessAssumption
         DEF OrphanLockExpires, ReleaseOrphan, cleanupVars, GuardInv, Guards, Deleting, Processes
    <2>4. CASE GuardInv /\ UNCHANGED cleanVars
      BY <2>4 DEF cleanVars, storeVars, cleanupVars, GuardInv, Guards, Deleting
    <2> QED BY <2>1, <2>2, <2>3, <2>4
  <1>3. GuardInv => OneDeleter
    BY DEF GuardInv, Guards, OneDeleter
  <1> QED BY <1>1, <1>2, <1>3, CleanupTypeCorrect, PTL DEF CleanupSpec

=============================================================================
