------------------------------ MODULE Cleanup ------------------------------
(***************************************************************************)
(* The deletion outbox: cleanup jobs written by the transactions that      *)
(* delete a file or finish a new generation, a dispatcher that publishes   *)
(* due jobs, and workers that delete the original object, the points and   *)
(* finally the chunk rows.                                                 *)
(*                                                                         *)
(* A job is claimed with a fresh token and a lease (300 s); every write of *)
(* the worker to the job checks the token. A worker has one claim at a     *)
(* time, so the token is identified with the worker that obtained it. The  *)
(* lease and next_attempt_at are compared with the clock: live, delayed.   *)
(* dispatch_after only limits how often a waiting job is published; a      *)
(* reservation may end at any time and a message may be late, so reserving *)
(* and publishing are one action whose message may be lost.                *)
(***************************************************************************)
EXTENDS DocumentStore

CONSTANT MaxCleanupRetries    \* MAX_RETRIES of cleanup/worker.py

ASSUME CleanupRetryAssumption == MaxCleanupRetries \in Nat

VARIABLES
    jobQueue,   \* cleanup messages the broker holds
    step,       \* what each cleanup worker does next
    job,        \* the job each worker has claimed
    visit,      \* collections the worker has still to visit
    here,       \* the collection it is in (a set of at most one)
    targets,    \* points it has still to delete, as read from the chunk rows
    errors,     \* worst error met so far
    unsaved     \* what the pass has finished and no checkpoint has recorded

cleanerVars == <<step, job, visit, here, targets, errors, unsaved>>
cleanupVars == <<jobQueue, step, job, visit, here, targets, errors, unsaved>>

(* Steps that begin with _heartbeat, and steps that call out. *)
BeatSteps == {"raw", "vectors", "collection", "batch"}
RemoteSteps == BeatSteps \cup {"claimed", "rawDelete", "targets", "deleting", "close"}
(* Steps outside the inner try blocks: handled by the last except clause. *)
OuterSteps == {"claimed", "raw", "vectors", "close"}

CleanerSteps == {"idle", "rawSave", "collectionSave", "handle", "release"} \cup RemoteSteps

NothingUnsaved == [raw |-> FALSE, done |-> {}]

CleanupTypeOK ==
    /\ StoreTypeOK
    /\ jobQueue \subseteq JobIds
    /\ step \in [Cleaners -> CleanerSteps]
    /\ job \in [Cleaners -> JobIds]
    /\ visit \in [Cleaners -> SUBSET Collections]
    /\ here \in [Cleaners -> SUBSET Collections]
    /\ targets \in [Cleaners -> SUBSET (Gens \X Chunks)]
    /\ errors \in [Cleaners -> {"none", "transient", "permanent"}]
    /\ unsaved \in [Cleaners -> [raw : BOOLEAN, done : SUBSET Collections]]
    /\ \A j \in JobIds : jobs[j].retries <= MaxCleanupRetries

CleanersInit ==
    /\ jobQueue = {}
    /\ step = [w \in Cleaners |-> "idle"]
    /\ job = [w \in Cleaners |-> 0]
    /\ visit = [w \in Cleaners |-> {}]
    /\ here = [w \in Cleaners |-> {}]
    /\ targets = [w \in Cleaners |-> {}]
    /\ errors = [w \in Cleaners |-> "none"]
    /\ unsaved = [w \in Cleaners |-> NothingUnsaved]

(* Slip: the generation filter is missing. *)
ScopeUnfiltered(j) == IF j = 0 THEN Gens ELSE Gens

(* The generations a job is about. *)
Scope(j) == IF j = 0 THEN Gens ELSE {j}

-----------------------------------------------------------------------------
(* The dispatcher *)

(* Slip: claims whose lease expired are not taken up again. *)
DuePendingOnly(j) == jobs[j].status = "PENDING" /\ ~jobs[j].delayed

(* due_jobs *)
Due(j) ==
    \/ jobs[j].status = "PENDING" /\ ~jobs[j].delayed
    \/ jobs[j].status = "PROCESSING" /\ ~jobs[j].live

Reserve(j) ==
    /\ Due(j)
    /\ jobs' = [jobs EXCEPT ![j].status = "PENDING", ![j].owner = Free,
                            ![j].live = FALSE]
    /\ UNCHANGED <<fileVars, dataVars, lock, faults, cleanerVars>>

(* send_task succeeds, even if its acknowledgement is lost. *)
Dispatch(j) ==
    /\ Reserve(j)
    /\ jobQueue' = jobQueue \cup {j}

(* The publish fails, or the dispatcher dies before it. *)
DispatchFails(j) ==
    /\ Reserve(j)
    /\ UNCHANGED jobQueue

(* next_attempt_at of a postponed job passes. *)
DelayPasses(j) ==
    /\ jobs[j].delayed
    /\ jobs' = [jobs EXCEPT ![j].delayed = FALSE]
    /\ UNCHANGED <<fileVars, dataVars, lock, faults, cleanupVars>>

(* Someone still works under the job's token. *)
Tended(j) == \E w \in Cleaners : jobs[j].owner = w /\ job[w] = j /\ step[w] # "idle"

(* lease_expires_at passes: after its holder died, or (a fault) before. *)
LeaseExpires(j) ==
    /\ jobs[j].live
    /\ IF Tended(j) THEN Spend("lapse") ELSE UNCHANGED faults
    /\ jobs' = [jobs EXCEPT ![j].live = FALSE]
    /\ UNCHANGED <<fileVars, dataVars, lock, cleanupVars>>

(* The owner's explicit retry of an exhausted job. *)
ManualRetry(j) ==
    /\ jobs[j].status = "FAILED"
    /\ jobs' = [jobs EXCEPT ![j].status = "PENDING", ![j].retries = 0,
                            ![j].owner = Free, ![j].live = FALSE]
    /\ UNCHANGED <<fileVars, dataVars, lock, faults, cleanupVars>>

-----------------------------------------------------------------------------
(* The worker *)

Enter(w, s) == step' = [step EXCEPT ![w] = s]

Move(w, from, to) ==
    /\ step[w] = from
    /\ Enter(w, to)

(* Slip: finished jobs are not refused. *)
ClaimableAgain(j) ==
    jobs[j].status # "NONE" /\ ~jobs[j].delayed /\ ~jobs[j].live

Claimable(j) ==
    \/ jobs[j].status = "PENDING" /\ ~jobs[j].delayed
    \/ jobs[j].status = "PROCESSING" /\ ~jobs[j].live

(* The target check of _claim. *)
Matches(j) == IF j = 0 THEN deleted ELSE j < version

Claim(w, j) ==
    /\ Move(w, "idle", "claimed")
    /\ j \in jobQueue
    /\ Claimable(j)
    /\ jobQueue' = jobQueue \ {j}
    /\ IF Matches(j)
       THEN /\ jobs' = [jobs EXCEPT ![j].status = "PROCESSING", ![j].owner = w,
                                    ![j].live = TRUE]
            /\ job' = [job EXCEPT ![w] = j]
       ELSE /\ jobs' = [jobs EXCEPT ![j].status = "FAILED"]
            /\ UNCHANGED job
    /\ UNCHANGED <<fileVars, dataVars, lock, faults, visit,
                   here, targets, errors, unsaved>>

(* Nothing to claim: another delivery is or was there first. *)
Ignore(w, j) ==
    /\ step[w] = "idle"
    /\ j \in jobQueue
    /\ ~Claimable(j)
    /\ jobQueue' = jobQueue \ {j}
    /\ UNCHANGED <<storeVars, cleanerVars>>

(* The fence of _checkpoint. *)
Fenced(w) == jobs[job[w]].status = "PROCESSING" /\ jobs[job[w]].owner = w

(* A checkpoint renews the lease; with a final status it gives it up. *)
Renewed(w) == [jobs EXCEPT ![job[w]].live = TRUE]

Handed(w, status, delayed, retries) ==
    [jobs EXCEPT ![job[w]].status = status, ![job[w]].owner = Free,
                 ![job[w]].live = FALSE, ![job[w]].delayed = delayed,
                 ![job[w]].retries = retries]

OwnsLock(w) == lock = w

NextTarget(w) == IF jobs[job[w]].vectors = "PENDING" THEN "vectors" ELSE "close"

(* With no retry left every error is final, and errors does not tell which. *)
Severity(w, kind) ==
    IF jobs[job[w]].retries < MaxCleanupRetries THEN kind ELSE "permanent"

Join(error, kind) == IF error = "permanent" THEN error ELSE kind

(* Where each try block continues after an exception, and whether errors    *)
(* met before are kept: an exception outside the inner blocks replaces them.*)
Trouble(w, kind) ==
    /\ Enter(w, CASE step[w] \in {"rawDelete", "rawSave"} -> NextTarget(w)
                  [] step[w] \in {"batch", "deleting", "collectionSave"} -> "collection"
                  [] step[w] \in OuterSteps -> "handle"
                  [] OTHER -> "close")
    /\ errors' = [errors EXCEPT ![w] =
                    IF step[w] \in OuterSteps
                    THEN Severity(w, kind) ELSE Join(@, Severity(w, kind))]

(* Slip: the document lock is taken without asking. *)
TakeLockAnyway(w) ==
    /\ lock' = w
    /\ Move(w, "claimed", IF jobs[job[w]].raw = "PENDING" THEN "raw" ELSE NextTarget(w))
    /\ UNCHANGED <<fileVars, dataVars, jobs, faults, jobQueue,
                   job, visit, here, targets, errors, unsaved>>

TakeLock(w) ==
    /\ lock = Free
    /\ lock' = w
    /\ Move(w, "claimed", IF jobs[job[w]].raw = "PENDING" THEN "raw" ELSE NextTarget(w))
    /\ UNCHANGED <<fileVars, dataVars, jobs, faults, jobQueue,
                   job, visit, here, targets, errors, unsaved>>

(* The document is being indexed or cleaned: try again in 10 s. *)
Postpone(w) ==
    /\ lock # Free
    /\ Fenced(w)
    /\ Move(w, "claimed", "release")
    /\ jobs' = Handed(w, "PENDING", TRUE, jobs[job[w]].retries)
    /\ UNCHANGED <<fileVars, dataVars, lock, faults, jobQueue,
                   job, visit, here, targets, errors, unsaved>>

(* _heartbeat: extend the lock, then checkpoint. *)
Beat(w, from, to) ==
    /\ OwnsLock(w)
    /\ Fenced(w)
    /\ Move(w, from, to)
    /\ jobs' = Renewed(w)
    /\ UNCHANGED <<fileVars, dataVars, lock, faults, jobQueue,
                   job, targets, errors, unsaved>>

RawBeat(w) == Beat(w, "raw", "rawDelete") /\ UNCHANGED <<visit, here>>

(* The object is removed; the request may raise once applied. *)
RawDelete(w) ==
    /\ step[w] = "rawDelete"
    /\ raw' = FALSE
    /\ \/ Enter(w, "rawSave") /\ UNCHANGED errors
       \/ Trouble(w, "transient")
    /\ UNCHANGED <<fileVars, rows, points, jobs, lock, faults, jobQueue,
                   job, visit, here, targets, unsaved>>

(* results: what the pass has finished, and the ledger does not say yet. *)
Finished(w) ==
    [raw |-> unsaved[w].raw \/ step[w] = "rawSave",
     done |-> unsaved[w].done \cup (IF step[w] = "collectionSave" THEN here[w] ELSE {})]

(* The job after a checkpoint with all of the results. *)
Recorded(w) ==
    [Renewed(w)[job[w]] EXCEPT !.raw = IF Finished(w).raw THEN "SUCCESS" ELSE @,
                               !.done = @ \cup Finished(w).done,
                               !.vectors = IF step[w] = "collection" THEN "SUCCESS" ELSE @]

Record(w) ==
    /\ Fenced(w)
    /\ jobs' = [jobs EXCEPT ![job[w]] = Recorded(w)]
    /\ unsaved' = [unsaved EXCEPT ![w] = NothingUnsaved]

RawSave(w) ==
    /\ Move(w, "rawSave", NextTarget(w))
    /\ Record(w)
    /\ UNCHANGED <<fileVars, dataVars, lock, faults, jobQueue,
                   job, visit, here, targets, errors>>

VectorsBeat(w) == Beat(w, "vectors", "targets") /\ UNCHANGED <<visit, here>>

(* _vector_targets: the points named by chunk rows, less finished collections. *)
Targets(j) ==
    {t \in Gens \X Chunks : t[1] \in Scope(j) /\ t[2] \in rows[t[1]]
                            /\ CollectionOf[t[1]] \notin jobs[j].done}

ReadTargets(w) ==
    /\ Move(w, "targets", "collection")
    /\ targets' = [targets EXCEPT ![w] = Targets(job[w])]
    /\ visit' = [visit EXCEPT ![w] = {CollectionOf[t[1]] : t \in Targets(job[w])}]
    /\ UNCHANGED <<storeVars, jobQueue, job, here, errors, unsaved>>

(* The heartbeats of a collection and of its first batch follow each other. *)
EnterCollection(w) ==
    \E c \in visit[w] :
        /\ Beat(w, "collection", "deleting")
        /\ visit' = [visit EXCEPT ![w] = @ \ {c}]
        /\ here' = [here EXCEPT ![w] = {c}]

BatchBeat(w) == Beat(w, "batch", "deleting") /\ UNCHANGED <<visit, here>>

TargetsHere(w) == {t \in targets[w] : CollectionOf[t[1]] \in here[w]}

(* Slip: a collection counts as finished after its first batch. *)
DeleteFirstBatch(w) ==
    /\ step[w] = "deleting"
    /\ \E batch \in SUBSET TargetsHere(w) :
         /\ batch # {}
         /\ points' = [g \in Gens |-> points[g] \ {c \in Chunks : <<g, c>> \in batch}]
         /\ targets' = [targets EXCEPT ![w] = @ \ TargetsHere(w)]
         /\ Enter(w, "collectionSave")
    /\ UNCHANGED <<fileVars, rows, raw, jobs, lock, faults, jobQueue,
                   job, visit, here, errors, unsaved>>

(* One delete request of at most 500 points; it may raise once applied. *)
DeleteBatch(w) ==
    /\ step[w] = "deleting"
    /\ \E batch \in SUBSET TargetsHere(w) :
         /\ batch # {}
         /\ points' = [g \in Gens |-> points[g] \ {c \in Chunks : <<g, c>> \in batch}]
         /\ \/ /\ targets' = [targets EXCEPT ![w] = @ \ batch]
               /\ Enter(w, IF batch = TargetsHere(w) THEN "collectionSave" ELSE "batch")
               /\ UNCHANGED errors
            \/ Trouble(w, "transient") /\ UNCHANGED targets
    /\ UNCHANGED <<fileVars, rows, raw, jobs, lock, faults, jobQueue,
                   job, visit, here, unsaved>>

CollectionSave(w) ==
    /\ Move(w, "collectionSave", "collection")
    /\ Record(w)
    /\ here' = [here EXCEPT ![w] = {}]
    /\ UNCHANGED <<fileVars, dataVars, lock, faults, jobQueue,
                   job, visit, targets, errors>>

(* Slip: the vectors are recorded as done whatever failed. *)
VectorsSaveAlways(w) ==
    /\ Move(w, "collection", "close")
    /\ visit[w] = {}
    /\ Record(w)
    /\ UNCHANGED <<fileVars, dataVars, lock, faults, jobQueue,
                   job, visit, here, targets, errors>>

(* After the loop: the vectors are done if every collection is. *)
VectorsSave(w) ==
    /\ Move(w, "collection", "close")
    /\ visit[w] = {}
    /\ IF targets[w] = {} THEN Record(w) ELSE UNCHANGED <<jobs, unsaved>>
    /\ UNCHANGED <<fileVars, dataVars, lock, faults, jobQueue,
                   job, visit, here, targets, errors>>

(* A checkpoint with results fails: it is rolled back, or committed all the  *)
(* same. The results stay, and the pass goes on with an error.              *)
SaveFails(w) ==
    /\ \/ step[w] \in {"rawSave", "collectionSave"}
       \/ step[w] = "collection" /\ visit[w] = {} /\ targets[w] = {}
    /\ \E kind \in {"transient", "permanent"} : Trouble(w, kind)
    /\ \/ UNCHANGED jobs /\ unsaved' = [unsaved EXCEPT ![w] = Finished(w)]
       \/ Record(w)
    /\ UNCHANGED <<fileVars, dataVars, lock, faults, jobQueue,
                   job, visit, here, targets>>

(* The last checkpoint of a clean pass also deletes the chunk rows. *)
Succeed(w) ==
    /\ errors[w] = "none"
    /\ Fenced(w)
    /\ Move(w, "close", "release")
    /\ jobs' = Handed(w, "SUCCESS", FALSE, jobs[job[w]].retries)
    /\ rows' = [g \in Gens |-> IF g \in Scope(job[w]) THEN {} ELSE rows[g]]
    /\ UNCHANGED <<fileVars, points, raw, lock, faults, jobQueue,
                   job, visit, here, targets, errors, unsaved>>

(* Slips: retries are not counted; the chunk rows go with any outcome. *)
GiveUpNever(w) ==
    /\ step[w] \in {"close", "handle"}
    /\ errors[w] # "none"
    /\ Fenced(w)
    /\ Enter(w, "release")
    /\ jobs' = Handed(w, "PENDING", TRUE, jobs[job[w]].retries + 1)
    /\ UNCHANGED <<fileVars, dataVars, lock, faults, jobQueue,
                   job, visit, here, targets, errors, unsaved>>

GiveUpRows(w) ==
    /\ step[w] \in {"close", "handle"}
    /\ errors[w] # "none"
    /\ Fenced(w)
    /\ Enter(w, "release")
    /\ jobs' = Handed(w, "FAILED", FALSE, jobs[job[w]].retries)
    /\ rows' = [g \in Gens |-> IF g \in Scope(job[w]) THEN {} ELSE rows[g]]
    /\ UNCHANGED <<fileVars, points, raw, lock, faults, jobQueue,
                   job, visit, here, targets, errors, unsaved>>

(* _fail: retried with a delay if every error was transient. *)
GiveUp(w) ==
    /\ step[w] \in {"close", "handle"}
    /\ errors[w] # "none"
    /\ Fenced(w)
    /\ Enter(w, "release")
    /\ jobs' = IF errors[w] = "transient" /\ jobs[job[w]].retries < MaxCleanupRetries
               THEN Handed(w, "PENDING", TRUE, jobs[job[w]].retries + 1)
               ELSE Handed(w, "FAILED", FALSE, jobs[job[w]].retries)
    /\ UNCHANGED <<fileVars, dataVars, lock, faults, jobQueue,
                   job, visit, here, targets, errors, unsaved>>

RemoteFails(w) ==
    /\ step[w] \in RemoteSteps
    /\ step[w] = "collection" => visit[w] # {}
    /\ \E kind \in {"transient", "permanent"} : Trouble(w, kind)
    /\ UNCHANGED <<storeVars, jobQueue, job, visit, here, targets, unsaved>>

(* A heartbeat finds the Redis lock gone. *)
LockGone(w) ==
    /\ step[w] \in BeatSteps
    /\ step[w] = "collection" => visit[w] # {}
    /\ ~OwnsLock(w)
    /\ Trouble(w, "permanent")
    /\ UNCHANGED <<storeVars, jobQueue, job, visit, here, targets, unsaved>>

(* LostCleanupLease: a heartbeat or checkpoint finds another token. *)
ClaimGone(w) ==
    /\ step[w] \notin {"idle", "release", "rawDelete", "targets", "deleting"}
    /\ step[w] \in BeatSteps => OwnsLock(w)
    /\ step[w] = "claimed" => lock # Free
    /\ (step[w] = "collection" /\ visit[w] = {}) => targets[w] = {}
    /\ ~Fenced(w)
    /\ Enter(w, "release")
    /\ UNCHANGED <<storeVars, jobQueue, job, visit, here, targets, errors, unsaved>>

Forget(w) ==
    /\ Enter(w, "idle")
    /\ job' = [job EXCEPT ![w] = 0]
    /\ visit' = [visit EXCEPT ![w] = {}]
    /\ here' = [here EXCEPT ![w] = {}]
    /\ targets' = [targets EXCEPT ![w] = {}]
    /\ errors' = [errors EXCEPT ![w] = "none"]
    /\ unsaved' = [unsaved EXCEPT ![w] = NothingUnsaved]

(* Slip: the lock is deleted whoever owns it. *)
ReleaseAny(w) ==
    /\ step[w] = "release"
    /\ lock' = Free
    /\ Forget(w)
    /\ UNCHANGED <<fileVars, dataVars, jobs, faults, jobQueue>>

(* The finally block, and the acknowledgement. *)
Release(w) ==
    /\ step[w] = "release"
    /\ lock' = IF OwnsLock(w) THEN Free ELSE lock
    /\ Forget(w)
    /\ UNCHANGED <<fileVars, dataVars, jobs, faults, jobQueue>>

(* The checkpoint of the last except clause fails: the claim is left behind. *)
CloseUnrecorded(w) ==
    /\ Spend("database")
    /\ Move(w, "handle", "release")
    /\ UNCHANGED <<fileVars, dataVars, jobs, lock, jobQueue,
                   job, visit, here, targets, errors, unsaved>>

(* The process dies; its message is delivered again. *)
CleanerCrash(w) ==
    /\ step[w] # "idle"
    /\ Spend("crash")
    /\ jobQueue' = jobQueue \cup {job[w]}
    /\ lock' = IF OwnsLock(w) THEN Orphan ELSE lock
    /\ Forget(w)
    /\ UNCHANGED <<fileVars, dataVars, jobs>>

(* A living holder misses the TTL of the document lock (300 s). *)
CleanerLapse ==
    /\ lock \in Cleaners
    /\ Spend("lapse")
    /\ lock' = Free
    /\ UNCHANGED <<fileVars, dataVars, jobs, cleanupVars>>

-----------------------------------------------------------------------------
CleanerStep(w) ==
    \/ \E j \in JobIds : Claim(w, j) \/ Ignore(w, j)
    \/ TakeLock(w) \/ Postpone(w)
    \/ RawBeat(w) \/ RawDelete(w) \/ RawSave(w)
    \/ VectorsBeat(w) \/ ReadTargets(w) \/ EnterCollection(w) \/ BatchBeat(w)
    \/ DeleteBatch(w) \/ CollectionSave(w) \/ VectorsSave(w) \/ SaveFails(w)
    \/ Succeed(w) \/ GiveUp(w)
    \/ RemoteFails(w) \/ LockGone(w) \/ ClaimGone(w) \/ Release(w)

CleanupNext ==
    \/ \E j \in JobIds :
          \/ Dispatch(j) \/ DispatchFails(j)
          \/ DelayPasses(j) \/ LeaseExpires(j) \/ ManualRetry(j)
    \/ \E w \in Cleaners : CleanerStep(w) \/ CleanerCrash(w) \/ CloseUnrecorded(w)
    \/ CleanerLapse

cleanVars == <<storeVars, cleanupVars>>

(* On its own, cleanup starts from the states ingestion leaves: the current *)
(* generation is complete, older ones have all or none of their chunk rows, *)
(* any of those rows' points, and a job each; the file may be deleted.      *)
FinishedStore ==
    /\ version = MaxVersion
    /\ deleted = FALSE
    /\ docStatus = "DONE"
    /\ metaTask = MaxVersion
    /\ task = [g \in Gens |-> IF g = MaxVersion
                               THEN [status |-> "SUCCESS", stage |-> "REPORTED"]
                               ELSE [status |-> "FAILED", stage |-> "REPORTED"]]
    /\ torn = FALSE
    /\ rows \in [Gens -> {{}, Chunks}]
    /\ rows[MaxVersion] = Chunks
    /\ points \in [Gens -> SUBSET Chunks]
    /\ \A g \in Gens : points[g] \subseteq rows[g]
    /\ points[MaxVersion] = Chunks
    /\ raw = TRUE
    /\ jobs = [j \in JobIds |-> IF j \in 1..(MaxVersion - 1) /\ rows[j] # {}
                                THEN NewJob(j) ELSE NoJob(j)]
    /\ lock = Free
    /\ faults = {}

CleanupInit == FinishedStore /\ CleanersInit

DeleteFile == PrepareDeletion /\ UNCHANGED cleanupVars
OrphanLockExpires == ReleaseOrphan /\ UNCHANGED cleanupVars

CleanupSpec ==
    CleanupInit /\ [][CleanupNext \/ DeleteFile \/ OrphanLockExpires]_cleanVars

(* The dispatch loop runs for ever, clocks advance, workers run. Faults,    *)
(* manual retries and deletions need not happen.                            *)
CleanupFairness ==
    /\ \A j \in JobIds :
         /\ WF_cleanVars(Dispatch(j))
         /\ WF_cleanVars(DelayPasses(j))
         /\ WF_cleanVars(LeaseExpires(j) /\ ~Tended(j))
    /\ \A w \in Cleaners : WF_cleanVars(CleanerStep(w))
    /\ WF_cleanVars(OrphanLockExpires)

FairCleanupSpec == CleanupSpec /\ CleanupFairness

-----------------------------------------------------------------------------
(* Properties *)

(* A job is reported as SUCCESS only when everything it is about is gone:   *)
(* points of all its collections, chunk rows and, for a deleted file, the   *)
(* original, whatever was retried, resumed or done by two workers.          *)
CleanedUp ==
    \A j \in JobIds : jobs[j].status = "SUCCESS" =>
        /\ \A g \in Scope(j) : points[g] = {} /\ rows[g] = {}
        /\ j = 0 => ~raw

(* The ledger a resumed pass relies on is true: what target_results records *)
(* as finished will not be visited again, so it must be gone.               *)
LedgerTrue ==
    \A j \in JobIds : jobs[j].status # "NONE" =>
        /\ jobs[j].raw = "SUCCESS" => ~raw
        /\ \A g \in Scope(j) :
              (jobs[j].vectors = "SUCCESS" \/ CollectionOf[g] \in jobs[j].done)
                 => points[g] = {}

(* Chunk rows outlive their points in every partial pass: they are the only *)
(* record of the point ids a later pass has to delete.                      *)
RowsOutlivePoints == \A g \in Gens : points[g] \subseteq rows[g]

(* At most one cleanup worker deletes at a time, as long as no live lease   *)
(* runs out.                                                                *)
Deleting(w) == step[w] \notin {"idle", "claimed", "close", "handle", "release"}

OneDeleter ==
    "lapse" \notin faults =>
        \A v, w \in Cleaners : Deleting(v) /\ Deleting(w) => v = w

(* A worker whose token was superseded cannot change the outcome: a job     *)
(* that succeeded stays as it is.                                           *)
SuccessFinal ==
    [][\A j \in JobIds : jobs[j].status = "SUCCESS" => jobs'[j] = jobs[j]]_cleanVars

(* Every job of the outbox is eventually carried out or given up, though    *)
(* messages are lost, workers die and leases are left behind.               *)
JobsSettle ==
    \A j \in JobIds : jobs[j].status \in {"PENDING", "PROCESSING"}
                       ~> jobs[j].status \in {"SUCCESS", "FAILED"}

=============================================================================
