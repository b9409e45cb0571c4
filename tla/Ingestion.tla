----------------------------- MODULE Ingestion -----------------------------
(***************************************************************************)
(* Uploading, (re)parsing, deleting and indexing one document.             *)
(*                                                                         *)
(* The API commits a task row and then publishes it to Celery              *)
(* (enqueue_document); workers take messages, lease the document's Redis   *)
(* lock and run the pipeline download - slice - persist - embed - upsert - *)
(* confirm, one transaction or one external call per action. A transaction *)
(* of a worker first re-reads the file row (_current): a task whose        *)
(* generation is no longer the document's stops without a trace.           *)
(*                                                                         *)
(* _current reads the task before it waits for the lock of the file row,   *)
(* and a column is written only where it is to differ from what was read   *)
(* (REPEATABLE READ; the object mapper's changes). A transaction that      *)
(* writes the task is therefore two actions, LoadTask and its commit, and  *)
(* between them the API or another worker may write the task.              *)
(*                                                                         *)
(* Successive progress transactions with only local computation between    *)
(* them are one action (so is the last of them, at 95 percent, with the    *)
(* report of the success), and one embedding batch stands for the loop     *)
(* over batches: they write the same status and sub-status again.          *)
(***************************************************************************)
EXTENDS DocumentStore

CONSTANT MaxRetries     \* MAX_TASK_RETRIES of worker.py

ASSUME RetryAssumption == MaxRetries \in Nat

VARIABLES
    dispatch,   \* per generation, how far enqueue_document has come
    queue,      \* messages the broker holds
    pc,         \* what each worker does next
    msg,        \* the unacknowledged message of each worker
    todo,       \* chunks the worker still has to upsert
    exc,        \* the exception a worker is handling
    read,       \* the task as the transaction of each worker has loaded it
    failedStage \* the stage a worker's handler has found

workerVars == <<pc, msg, todo, exc, read, failedStage>>
brokerVars == <<dispatch, queue>>
ingestionVars == <<dispatch, queue, pc, msg, todo, exc, read, failedStage>>

Message == [gen : Gens, retries : 0..MaxRetries]
NoMessage == [gen |-> 0, retries |-> 0]

DispatchState == {"none", "publishing", "unsure", "done", "dead"}

(* Steps that start by extending the lease, and steps that read _current. *)
RefreshSteps == {"parsing", "scan", "embed", "index", "confirm"}
CheckSteps == {"received", "check", "load", "parse", "parsing", "slicing",
               "prepare", "scan", "counted", "embed", "embedding", "index",
               "upserted", "confirm", "finish"}
(* Steps whose transaction writes the task. *)
ReportSteps == {"parse", "parsing", "prepare", "counted", "embed", "embedding",
                "index", "upserted", "finish", "report"}
(* Steps that call MySQL, Redis, MinIO, the parser, the embedding service or  *)
(* Qdrant, and may end with an exception of theirs.                           *)
CallSteps == CheckSteps \cup {"admitted", "scanned", "upsert", "confirming"}

Steps == {"idle", "fail", "report", "requeue", "unlock"} \cup CallSteps

(* The worker's transaction has not read its task yet. *)
Unread == NoTask

IngestionTypeOK ==
    /\ StoreTypeOK
    /\ dispatch \in [Gens -> DispatchState]
    /\ queue \subseteq Message
    /\ pc \in [Workers -> Steps]
    /\ msg \in [Workers -> Message \cup {NoMessage}]
    /\ todo \in [Workers -> SUBSET Chunks]
    /\ exc \in [Workers -> {"none", "transient", "permanent"}]
    /\ read \in [Workers -> Task]
    /\ failedStage \in [Workers -> TaskStage]
    /\ \A w \in Workers : pc[w] = "idle" <=> msg[w] = NoMessage

WorkersInit ==
    /\ dispatch = [g \in Gens |-> "none"]
    /\ queue = {}
    /\ pc = [w \in Workers |-> "idle"]
    /\ msg = [w \in Workers |-> NoMessage]
    /\ todo = [w \in Workers |-> {}]
    /\ exc = [w \in Workers |-> "none"]
    /\ read = [w \in Workers |-> Unread]
    /\ failedStage = [w \in Workers |-> "QUEUED"]

IngestionInit == StoreInit /\ WorkersInit

-----------------------------------------------------------------------------
(* The API *)

(* The client learns the document's id from the upload's response. *)
Known == dispatch[1] = "done"

(* A document row, its object in MinIO, commit. *)
Upload ==
    /\ version = 0
    /\ version' = 1
    /\ raw' = TRUE
    /\ UNCHANGED <<deleted, docStatus, metaTask, task, torn, rows, points, jobs,
                   lock, faults, ingestionVars>>

(* The transaction of enqueue_document that creates generation g's task. *)
CreateTask(g) ==
    /\ version' = g
    /\ SetTask(g, "PENDING", "QUEUED")
    /\ docStatus' = "PENDING"
    /\ metaTask' = g
    /\ dispatch' = [dispatch EXCEPT ![g] = "publishing"]
    /\ UNCHANGED <<deleted, dataVars, jobs, lock, faults, queue, workerVars>>

Enqueue ==
    /\ version = 1
    /\ dispatch[1] = "none"
    /\ CreateTask(1)

(* Slip: an active task does not refuse the request. *)
ReparseAnyTime ==
    /\ Known
    /\ ~deleted
    /\ version < MaxVersion
    /\ CreateTask(version + 1)

Reparse ==
    /\ Known
    /\ ~deleted
    /\ version < MaxVersion
    /\ ~Active(version)
    /\ CreateTask(version + 1)

(* send_task returns; the response is sent. *)
Publish(g) ==
    /\ dispatch[g] = "publishing"
    /\ dispatch' = [dispatch EXCEPT ![g] = "done"]
    /\ queue' = queue \cup {[gen |-> g, retries |-> 0]}
    /\ UNCHANGED <<storeVars, workerVars>>

(* send_task raises; the broker may have accepted the message all the same. *)
PublishRaises(g) ==
    /\ dispatch[g] = "publishing"
    /\ dispatch' = [dispatch EXCEPT ![g] = "unsure"]
    /\ queue' \in {queue, queue \cup {[gen |-> g, retries |-> 0]}}
    /\ UNCHANGED <<storeVars, workerVars>>

(* Slip: the task is failed without looking at it again. *)
UntakenUnread(g) == g \in Gens

(* After a failed publish: lock the file, and fail the task only if no      *)
(* worker has taken it.                                                     *)
Untaken(g) == task[g] = [status |-> "PENDING", stage |-> "QUEUED"]

Recheck(g) ==
    /\ dispatch[g] = "unsure"
    /\ dispatch' = [dispatch EXCEPT ![g] = "done"]
    /\ IF Untaken(g)
       THEN /\ SetTask(g, "FAILED", "REPORTED")
            /\ docStatus' = "FAILED"
       ELSE UNCHANGED <<task, torn, docStatus>>
    /\ UNCHANGED <<version, deleted, metaTask, dataVars, jobs, lock, faults,
                   queue, workerVars>>

(* The API process dies between the commit and the end of the request. *)
ApiCrash(g) ==
    /\ \/ dispatch[g] \in {"publishing", "unsure"}
       \/ g = 1 /\ version = 1 /\ dispatch[g] = "none"
    /\ Spend("apiCrash")
    /\ dispatch' = [dispatch EXCEPT ![g] = "dead"]
    /\ UNCHANGED <<fileVars, dataVars, jobs, lock, queue, workerVars>>

Delete ==
    /\ Known
    /\ PrepareDeletion
    /\ UNCHANGED ingestionVars

(* Best-effort Celery revocation of the tasks a deletion cancelled. *)
Revoke(g) ==
    /\ task[g].stage = "CANCELLED"
    /\ \E m \in queue : m.gen = g
    /\ queue' = {m \in queue : m.gen # g}
    /\ UNCHANGED <<storeVars, dispatch, workerVars>>

-----------------------------------------------------------------------------
(* The worker *)

(* The next step; what the last transaction had read is gone. *)
Goto(w, step) ==
    /\ pc' = [pc EXCEPT ![w] = step]
    /\ read' = [read EXCEPT ![w] = Unread]
    /\ failedStage' = [failedStage EXCEPT ![w] = "QUEUED"]

(* Move on; nothing else the worker holds changes. *)
Step(w, from, to) ==
    /\ pc[w] = from
    /\ Goto(w, to)
    /\ UNCHANGED <<msg, todo, exc, brokerVars>>

Gen(w) == msg[w].gen

(* reacquire succeeds only for the owner of a live lease. *)
LeaseHeld(w) == lock = w

Loaded(w) == read[w] # Unread

(* The lease is extended where the step begins with that. *)
Extended(w) == pc[w] \in RefreshSteps => LeaseHeld(w)

(* The unlocked read at the head of a transaction that writes the task. *)
LoadTask(w) ==
    /\ pc[w] \in ReportSteps
    /\ ~Loaded(w)
    /\ Extended(w)
    /\ read' = [read EXCEPT ![w] = task[Gen(w)]]
    /\ UNCHANGED <<storeVars, brokerVars, pc, msg, todo, exc, failedStage>>

(* The file row is locked. *)
Locked(w) == IF pc[w] \in ReportSteps THEN Loaded(w) ELSE Extended(w)

Proceeds(w) == Locked(w) /\ Current(Gen(w))

(* The columns that differ from what was loaded are written; of the stages   *)
(* that are REPORTED, one may differ from another.                           *)
Written(old, new, loaded) ==
    [status : {IF new.status = loaded.status THEN old.status ELSE new.status},
     stage : (IF new.stage = loaded.stage THEN {old.stage} ELSE {new.stage})
             \cup ({new.stage} \cap {"REPORTED"})]

FileStatus(status) ==
    CASE status = "SUCCESS" -> "DONE"
      [] status = "FAILED" -> "FAILED"
      [] OTHER -> "PARSING"

(* _update: the task, and the file row that was read under its lock. *)
Report(w, status, stage) ==
    /\ Proceeds(w)
    /\ \E row \in Written(task[Gen(w)], [status |-> status, stage |-> stage], read[w]) :
         task' = [task EXCEPT ![Gen(w)] = row]
    /\ torn' = (read[w].status # task[Gen(w)].status)
    /\ docStatus' = FileStatus(status)
    /\ UNCHANGED <<version, deleted, metaTask, dataVars, lock, faults>>

Progress(w) == Report(w, "PROCESSING", "REPORTED") /\ UNCHANGED jobs

(* An exception unwinds the pipeline and its locals. *)
Unwind(w, step) ==
    /\ Goto(w, step)
    /\ todo' = [todo EXCEPT ![w] = {}]

(* StaleIngestionTask: leave everything to the newer generation. *)
Abandon(w) ==
    /\ pc[w] \in CheckSteps
    /\ Locked(w)
    /\ ~Current(Gen(w))
    /\ Unwind(w, "unlock")
    /\ UNCHANGED <<storeVars, msg, exc, brokerVars>>

(* With no retry left every exception is final, and exc does not tell which. *)
Raise(w, kind) ==
    /\ Unwind(w, "fail")
    /\ exc' = [exc EXCEPT ![w] = IF msg[w].retries < MaxRetries THEN kind ELSE "permanent"]

(* LockNotOwnedError of a refresh is not a transport error. *)
LeaseGone(w) ==
    /\ ~Loaded(w)
    /\ ~Extended(w)
    /\ Raise(w, "permanent")
    /\ UNCHANGED <<storeVars, msg, brokerVars>>

(* MySQL's errors carry no transport error that transient_error knows, so   *)
(* either kind may come from any call.                                      *)
CallFails(w) ==
    /\ pc[w] \in CallSteps
    /\ \E kind \in {"transient", "permanent"} : Raise(w, kind)
    /\ UNCHANGED <<storeVars, msg, brokerVars>>

Receive(w) ==
    /\ pc[w] = "idle"
    /\ \E m \in queue :
         /\ msg' = [msg EXCEPT ![w] = m]
         /\ queue' = queue \ {m}
    /\ Goto(w, "received")
    /\ UNCHANGED <<storeVars, dispatch, todo, exc>>

Admit(w) ==
    /\ Step(w, "received", "admitted")
    /\ Proceeds(w)
    /\ UNCHANGED storeVars

Acquire(w) ==
    /\ Step(w, "admitted", "check")
    /\ lock = Free
    /\ lock' = w
    /\ UNCHANGED <<fileVars, dataVars, jobs, faults>>

Retried(w) == [msg[w] EXCEPT !.retries = @ + 1]

(* The lock is taken: self.retry(countdown=10) in the acquire branch. At the *)
(* limit it raises MaxRetriesExceededError, handled below as any exception.  *)
Contend(w) ==
    /\ pc[w] = "admitted"
    /\ lock # Free
    /\ IF msg[w].retries < MaxRetries
       THEN /\ queue' = queue \cup {Retried(w)}
            /\ Unwind(w, "unlock")
            /\ UNCHANGED exc
       ELSE Raise(w, "permanent") /\ UNCHANGED queue
    /\ UNCHANGED <<storeVars, msg, dispatch>>

(* The broker refuses that retry: Reject, caused by a transport error. *)
ContendLost(w) ==
    /\ pc[w] = "admitted"
    /\ lock # Free
    /\ msg[w].retries < MaxRetries
    /\ Spend("loss")
    /\ Raise(w, "transient")
    /\ UNCHANGED <<fileVars, dataVars, jobs, lock, msg, brokerVars>>

(* _process_ingestion: a delivered duplicate of a finished task is done. *)
Check(w) ==
    /\ Step(w, "check", IF task[Gen(w)].status = "SUCCESS" THEN "unlock" ELSE "load")
    /\ Proceeds(w)
    /\ UNCHANGED storeVars

(* _load_or_parse: chunk rows of an earlier attempt are used again. *)
Load(w) ==
    /\ Step(w, "load", IF rows[Gen(w)] # {} THEN "prepare" ELSE "parse")
    /\ Proceeds(w)
    /\ UNCHANGED storeVars

Parse(w) ==
    /\ Step(w, "parse", "parsing")
    /\ Progress(w)

(* Slip: the chunks stay in memory. *)
SliceUnsaved(w) ==
    /\ Step(w, "parsing", "prepare")
    /\ Progress(w)

Slice(w) ==
    /\ Step(w, "parsing", "slicing")
    /\ Progress(w)

(* The chunk rows of a generation are written once; chunk_id is unique. *)
Persist(w) ==
    /\ pc[w] = "slicing"
    /\ Proceeds(w)
    /\ IF rows[Gen(w)] = {}
       THEN /\ rows' = [rows EXCEPT ![Gen(w)] = Chunks]
            /\ Goto(w, "prepare")
            /\ UNCHANGED <<todo, exc>>
       ELSE Raise(w, "permanent") /\ UNCHANGED rows
    /\ UNCHANGED <<fileVars, points, raw, jobs, lock, faults, msg, brokerVars>>

Prepare(w) ==
    /\ Step(w, "prepare", "scan")
    /\ Progress(w)

(* existing_chunk_ids: check, then ask Qdrant which points are there. *)
Scan(w) ==
    /\ Step(w, "scan", "scanned")
    /\ Proceeds(w)
    /\ UNCHANGED storeVars

(* Slip: a generation with any point is taken for indexed. *)
PendingIfEmpty(g) == IF points[g] = {} THEN Chunks ELSE {}

Pending(g) == Chunks \ points[g]

Scanned(w) ==
    /\ pc[w] = "scanned"
    /\ todo' = [todo EXCEPT ![w] = Pending(Gen(w))]
    /\ Goto(w, "counted")
    /\ UNCHANGED <<storeVars, msg, exc, brokerVars>>

Counted(w) ==
    /\ Step(w, "counted", IF todo[w] = {} THEN "confirm" ELSE "embed")
    /\ Progress(w)

Embed(w) ==
    /\ Step(w, "embed", "embedding")
    /\ Progress(w)

Embedded(w) ==
    /\ Step(w, "embedding", "index")
    /\ Progress(w)

Index(w) ==
    /\ Step(w, "index", "upsert")
    /\ Progress(w)

(* One batch reaches Qdrant; the call may raise after it was applied. *)
Upsert(w) ==
    /\ pc[w] = "upsert"
    /\ \E batch \in SUBSET todo[w] :
         /\ batch # {}
         /\ points' = [points EXCEPT ![Gen(w)] = @ \cup batch]
         /\ \/ /\ todo' = [todo EXCEPT ![w] = @ \ batch]
               /\ Goto(w, "upserted")
               /\ UNCHANGED exc
            \/ Raise(w, "transient")
    /\ UNCHANGED <<fileVars, rows, raw, jobs, lock, faults, msg, brokerVars>>

Upserted(w) ==
    /\ Step(w, "upserted", IF todo[w] = {} THEN "confirm" ELSE "index")
    /\ Progress(w)

Confirm(w) ==
    /\ Step(w, "confirm", "confirming")
    /\ Proceeds(w)
    /\ UNCHANGED storeVars

(* The consistency check of index_chunks; its RuntimeError is permanent. *)
Confirmed(w) ==
    /\ pc[w] = "confirming"
    /\ IF Pending(Gen(w)) = {}
       THEN Goto(w, "finish") /\ UNCHANGED <<todo, exc>>
       ELSE Raise(w, "permanent")
    /\ UNCHANGED <<storeVars, msg, brokerVars>>

(* The last _update: SUCCESS, and the jobs for superseded generations. The  *)
(* rows and jobs of these are those of the transaction's first read; only   *)
(* another owner's Finish can have come since, and then the unique key of   *)
(* the jobs raises (CallFails). The commit may raise after it was applied.  *)
Finish(w) ==
    /\ pc[w] = "finish"
    /\ Report(w, "SUCCESS", "REPORTED")
    /\ ScheduleSuperseded
    /\ \/ Step(w, "finish", "unlock")
       \/ /\ \E kind \in {"transient", "permanent"} : Raise(w, kind)
          /\ UNCHANGED <<msg, brokerVars>>

(* The handler's first transaction notes the stage the task has failed at. *)
Diagnose(w) ==
    /\ pc[w] = "fail"
    /\ Current(Gen(w))
    /\ pc' = [pc EXCEPT ![w] = "report"]
    /\ failedStage' = [failedStage EXCEPT ![w] = task[Gen(w)].stage]
    /\ UNCHANGED <<storeVars, brokerVars, msg, todo, exc, read>>

(* The handler is done; the exception is forgotten. *)
Handled(w, to) ==
    /\ Goto(w, to)
    /\ exc' = [exc EXCEPT ![w] = "none"]
    /\ UNCHANGED <<msg, todo, brokerVars>>

(* Its second transaction: a transient error below the limit waits for its  *)
(* retry, any other fails the task; nothing is written for a stale task.    *)
Retryable(w) == exc[w] = "transient" /\ msg[w].retries < MaxRetries

(* Slip: the file row is left as it was when the task fails. *)
FailTaskOnly(w) ==
    /\ pc[w] = "report"
    /\ Handled(w, IF Retryable(w) THEN "requeue" ELSE "unlock")
    /\ Proceeds(w)
    /\ task' = [task EXCEPT ![Gen(w)].status = IF Retryable(w) THEN "PENDING" ELSE "FAILED",
                            ![Gen(w)].stage = "REPORTED"]
    /\ torn' = (read[w].status # task[Gen(w)].status)
    /\ UNCHANGED <<version, deleted, docStatus, metaTask, dataVars, jobs, lock, faults>>

Fail(w) ==
    /\ pc[w] = "report"
    /\ Handled(w, IF Retryable(w) THEN "requeue" ELSE "unlock")
    /\ IF Retryable(w)
       THEN Report(w, "PENDING", "REPORTED")
       ELSE Report(w, "FAILED", failedStage[w])
    /\ UNCHANGED jobs

FailStale(w) ==
    /\ pc[w] = "fail" \/ (pc[w] = "report" /\ Loaded(w))
    /\ Handled(w, "unlock")
    /\ ~Current(Gen(w))
    /\ UNCHANGED storeVars

(* A transaction of the handler raises: the message is acknowledged. *)
FailUnrecorded(w) ==
    /\ pc[w] \in {"fail", "report"}
    /\ Handled(w, "unlock")
    /\ Spend("database")
    /\ UNCHANGED <<fileVars, dataVars, jobs, lock>>

(* Slip: the retry is recorded but not published. *)
RequeueForgotten(w) ==
    /\ Step(w, "requeue", "unlock")
    /\ UNCHANGED storeVars

Requeue(w) ==
    /\ pc[w] = "requeue"
    /\ queue' = queue \cup {Retried(w)}
    /\ Goto(w, "unlock")
    /\ UNCHANGED <<storeVars, msg, todo, exc, dispatch>>

RequeueLost(w) ==
    /\ Step(w, "requeue", "unlock")
    /\ Spend("loss")
    /\ UNCHANGED <<fileVars, dataVars, jobs, lock>>

Reset(w) ==
    /\ Goto(w, "idle")
    /\ msg' = [msg EXCEPT ![w] = NoMessage]
    /\ todo' = [todo EXCEPT ![w] = {}]
    /\ exc' = [exc EXCEPT ![w] = "none"]

(* Slip: the lock is deleted whoever owns it. *)
UnlockAny(w) ==
    /\ pc[w] = "unlock"
    /\ lock' = Free
    /\ Reset(w)
    /\ UNCHANGED <<fileVars, dataVars, jobs, faults, brokerVars>>

(* The finally block releases the lock only when it is still ours; then     *)
(* Celery acknowledges the message.                                         *)
Unlock(w) ==
    /\ pc[w] = "unlock"
    /\ lock' = IF LeaseHeld(w) THEN Free ELSE lock
    /\ Reset(w)
    /\ UNCHANGED <<fileVars, dataVars, jobs, faults, brokerVars>>

(* Slip: messages are acknowledged when they are taken. *)
CrashAckedEarly(w) ==
    /\ pc[w] # "idle"
    /\ Spend("crash")
    /\ lock' = IF LeaseHeld(w) THEN Orphan ELSE lock
    /\ Reset(w)
    /\ UNCHANGED <<fileVars, dataVars, jobs, brokerVars>>

(* acks_late and reject_on_worker_lost: the message returns to the queue;   *)
(* the lock stays in Redis until its TTL.                                   *)
Crash(w) ==
    /\ pc[w] # "idle"
    /\ Spend("crash")
    /\ queue' = queue \cup {msg[w]}
    /\ lock' = IF LeaseHeld(w) THEN Orphan ELSE lock
    /\ Reset(w)
    /\ UNCHANGED <<fileVars, dataVars, jobs, dispatch>>

(* The visibility timeout (3600 s) passes while the worker is still at it. *)
Redeliver(w) ==
    /\ pc[w] # "idle"
    /\ msg[w] \notin queue
    /\ Spend("redeliver")
    /\ queue' = queue \cup {msg[w]}
    /\ UNCHANGED <<fileVars, dataVars, jobs, lock, dispatch, workerVars>>

(* The TTL of a crashed holder's lock passes. *)
OrphanExpires ==
    /\ ReleaseOrphan
    /\ UNCHANGED ingestionVars

(* A living holder misses its TTL. *)
Lapse ==
    /\ lock \in Workers
    /\ Spend("lapse")
    /\ lock' = Free
    /\ UNCHANGED <<fileVars, dataVars, jobs, ingestionVars>>

-----------------------------------------------------------------------------
ApiStep ==
    \/ Enqueue
    \/ \E g \in Gens : Publish(g) \/ PublishRaises(g) \/ Recheck(g)

User == Upload \/ Reparse \/ Delete \/ \E g \in Gens : Revoke(g)

WorkerStep(w) ==
    \/ Receive(w) \/ Admit(w) \/ Acquire(w) \/ Contend(w) \/ LoadTask(w)
    \/ Check(w) \/ Load(w) \/ Parse(w) \/ Slice(w) \/ Persist(w) \/ Prepare(w)
    \/ Scan(w) \/ Scanned(w) \/ Counted(w) \/ Embed(w) \/ Embedded(w)
    \/ Index(w) \/ Upsert(w) \/ Upserted(w)
    \/ Confirm(w) \/ Confirmed(w) \/ Finish(w)
    \/ Abandon(w) \/ LeaseGone(w) \/ CallFails(w)
    \/ Diagnose(w) \/ Fail(w) \/ FailStale(w) \/ Requeue(w) \/ Unlock(w)

WorkerFault(w) ==
    \/ Crash(w) \/ Redeliver(w)
    \/ ContendLost(w) \/ RequeueLost(w) \/ FailUnrecorded(w)

IngestionNext ==
    \/ User
    \/ ApiStep
    \/ \E g \in Gens : ApiCrash(g)
    \/ \E w \in Workers : WorkerStep(w) \/ WorkerFault(w)
    \/ OrphanExpires
    \/ Lapse

ingestVars == <<storeVars, ingestionVars>>

IngestionSpec == IngestionInit /\ [][IngestionNext]_ingestVars

(* API requests and workers run on; the broker delivers; TTLs expire. What  *)
(* users ask for, and faults, need not happen.                              *)
Fairness ==
    /\ WF_ingestVars(ApiStep)
    /\ \A w \in Workers : WF_ingestVars(WorkerStep(w))
    /\ WF_ingestVars(OrphanExpires)

FairIngestionSpec == IngestionSpec /\ Fairness

-----------------------------------------------------------------------------
(* Properties *)

(* Only the document's current generation can be queued or running, and    *)
(* nothing is once the file is deleted: the guard of enqueue_document,      *)
(* cancel_for_file and _current together never let an older task revive.    *)
OneActive == \A g \in Gens : Active(g) => Current(g)

(* The status the file list shows is the status of the current task, though *)
(* API and workers update the two rows in six places, unless the last of    *)
(* them decided on a status that was another's by the time it had the lock. *)
(* The damage of such a write is over with the next one, whoever writes.    *)
StatusAgrees ==
    (~torn /\ ~deleted /\ metaTask # 0) =>
       /\ docStatus = "DONE" => task[version].status = "SUCCESS"
       /\ docStatus = "FAILED" => task[version].status = "FAILED"
       /\ docStatus \in {"PENDING", "PARSING"} => Active(version)

(* A document shown as done can be searched completely: every chunk row of  *)
(* its current generation has its point in Qdrant.                          *)
Searchable ==
    (docStatus = "DONE" /\ ~deleted) =>
       /\ rows[version] = Chunks
       /\ points[version] = Chunks

(* When a new generation succeeds no older one that left chunk rows is      *)
(* forgotten: its cleanup job is in the outbox.                             *)
SupersededScheduled ==
    (docStatus = "DONE" /\ ~deleted) =>
       \A g \in 1..(version - 1) : rows[g] # {} => jobs[g].status # "NONE"

(* Every point can be found again from a chunk row: cleanup looks for       *)
(* points only there, so a point without its row would stay in Qdrant.      *)
PointsTraceable == \A g \in Gens : points[g] \subseteq rows[g]

(* Steps in which a worker writes chunk rows or points. *)
Indexing(w) == pc[w] \in Steps \ {"idle", "received", "admitted", "fail",
                                  "report", "requeue", "unlock"}

(* At most one worker is past the lock and before its handler, whatever     *)
(* duplicates, retries and crashes did: as long as no live lease runs out.  *)
OneWriter ==
    "lapse" \notin faults =>
       \A v, w \in Workers : Indexing(v) /\ Indexing(w) => v = w

(* An active task is somebody's business: a message for it is queued, a     *)
(* worker still has to report on it, or the API is publishing it.           *)
Responsible(w, g) ==
    msg[w].gen = g /\ pc[w] \notin {"idle", "unlock"}

Accounted == faults \cap {"apiCrash", "loss", "database"} = {}

ActiveOwned ==
    Accounted =>
    \A g \in Gens : Active(g) =>
       \/ \E m \in queue : m.gen = g
       \/ \E w \in Workers : Responsible(w, g)
       \/ dispatch[g] \in {"publishing", "unsure"}

(* Once a generation is superseded or its file is deleted, no late worker   *)
(* or API handler writes to its task, its chunk rows or the file again.     *)
StaleFrozen ==
    [][\A g \in Gens : (g <= version /\ ~Current(g) /\ metaTask # 0) =>
          /\ task'[g] = task[g]
          /\ rows'[g] = rows[g]
          /\ deleted => docStatus' = docStatus]_ingestVars

(* Every accepted document is eventually indexed, failed or superseded, and *)
(* can then be parsed again: no task stays PENDING or PROCESSING for ever.  *)
Settles == \A g \in Gens : Active(g) ~> ~Active(g)



=============================================================================
