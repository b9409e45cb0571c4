--------------------------- MODULE DocumentStore ---------------------------
(***************************************************************************)
(* The durable state of one document, shared by the API processes, the     *)
(* Celery workers that index it and the workers that clean it up: the file *)
(* row and its ingestion tasks (MySQL), the chunk rows of each generation  *)
(* (MySQL), the points of each generation (Qdrant), the original object    *)
(* (MinIO), the cleanup jobs (MySQL) and the per-document Redis lock.      *)
(*                                                                         *)
(* Every transaction of the code locks the file row first (or one cleanup  *)
(* job row) and every lock key contains one file id, so documents do not   *)
(* interact and one document is modelled.                                  *)
(*                                                                         *)
(* Exactly one ingestion task is created per generation and its id is      *)
(* stored in the file's meta, so a task is identified with its generation. *)
(***************************************************************************)
EXTENDS Integers, FiniteSets

CONSTANTS
    MaxVersion,    \* bound on the generations a document goes through
    Chunks,        \* the chunks a parse of the document produces
    Collections,   \* Qdrant collections
    CollectionOf,  \* the collection each generation's vectors are written to
    Workers,       \* Celery worker processes running ingestion tasks
    Cleaners,      \* Celery worker processes running cleanup tasks
    Free,          \* value of the lock when nobody holds it
    Orphan,        \* value of the lock while it is held by a crashed process
    Faults,        \* the kinds of fault that may happen
    MaxFaults      \* bound on the faults of one behaviour

(* crash: a worker process dies; redeliver: the visibility timeout returns a   *)
(* message that is still being worked on; lapse: a living holder outlives its *)
(* Redis lease; apiCrash: an API process dies inside enqueue_document; loss:  *)
(* the broker refuses a retry; database: MySQL is gone when a failure is      *)
(* being recorded.                                                            *)
FaultKinds == {"crash", "redeliver", "lapse", "apiCrash", "loss", "database"}

Gens == 1..MaxVersion
JobIds == 0..MaxVersion
Processes == Workers \cup Cleaners

ASSUME BoundsAssumption ==
    /\ MaxVersion \in Nat \ {0}
    /\ MaxFaults \in Nat
    /\ Faults \subseteq FaultKinds

ASSUME DataAssumption ==
    /\ Chunks # {}
    /\ CollectionOf \in [Gens -> Collections]

ASSUME ProcessAssumption ==
    /\ Workers \cap Cleaners = {}
    /\ Free \notin Processes
    /\ Orphan \notin Processes
    /\ Free # Orphan

VARIABLES
    version,    \* file_metadata.version; 0 before the upload commits
    deleted,    \* file_metadata.deleted_at is set
    docStatus,  \* file_metadata.status
    metaTask,   \* file_metadata.meta["task_id"], as a generation; 0 for none
    task,       \* the ingestion task of each generation
    torn,       \* the last transaction on file and task rows knew an old status
    rows,       \* chunk rows in rag_chunk, per generation
    points,     \* points in Qdrant, per generation
    raw,        \* the original object is in MinIO
    jobs,       \* resource_cleanup rows: 0 deleted_file, g superseded_generation
    lock,       \* Redis key <prefix>:ingest:document:<id>
    faults      \* the kinds of fault that have happened

fileVars == <<version, deleted, docStatus, metaTask, task, torn>>
dataVars == <<rows, points, raw>>
storeVars == <<version, deleted, docStatus, metaTask, task, torn, rows, points,
               raw, jobs, lock, faults>>

-----------------------------------------------------------------------------
TaskStatus == {"NONE", "PENDING", "PROCESSING", "SUCCESS", "FAILED"}
(* sub_status: REPORTED stands for the stages of a worker, from PARSING to    *)
(* COMPLETED, for RETRYING and for DISPATCH_FAILED, which nothing tells apart. *)
TaskStage == {"QUEUED", "REPORTED", "CANCELLED"}
Task == [status : TaskStatus, stage : TaskStage]

DocStatus == {"PENDING", "PARSING", "DONE", "FAILED"}

JobStatus == {"NONE", "PENDING", "PROCESSING", "SUCCESS", "FAILED"}
TargetStatus == {"PENDING", "SUCCESS", "SKIPPED"}

(* status, target_results (raw, vectors, collections), retry_count; delayed: *)
(* next_attempt_at is in the future; owner: lease_token; live: the lease has *)
(* not expired.                                                              *)
Job == [status : JobStatus, raw : TargetStatus, vectors : TargetStatus,
        done : SUBSET Collections, retries : Nat, delayed : BOOLEAN,
        owner : {Free} \cup Cleaners, live : BOOLEAN]

NoTask == [status |-> "NONE", stage |-> "QUEUED"]

(* new_job: only the deletion of the whole file has an original to remove. *)
NewJob(j) ==
    [status |-> "PENDING", raw |-> IF j = 0 THEN "PENDING" ELSE "SKIPPED",
     vectors |-> "PENDING", done |-> {}, retries |-> 0, delayed |-> FALSE,
     owner |-> Free, live |-> FALSE]

NoJob(j) == [NewJob(j) EXCEPT !.status = "NONE"]

StoreTypeOK ==
    /\ version \in 0..MaxVersion
    /\ deleted \in BOOLEAN
    /\ docStatus \in DocStatus
    /\ metaTask \in 0..MaxVersion
    /\ task \in [Gens -> Task]
    /\ torn \in BOOLEAN
    /\ rows \in [Gens -> SUBSET Chunks]
    /\ points \in [Gens -> SUBSET Chunks]
    /\ raw \in BOOLEAN
    /\ jobs \in [JobIds -> Job]
    /\ lock \in Processes \cup {Free, Orphan}
    /\ faults \subseteq FaultKinds

StoreInit ==
    /\ version = 0
    /\ deleted = FALSE
    /\ docStatus = "PENDING"
    /\ metaTask = 0
    /\ task = [g \in Gens |-> NoTask]
    /\ torn = FALSE
    /\ rows = [g \in Gens |-> {}]
    /\ points = [g \in Gens |-> {}]
    /\ raw = FALSE
    /\ jobs = [j \in JobIds |-> NoJob(j)]
    /\ lock = Free
    /\ faults = {}

-----------------------------------------------------------------------------
(* A fault of kind f happens, at most once each and MaxFaults in all. *)
Spend(f) ==
    /\ f \in Faults \ faults
    /\ Cardinality(faults) < MaxFaults
    /\ faults' = faults \cup {f}

(* Slips: the generation, or the deletion, is not compared. *)
CurrentAnyGeneration(g) == ~deleted

CurrentThoughDeleted(g) == version = g /\ metaTask = g

(* The generation check of _current, under the lock of the file row. *)
Current(g) ==
    /\ ~deleted
    /\ version = g
    /\ metaTask = g

(* TaskRepository.active: the task still occupies the document. *)
Active(g) == task[g].status \in {"PENDING", "PROCESSING"}

(* The API writes a task it created, or read under the lock of the file row. *)
SetTask(g, status, stage) ==
    /\ task' = [task EXCEPT ![g] = [status |-> status, stage |-> stage]]
    /\ torn' = FALSE

(* cancel_for_file: every active task of the file, whatever its generation. *)
CancelTasks ==
    task' = [g \in Gens |->
               IF Active(g) THEN [status |-> "FAILED", stage |-> "CANCELLED"]
                            ELSE task[g]]

(* Slip: no job is written. *)
DeletionUnscheduled == UNCHANGED jobs

(* for_deleted_file: one deleted_file job per document. *)
ScheduleDeletion ==
    jobs' = [jobs EXCEPT ![0] = IF @.status = "NONE" THEN NewJob(0) ELSE @]

(* Slip: only generations that reached Qdrant are cleaned. *)
ScheduleIndexedOnly ==
    jobs' = [j \in JobIds |->
               IF j \in 1..(version - 1) /\ points[j] # {} /\ jobs[j].status = "NONE"
               THEN NewJob(j) ELSE jobs[j]]

(* schedule_superseded: older generations that left chunk rows and have no   *)
(* job yet, in the transaction that makes the current generation a success. *)
ScheduleSuperseded ==
    jobs' = [j \in JobIds |->
               IF /\ j \in 1..(version - 1)
                  /\ rows[j] # {}
                  /\ jobs[j].status = "NONE"
               THEN NewJob(j) ELSE jobs[j]]

(* The TTL of a lock whose holder crashed. *)
ReleaseOrphan ==
    /\ lock = Orphan
    /\ lock' = Free
    /\ UNCHANGED <<fileVars, dataVars, jobs, faults>>

(* prepare_deletion, committed by its caller in one transaction. *)
PrepareDeletion ==
    /\ ~deleted
    /\ deleted' = TRUE
    /\ CancelTasks
    /\ ScheduleDeletion
    /\ UNCHANGED <<version, docStatus, metaTask, torn, dataVars, lock, faults>>

-----------------------------------------------------------------------------
(* What load_scoped_chunks lets a question see of the document: nothing      *)
(* unless it is done, and then the chunk rows of its current generation, of *)
(* which the vector search finds those that have a point.  Whether an       *)
(* attempt is under way is for the task to say, as in enqueue_document: the *)
(* status shown may be that of an attempt that has failed (StatusAgrees).   *)
Phase ==
    IF deleted THEN "deleted"
    ELSE IF version = 0 THEN "absent"
    ELSE IF docStatus = "DONE" THEN "served"
    ELSE IF metaTask = 0 \/ Active(version) THEN "pending"
    ELSE "failed"

Found ==
    IF deleted \/ version = 0 THEN {} ELSE rows[version] \cap points[version]

Promise ==
    INSTANCE DocumentIndex
    WITH Passages <- Chunks, edition <- version, phase <- Phase,
         found <- Found, original <- raw /\ ~deleted

(* The document keeps the promise of DocumentIndex: it is answered from as a *)
(* whole or not at all, no passage of its current generation ever gets lost, *)
(* it is indexed again only after its last attempt, and a deletion is final. *)
KeepsPromise == Promise!IndexSpec

=============================================================================
