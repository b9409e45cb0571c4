-------------------------- MODULE IngestionProofs --------------------------
(***************************************************************************)
(* Proofs about Ingestion for any number of generations, chunks, workers,  *)
(* retries and faults.                                                     *)
(***************************************************************************)
EXTENDS Ingestion, TLAPS

(* A task waiting to be published again has a retry left. *)
RetryLeft ==
    \A w \in Workers : pc[w] = "requeue" => msg[w].retries < MaxRetries

TypeInv == IngestionTypeOK /\ RetryLeft

-----------------------------------------------------------------------------
(* A worker that is not idle holds a message of some generation. *)
LEMMA BusyMessage ==
    ASSUME TypeInv, NEW w \in Workers, pc[w] # "idle"
    PROVE  /\ msg[w] \in Message
           /\ msg[w].gen \in Gens
           /\ msg[w].retries \in 0..MaxRetries
           /\ msg[w] # NoMessage
  BY DEF TypeInv, IngestionTypeOK, Message

(* The value a worker holds between messages is not a message. *)
LEMMA NoMessageIsNone == NoMessage \notin Message
  BY DEF NoMessage, Message, Gens

(* New and absent cleanup jobs are jobs. *)
LEMMA JobTypes == \A j \in JobIds : NewJob(j) \in Job /\ NoJob(j) \in Job
  <1> SUFFICES ASSUME NEW j \in JobIds PROVE NewJob(j) \in Job /\ NoJob(j) \in Job
    OBVIOUS
  <1>1. NewJob(j) \in Job
    BY DEF NewJob, Job, JobStatus, TargetStatus
  <1>2. NoJob(j) \in Job
    BY <1>1 DEF NoJob, Job, JobStatus
  <1> QED BY <1>1, <1>2

(* The types of what a worker has read from the task. *)
LocalsTypeOK ==
    /\ read \in [Workers -> Task]
    /\ failedStage \in [Workers -> TaskStage]

(* The types of the variables of the API, the broker and the workers. *)
ProcessTypeOK ==
    /\ LocalsTypeOK
    /\ dispatch \in [Gens -> DispatchState]
    /\ queue \subseteq Message
    /\ pc \in [Workers -> Steps]
    /\ msg \in [Workers -> Message \cup {NoMessage}]
    /\ todo \in [Workers -> SUBSET Chunks]
    /\ exc \in [Workers -> {"none", "transient", "permanent"}]
    /\ \A w \in Workers : pc[w] = "idle" <=> msg[w] = NoMessage

(* The type invariant is the types of the store and of the processes. *)
LEMMA TypeParts == IngestionTypeOK <=> StoreTypeOK /\ ProcessTypeOK
  BY DEF IngestionTypeOK, ProcessTypeOK, LocalsTypeOK

(* The three parts give TypeInv in the next state. *)
LEMMA TypeJoin == (StoreTypeOK' /\ ProcessTypeOK' /\ RetryLeft') => TypeInv'
  BY DEF TypeInv, IngestionTypeOK, ProcessTypeOK, LocalsTypeOK

(* What a worker has read when it has read nothing is well typed. *)
LEMMA UnreadType == Unread \in Task /\ "QUEUED" \in TaskStage
  BY DEF Unread, NoTask, Task, TaskStatus, TaskStage

(* Init establishes the types. *)
LEMMA TypeInit == IngestionInit => TypeInv
  <1> SUFFICES ASSUME IngestionInit PROVE TypeInv
    OBVIOUS
  <1>1. StoreTypeOK
    <2>1. NoTask \in Task
      BY DEF NoTask, Task, TaskStatus, TaskStage
    <2>2. task \in [Gens -> Task]
      BY <2>1 DEF IngestionInit, StoreInit
    <2>3. jobs \in [JobIds -> Job]
      BY JobTypes DEF IngestionInit, StoreInit
    <2>4. version \in 0..MaxVersion /\ metaTask \in 0..MaxVersion
      BY BoundsAssumption DEF IngestionInit, StoreInit
    <2>5. deleted \in BOOLEAN /\ docStatus \in DocStatus /\ raw \in BOOLEAN /\ torn \in BOOLEAN
      BY DEF IngestionInit, StoreInit, DocStatus
    <2>6. rows \in [Gens -> SUBSET Chunks] /\ points \in [Gens -> SUBSET Chunks]
      BY DEF IngestionInit, StoreInit
    <2>7. lock \in Processes \cup {Free, Orphan} /\ faults \subseteq FaultKinds
      BY DEF IngestionInit, StoreInit
    <2> QED BY <2>2, <2>3, <2>4, <2>5, <2>6, <2>7 DEF StoreTypeOK
  <1>2. RetryLeft
    BY DEF IngestionInit, WorkersInit, RetryLeft
  <1>3. ProcessTypeOK
    BY UnreadType DEF IngestionInit, WorkersInit, ProcessTypeOK, LocalsTypeOK, DispatchState, Steps
  <1> QED BY <1>1, <1>2, <1>3, TypeParts DEF TypeInv

-----------------------------------------------------------------------------
(* Frames: what the recurring parts of the actions preserve. *)

(* A step that leaves the store alone keeps its types. *)
LEMMA StoreFrame == StoreTypeOK /\ UNCHANGED storeVars => StoreTypeOK'
  BY DEF StoreTypeOK, storeVars

(* Writing one task row keeps the task table well formed. *)
LEMMA SetTaskType ==
    ASSUME task \in [Gens -> Task], NEW g \in Gens,
           NEW status \in TaskStatus, NEW stage \in TaskStage,
           SetTask(g, status, stage)
    PROVE  task' \in [Gens -> Task] /\ torn' = FALSE
  BY DEF SetTask, Task

(* What a commit leaves in a task is a task. *)
LEMMA WrittenType ==
    ASSUME NEW old \in Task, NEW loaded \in Task,
           NEW status \in TaskStatus, NEW stage \in TaskStage,
           NEW row \in Written(old, [status |-> status, stage |-> stage], loaded)
    PROVE  /\ row \in Task
           /\ row.status = IF status = loaded.status THEN old.status ELSE status
  BY DEF Written, Task

(* Recording a fault keeps the set of faults well formed. *)
LEMMA SpendType == \A f : faults \subseteq FaultKinds /\ Spend(f) => faults' \subseteq FaultKinds
  BY BoundsAssumption DEF Spend

(* A busy worker moves on and keeps its message. *)
LEMMA MoveType ==
    ASSUME TypeInv, NEW w \in Workers, NEW to \in Steps \ {"idle"},
           pc[w] # "idle", Goto(w, to), UNCHANGED msg,
           to = "requeue" => msg[w].retries < MaxRetries
    PROVE  /\ pc' \in [Workers -> Steps]
           /\ LocalsTypeOK'
           /\ \A v \in Workers : pc'[v] = "idle" <=> msg'[v] = NoMessage
           /\ RetryLeft'
  <1>1. LocalsTypeOK'
    BY UnreadType DEF TypeInv, IngestionTypeOK, Goto, LocalsTypeOK
  <1> QED BY <1>1 DEF TypeInv, IngestionTypeOK, Goto, RetryLeft

(* A plain move of a worker (Step) keeps the process types. *)
LEMMA StepType ==
    ASSUME TypeInv, NEW w \in Workers,
           NEW from \in Steps \ {"idle"}, NEW to \in Steps \ {"idle", "requeue"},
           Step(w, from, to)
    PROVE  ProcessTypeOK' /\ RetryLeft'
  <1>1. /\ pc' \in [Workers -> Steps]
        /\ LocalsTypeOK'
        /\ \A v \in Workers : pc'[v] = "idle" <=> msg'[v] = NoMessage
        /\ RetryLeft'
    BY MoveType DEF Step
  <1> QED BY <1>1, TypeParts DEF TypeInv, ProcessTypeOK, Step, brokerVars

(* An exception: the worker unwinds to its handler or its finally block. *)
LEMMA UnwindType ==
    ASSUME TypeInv, NEW w \in Workers, pc[w] # "idle",
           NEW to \in {"fail", "unlock"}, Unwind(w, to), UNCHANGED msg
    PROVE  /\ pc' \in [Workers -> Steps]
           /\ LocalsTypeOK'
           /\ todo' \in [Workers -> SUBSET Chunks]
           /\ \A v \in Workers : pc'[v] = "idle" <=> msg'[v] = NoMessage
           /\ RetryLeft'
  <1>1. to \in Steps \ {"idle"} /\ to # "requeue"
    BY DEF Steps
  <1>2. /\ pc' \in [Workers -> Steps]
        /\ LocalsTypeOK'
        /\ \A v \in Workers : pc'[v] = "idle" <=> msg'[v] = NoMessage
        /\ RetryLeft'
    BY <1>1, MoveType DEF Unwind
  <1>3. todo' \in [Workers -> SUBSET Chunks]
    BY DEF TypeInv, IngestionTypeOK, Unwind
  <1> QED BY <1>2, <1>3

(* Raising an exception keeps the process types. *)
LEMMA RaiseType ==
    ASSUME TypeInv, NEW w \in Workers, pc[w] # "idle",
           NEW kind \in {"transient", "permanent"}, Raise(w, kind),
           UNCHANGED <<msg, brokerVars>>
    PROVE  ProcessTypeOK' /\ RetryLeft'
  <1>1. /\ pc' \in [Workers -> Steps]
        /\ LocalsTypeOK'
        /\ todo' \in [Workers -> SUBSET Chunks]
        /\ \A v \in Workers : pc'[v] = "idle" <=> msg'[v] = NoMessage
        /\ RetryLeft'
    BY UnwindType DEF Raise
  <1>2. exc' \in [Workers -> {"none", "transient", "permanent"}]
    BY DEF TypeInv, IngestionTypeOK, Raise
  <1> QED BY <1>1, <1>2, TypeParts DEF TypeInv, ProcessTypeOK, brokerVars

(* A message is given back or acknowledged: the worker is idle again. *)
LEMMA ResetType ==
    ASSUME TypeInv, NEW w \in Workers, Reset(w)
    PROVE  /\ pc' \in [Workers -> Steps]
           /\ LocalsTypeOK'
           /\ msg' \in [Workers -> Message \cup {NoMessage}]
           /\ todo' \in [Workers -> SUBSET Chunks]
           /\ exc' \in [Workers -> {"none", "transient", "permanent"}]
           /\ \A v \in Workers : pc'[v] = "idle" <=> msg'[v] = NoMessage
           /\ RetryLeft'
  <1>1. "idle" \in Steps
    BY DEF Steps
  <1>2. pc' = [pc EXCEPT ![w] = "idle"] /\ msg' = [msg EXCEPT ![w] = NoMessage]
    BY DEF Reset, Goto
  <1>3. RetryLeft'
    BY <1>2 DEF TypeInv, RetryLeft, IngestionTypeOK
  <1>4. \A v \in Workers : pc'[v] = "idle" <=> msg'[v] = NoMessage
    BY <1>2 DEF TypeInv, IngestionTypeOK
  <1>5. LocalsTypeOK'
    BY UnreadType DEF TypeInv, IngestionTypeOK, Reset, Goto, LocalsTypeOK
  <1> QED BY <1>1, <1>2, <1>3, <1>4, <1>5 DEF TypeInv, IngestionTypeOK, Reset

(* The message a retry publishes is well formed. *)
LEMMA RetriedType ==
    ASSUME TypeInv, NEW w \in Workers, pc[w] # "idle", msg[w].retries < MaxRetries
    PROVE  Retried(w) \in Message
  BY BusyMessage, RetryAssumption DEF Retried, Message

-----------------------------------------------------------------------------
(* Type correctness, action by action: first the API. *)

(* The API's requests and handlers keep the types. *)
LEMMA TypeApi ==
    ASSUME TypeInv, \/ ApiStep
                    \/ User
                    \/ \E g \in Gens : ApiCrash(g)
    PROVE  TypeInv'
  <1> USE TypeParts, TypeJoin DEF TypeInv
  <1>1. CASE Upload
    <2>1. StoreTypeOK'
      BY <1>1, BoundsAssumption DEF Upload, StoreTypeOK
    <2>2. ProcessTypeOK' /\ RetryLeft'
      BY <1>1 DEF Upload, ingestionVars, ProcessTypeOK, LocalsTypeOK, RetryLeft
    <2> QED BY <2>1, <2>2
  <1>2. ASSUME NEW g \in Gens, CreateTask(g) PROVE TypeInv'
    <2>1. task' \in [Gens -> Task]
      BY <1>2, SetTaskType DEF CreateTask, StoreTypeOK, TaskStatus, TaskStage
    <2>2. torn' \in BOOLEAN
      BY <1>2 DEF CreateTask, SetTask
    <2>3. StoreTypeOK'
      BY <1>2, <2>1, <2>2, BoundsAssumption DEF CreateTask, StoreTypeOK, Gens, DocStatus, dataVars
    <2>4. ProcessTypeOK' /\ RetryLeft'
      BY <1>2 DEF CreateTask, ProcessTypeOK, LocalsTypeOK, RetryLeft, DispatchState, workerVars
    <2> QED BY <2>3, <2>4
  <1>3. CASE Enqueue
    BY <1>2, <1>3, BoundsAssumption DEF Enqueue, Gens
  <1>4. CASE Reparse
    <2>1. version + 1 \in Gens
      BY <1>4, BoundsAssumption DEF Reparse, Gens, StoreTypeOK
    <2> QED BY <1>2, <1>4, <2>1 DEF Reparse
  <1>5. ASSUME NEW g \in Gens PROVE [gen |-> g, retries |-> 0] \in Message
    BY RetryAssumption DEF Message
  <1>6. ASSUME NEW g \in Gens, Publish(g) \/ PublishRaises(g) PROVE TypeInv'
    <2>1. StoreTypeOK'
      BY <1>6, StoreFrame DEF Publish, PublishRaises
    <2>2. ProcessTypeOK' /\ RetryLeft'
      BY <1>5, <1>6 DEF Publish, PublishRaises, ProcessTypeOK, LocalsTypeOK, RetryLeft, DispatchState, workerVars
    <2> QED BY <2>1, <2>2
  <1>7. ASSUME NEW g \in Gens, Recheck(g) PROVE TypeInv'
    <2>1. task' \in [Gens -> Task]
      BY <1>7, SetTaskType DEF Recheck, StoreTypeOK, TaskStatus, TaskStage
    <2>2. torn' \in BOOLEAN
      BY <1>7 DEF Recheck, SetTask, StoreTypeOK
    <2>3. StoreTypeOK'
      BY <1>7, <2>1, <2>2 DEF Recheck, StoreTypeOK, DocStatus, dataVars
    <2>4. ProcessTypeOK' /\ RetryLeft'
      BY <1>7 DEF Recheck, ProcessTypeOK, LocalsTypeOK, RetryLeft, DispatchState, workerVars
    <2> QED BY <2>3, <2>4
  <1>8. ASSUME NEW g \in Gens, ApiCrash(g) PROVE TypeInv'
    <2>1. StoreTypeOK'
      BY <1>8, SpendType DEF ApiCrash, StoreTypeOK, fileVars, dataVars
    <2>2. ProcessTypeOK' /\ RetryLeft'
      BY <1>8 DEF ApiCrash, ProcessTypeOK, LocalsTypeOK, RetryLeft, DispatchState, workerVars
    <2> QED BY <2>1, <2>2
  <1>9. CASE Delete
    <2>1. task' \in [Gens -> Task]
      BY <1>9 DEF Delete, PrepareDeletion, CancelTasks, StoreTypeOK, Task, TaskStatus, TaskStage
    <2>2. jobs' \in [JobIds -> Job]
      <3>1. 0 \in JobIds
        BY BoundsAssumption DEF JobIds
      <3> QED BY <1>9, <3>1, JobTypes DEF Delete, PrepareDeletion, ScheduleDeletion, StoreTypeOK
    <2>3. StoreTypeOK'
      BY <1>9, <2>1, <2>2 DEF Delete, PrepareDeletion, StoreTypeOK, dataVars
    <2>4. ProcessTypeOK' /\ RetryLeft'
      BY <1>9 DEF Delete, ingestionVars, ProcessTypeOK, LocalsTypeOK, RetryLeft
    <2> QED BY <2>3, <2>4
  <1>10. ASSUME NEW g \in Gens, Revoke(g) PROVE TypeInv'
    <2>1. StoreTypeOK'
      BY <1>10, StoreFrame DEF Revoke
    <2>2. ProcessTypeOK' /\ RetryLeft'
      BY <1>10 DEF Revoke, ProcessTypeOK, LocalsTypeOK, RetryLeft, workerVars
    <2> QED BY <2>1, <2>2
  <1> QED BY <1>1, <1>3, <1>4, <1>6, <1>7, <1>8, <1>9, <1>10 DEF ApiStep, User

(* The lock is taken, given up or orphaned; nothing else of the store. *)
LEMMA LockType ==
    ASSUME StoreTypeOK, lock' \in Processes \cup {Free, Orphan},
           faults' \subseteq FaultKinds, UNCHANGED <<fileVars, dataVars, jobs>>
    PROVE  StoreTypeOK'
  BY DEF StoreTypeOK, fileVars, dataVars

(* A report on the task keeps the store's types. *)
LEMMA ReportType ==
    ASSUME TypeInv, NEW w \in Workers, pc[w] # "idle",
           NEW status \in TaskStatus, NEW stage \in TaskStage, Report(w, status, stage),
           jobs' \in [JobIds -> Job]
    PROVE  StoreTypeOK'
  <1>1. msg[w].gen \in Gens
    BY BusyMessage
  <1>2. PICK row \in Written(task[msg[w].gen], [status |-> status, stage |-> stage], read[w]) :
          task' = [task EXCEPT ![msg[w].gen] = row]
    BY DEF Report, Gen
  <1>3. task[msg[w].gen] \in Task /\ read[w] \in Task
    BY <1>1 DEF TypeInv, IngestionTypeOK, StoreTypeOK
  <1>4. row \in Task
    BY <1>3, WrittenType
  <1>5. task' \in [Gens -> Task]
    BY <1>2, <1>4 DEF TypeInv, IngestionTypeOK, StoreTypeOK
  <1>6. docStatus' \in DocStatus /\ torn' \in BOOLEAN
    BY DEF Report, FileStatus, DocStatus
  <1> QED BY <1>5, <1>6 DEF Report, TypeInv, IngestionTypeOK, StoreTypeOK, dataVars

(* Steps that only look at the file row, and steps that report progress. *)
LEMMA TypeChecks ==
    ASSUME TypeInv, NEW w \in Workers,
           \/ Admit(w) \/ Check(w) \/ Load(w) \/ Scan(w) \/ Confirm(w)
    PROVE  TypeInv'
  <1>1. StoreTypeOK'
    BY StoreFrame DEF Admit, Check, Load, Scan, Confirm, TypeInv, IngestionTypeOK
  <1>2. ProcessTypeOK' /\ RetryLeft'
    <2> DEFINE Busy == Steps \ {"idle"}
               Plain == Steps \ {"idle", "requeue"}
    <2>1. ASSUME NEW from \in Busy, NEW to \in Plain, Step(w, from, to)
          PROVE  ProcessTypeOK' /\ RetryLeft'
      BY <2>1, StepType
    <2>2. /\ {"received", "check", "load", "scan", "confirm"} \subseteq Busy
          /\ {"admitted", "unlock", "load", "prepare", "parse", "scanned", "confirming"} \subseteq Plain
      BY DEF Steps, CallSteps, CheckSteps
    <2> HIDE DEF Busy, Plain
    <2>3. CASE Admit(w)
      BY <2>1, <2>2, <2>3 DEF Admit
    <2>4. CASE Check(w)
      BY <2>1, <2>2, <2>4 DEF Check
    <2>5. CASE Load(w)
      BY <2>1, <2>2, <2>5 DEF Load
    <2>6. CASE Scan(w)
      BY <2>1, <2>2, <2>6 DEF Scan
    <2>7. CASE Confirm(w)
      BY <2>1, <2>2, <2>7 DEF Confirm
    <2> QED BY <2>3, <2>4, <2>5, <2>6, <2>7
  <1> QED BY <1>1, <1>2, TypeJoin

(* Steps that report progress keep the types. *)
LEMMA TypeProgress ==
    ASSUME TypeInv, NEW w \in Workers,
           \/ Parse(w) \/ Slice(w) \/ Prepare(w) \/ Counted(w) \/ Embed(w)
           \/ Embedded(w) \/ Index(w) \/ Upserted(w)
    PROVE  TypeInv'
  <1> DEFINE Busy == Steps \ {"idle"}
             Plain == Steps \ {"idle", "requeue"}
  <1>1. ASSUME NEW from \in Busy, NEW to \in Plain, Step(w, from, to), Progress(w)
        PROVE  TypeInv'
    <2>1. "PROCESSING" \in TaskStatus /\ "REPORTED" \in TaskStage
      BY DEF TaskStatus, TaskStage
    <2>2. jobs' \in [JobIds -> Job]
      BY <1>1 DEF Progress, TypeInv, IngestionTypeOK, StoreTypeOK
    <2>3. StoreTypeOK'
      BY <1>1, <2>1, <2>2, ReportType DEF Step, Progress
    <2> QED BY <1>1, <2>3, StepType, TypeJoin
  <1>2. /\ {"parse", "parsing", "prepare", "counted", "embed", "embedding", "index", "upserted"} \subseteq Busy
        /\ {"parsing", "slicing", "scan", "embed", "embedding", "index", "upsert", "confirm"} \subseteq Plain
    BY DEF Steps, CallSteps, CheckSteps
  <1> HIDE DEF Busy, Plain
  <1>3. CASE Parse(w)
    BY <1>1, <1>2, <1>3 DEF Parse
  <1>4. CASE Slice(w)
    BY <1>1, <1>2, <1>4 DEF Slice
  <1>5. CASE Prepare(w)
    BY <1>1, <1>2, <1>5 DEF Prepare
  <1>6. CASE Embed(w)
    BY <1>1, <1>2, <1>6 DEF Embed
  <1>7. CASE Embedded(w)
    BY <1>1, <1>2, <1>7 DEF Embedded
  <1>8. CASE Index(w)
    BY <1>1, <1>2, <1>8 DEF Index
  <1>9. CASE Upserted(w)
    BY <1>1, <1>2, <1>9 DEF Upserted
  <1>10. CASE Counted(w)
    BY <1>1, <1>2, <1>10 DEF Counted
  <1> QED BY <1>3, <1>4, <1>5, <1>6, <1>7, <1>8, <1>9, <1>10

(* Steps that move data: chunk rows, points, and what is still to be done. *)
LEMMA TypeData ==
    ASSUME TypeInv, NEW w \in Workers,
           Persist(w) \/ Scanned(w) \/ Upsert(w) \/ Confirmed(w) \/ Finish(w)
    PROVE  TypeInv'
  <1> USE DEF TypeInv
  <1> USE TypeParts, TypeJoin
  <1>0. {"slicing", "prepare", "scanned", "counted", "confirm", "embed", "upsert", "upserted",
         "confirming", "finish", "unlock"} \subseteq Steps \ {"idle", "requeue"}
    BY DEF Steps, CallSteps, CheckSteps
  <1>1. CASE Persist(w)
    <2>1. StoreTypeOK'
      BY <1>1 DEF Persist, StoreTypeOK, fileVars, Raise
    <2>2. ProcessTypeOK' /\ RetryLeft'
      <3>1. CASE rows[Gen(w)] = {}
        BY <1>0, <1>1, <3>1, MoveType DEF Persist, ProcessTypeOK, brokerVars
      <3>2. CASE rows[Gen(w)] # {}
        BY <1>0, <1>1, <3>2, RaiseType DEF Persist
      <3> QED BY <3>1, <3>2
    <2> QED BY <2>1, <2>2
  <1>2. CASE Scanned(w)
    <2>1. StoreTypeOK'
      BY <1>2, StoreFrame DEF Scanned
    <2>2. todo' \in [Workers -> SUBSET Chunks]
      BY <1>2 DEF Scanned, ProcessTypeOK, Pending
    <2>3. ProcessTypeOK' /\ RetryLeft'
      BY <1>0, <1>2, <2>2, MoveType DEF Scanned, ProcessTypeOK, brokerVars
    <2> QED BY <2>1, <2>3
  <1>3. CASE Upsert(w)
    <2>1. PICK batch \in SUBSET todo[w] :
             /\ points' = [points EXCEPT ![Gen(w)] = @ \cup batch]
             /\ \/ /\ todo' = [todo EXCEPT ![w] = @ \ batch]
                   /\ Goto(w, "upserted")
                   /\ UNCHANGED exc
                \/ Raise(w, "transient")
      BY <1>3 DEF Upsert
    <2>2. batch \subseteq Chunks
      BY <2>1 DEF ProcessTypeOK
    <2>3. points' \in [Gens -> SUBSET Chunks]
      BY <2>1, <2>2 DEF StoreTypeOK
    <2>4. StoreTypeOK'
      BY <1>3, <2>3 DEF Upsert, StoreTypeOK, fileVars
    <2>5. ProcessTypeOK' /\ RetryLeft'
      <3>1. CASE Raise(w, "transient")
        BY <1>0, <1>3, <3>1, RaiseType DEF Upsert
      <3>2. CASE todo' = [todo EXCEPT ![w] = @ \ batch] /\ Goto(w, "upserted") /\ UNCHANGED exc
        BY <1>0, <1>3, <3>2, MoveType DEF Upsert, ProcessTypeOK, brokerVars
      <3> QED BY <2>1, <3>1, <3>2
    <2> QED BY <2>4, <2>5
  <1>4. CASE Confirmed(w)
    <2>1. StoreTypeOK'
      BY <1>4, StoreFrame DEF Confirmed
    <2>2. ProcessTypeOK' /\ RetryLeft'
      <3>1. CASE Pending(Gen(w)) = {}
        BY <1>0, <1>4, <3>1, MoveType DEF Confirmed, ProcessTypeOK, brokerVars
      <3>2. CASE Pending(Gen(w)) # {}
        BY <1>0, <1>4, <3>2, RaiseType DEF Confirmed
      <3> QED BY <3>1, <3>2
    <2> QED BY <2>1, <2>2
  <1>5. CASE Finish(w)
    <2>1. pc[w] # "idle" /\ "SUCCESS" \in TaskStatus /\ "REPORTED" \in TaskStage
      BY <1>5 DEF Finish, TaskStatus, TaskStage
    <2>2. jobs' \in [JobIds -> Job]
      BY <1>5, JobTypes DEF Finish, ScheduleSuperseded, StoreTypeOK
    <2>3. StoreTypeOK'
      BY <1>5, <2>1, <2>2, ReportType DEF Finish
    <2>4. ProcessTypeOK' /\ RetryLeft'
      <3>1. CASE Step(w, "finish", "unlock")
        BY <1>0, <3>1, StepType
      <3>2. ASSUME NEW kind \in {"transient", "permanent"}, Raise(w, kind), UNCHANGED <<msg, brokerVars>>
            PROVE  ProcessTypeOK' /\ RetryLeft'
        BY <2>1, <3>2, RaiseType
      <3> QED BY <1>5, <3>1, <3>2 DEF Finish
    <2> QED BY <2>3, <2>4
  <1> QED BY <1>1, <1>2, <1>3, <1>4, <1>5

(* Receiving, leasing and requeueing a message. *)
LEMMA TypeMessages ==
    ASSUME TypeInv, NEW w \in Workers,
           \/ Receive(w) \/ Acquire(w) \/ Contend(w) \/ ContendLost(w)
           \/ Requeue(w) \/ RequeueLost(w) \/ Redeliver(w)
    PROVE  TypeInv'
  <1> USE DEF TypeInv
  <1> USE TypeParts, TypeJoin
  <1>0. {"received", "admitted", "check", "fail", "unlock"} \subseteq Steps \ {"idle", "requeue"}
    BY DEF Steps, CallSteps, CheckSteps
  <1>1. CASE Receive(w)
    <2>1. StoreTypeOK'
      BY <1>1, StoreFrame DEF Receive
    <2>2. PICK m \in queue : msg' = [msg EXCEPT ![w] = m] /\ queue' = queue \ {m}
      BY <1>1 DEF Receive
    <2>3. m \in Message /\ m # NoMessage
      BY <2>2, NoMessageIsNone DEF ProcessTypeOK
    <2>4. \A v \in Workers : pc'[v] = "idle" <=> msg'[v] = NoMessage
      BY <1>1, <2>2, <2>3 DEF Receive, Goto, ProcessTypeOK
    <2>5. RetryLeft'
      BY <1>1, <2>2 DEF Receive, Goto, ProcessTypeOK, RetryLeft
    <2>6. ProcessTypeOK'
      BY <1>0, <1>1, <2>2, <2>3, <2>4, UnreadType DEF Receive, Goto, ProcessTypeOK, LocalsTypeOK
    <2> QED BY <2>1, <2>5, <2>6
  <1>2. CASE Acquire(w)
    <2>1. StoreTypeOK'
      BY <1>2, LockType DEF Acquire, Processes, StoreTypeOK
    <2>2. ProcessTypeOK' /\ RetryLeft'
      BY <1>0, <1>2, StepType DEF Acquire
    <2> QED BY <2>1, <2>2
  <1>3. CASE Contend(w)
    <2>1. StoreTypeOK'
      BY <1>3, StoreFrame DEF Contend
    <2>2. CASE msg[w].retries < MaxRetries
      <3>1. queue' \subseteq Message
        BY <1>3, <2>2, RetriedType DEF Contend, ProcessTypeOK
      <3>2. ProcessTypeOK' /\ RetryLeft'
        BY <1>3, <2>2, <3>1, UnwindType DEF Contend, ProcessTypeOK
      <3> QED BY <2>1, <3>2
    <2>3. CASE ~(msg[w].retries < MaxRetries)
      BY <1>3, <2>1, <2>3, RaiseType DEF Contend, brokerVars
    <2> QED BY <2>2, <2>3
  <1>4. CASE ContendLost(w)
    <2>1. StoreTypeOK'
      BY <1>4, SpendType, LockType DEF ContendLost, StoreTypeOK
    <2>2. ProcessTypeOK' /\ RetryLeft'
      BY <1>4, RaiseType DEF ContendLost
    <2> QED BY <2>1, <2>2
  <1>5. CASE Requeue(w)
    <2>1. StoreTypeOK'
      BY <1>5, StoreFrame DEF Requeue
    <2>2. Retried(w) \in Message
      BY <1>5, RetriedType DEF Requeue, RetryLeft
    <2>3. /\ pc' \in [Workers -> Steps]
          /\ LocalsTypeOK'
          /\ \A v \in Workers : pc'[v] = "idle" <=> msg'[v] = NoMessage
          /\ RetryLeft'
      BY <1>0, <1>5, MoveType DEF Requeue
    <2>4. ProcessTypeOK'
      BY <1>5, <2>2, <2>3 DEF Requeue, ProcessTypeOK
    <2> QED BY <2>1, <2>3, <2>4
  <1>6. CASE RequeueLost(w)
    <2>1. StoreTypeOK'
      BY <1>6, SpendType, LockType DEF RequeueLost, StoreTypeOK
    <2>2. "requeue" \in Steps \ {"idle"}
      BY DEF Steps
    <2>3. ProcessTypeOK' /\ RetryLeft'
      BY <1>0, <1>6, <2>2, StepType DEF RequeueLost
    <2> QED BY <2>1, <2>3
  <1>7. CASE Redeliver(w)
    <2>1. StoreTypeOK'
      BY <1>7, SpendType, LockType DEF Redeliver, StoreTypeOK
    <2>2. msg[w] \in Message
      BY <1>7, BusyMessage DEF Redeliver
    <2>3. ProcessTypeOK' /\ RetryLeft'
      BY <1>7, <2>2 DEF Redeliver, ProcessTypeOK, LocalsTypeOK, RetryLeft, workerVars
    <2> QED BY <2>1, <2>3
  <1> QED BY <1>1, <1>2, <1>3, <1>4, <1>5, <1>6, <1>7

(* Exceptions and their handler. *)
LEMMA TypeExceptions ==
    ASSUME TypeInv, NEW w \in Workers,
           \/ Abandon(w) \/ LeaseGone(w) \/ CallFails(w)
           \/ LoadTask(w) \/ Diagnose(w)
           \/ Fail(w) \/ FailStale(w) \/ FailUnrecorded(w)
    PROVE  TypeInv'
  <1> USE DEF TypeInv
  <1> USE TypeParts, TypeJoin
  <1>0. {"fail", "report", "unlock"} \subseteq Steps \ {"idle", "requeue"} /\ "requeue" \in Steps
    BY DEF Steps
  <1>1. CASE Abandon(w)
    <2>1. pc[w] # "idle"
      BY <1>1 DEF Abandon, CheckSteps
    <2>2. StoreTypeOK'
      BY <1>1, StoreFrame DEF Abandon
    <2>3. ProcessTypeOK' /\ RetryLeft'
      BY <1>1, <2>1, UnwindType DEF Abandon, ProcessTypeOK, brokerVars
    <2> QED BY <2>2, <2>3
  <1>2. CASE LeaseGone(w) \/ CallFails(w)
    <2>1. pc[w] # "idle"
      BY <1>2 DEF LeaseGone, CallFails, Extended, RefreshSteps, CallSteps, CheckSteps
    <2>2. StoreTypeOK'
      BY <1>2, StoreFrame DEF LeaseGone, CallFails
    <2>3. ProcessTypeOK' /\ RetryLeft'
      BY <1>2, <2>1, RaiseType DEF LeaseGone, CallFails
    <2> QED BY <2>2, <2>3
  <1>3. ASSUME NEW to \in Steps \ {"idle"}, Handled(w, to), pc[w] # "idle",
               to = "requeue" => msg[w].retries < MaxRetries
        PROVE  ProcessTypeOK' /\ RetryLeft'
    <2>1. /\ pc' \in [Workers -> Steps]
          /\ LocalsTypeOK'
          /\ \A v \in Workers : pc'[v] = "idle" <=> msg'[v] = NoMessage
          /\ RetryLeft'
      BY <1>3, MoveType DEF Handled
    <2> QED BY <1>3, <2>1 DEF Handled, ProcessTypeOK, brokerVars
  <1>4. CASE Fail(w)
    <2>1. pc[w] # "idle" /\ failedStage[w] \in TaskStage
      BY <1>4 DEF Fail, ProcessTypeOK, LocalsTypeOK
    <2>2. {"PENDING", "FAILED"} \subseteq TaskStatus /\ "REPORTED" \in TaskStage
      BY DEF TaskStatus, TaskStage
    <2>3. jobs' \in [JobIds -> Job]
      BY <1>4 DEF Fail, StoreTypeOK
    <2>4. StoreTypeOK'
      BY <1>4, <2>1, <2>2, <2>3, ReportType DEF Fail
    <2>5. ProcessTypeOK' /\ RetryLeft'
      BY <1>0, <1>3, <1>4, <2>1 DEF Fail, Retryable
    <2> QED BY <2>4, <2>5
  <1>5. CASE FailStale(w)
    <2>1. pc[w] # "idle"
      BY <1>5 DEF FailStale
    <2> QED BY <1>0, <1>3, <1>5, <2>1, StoreFrame DEF FailStale
  <1>6. CASE FailUnrecorded(w)
    <2>1. StoreTypeOK' /\ pc[w] # "idle"
      BY <1>6, SpendType, LockType DEF FailUnrecorded, StoreTypeOK
    <2> QED BY <1>0, <1>3, <1>6, <2>1 DEF FailUnrecorded
  <1>7. CASE LoadTask(w)
    <2>1. pc[w] # "idle"
      BY <1>7 DEF LoadTask, ReportSteps
    <2>2. task[msg[w].gen] \in Task
      BY <2>1, BusyMessage DEF StoreTypeOK
    <2>3. LocalsTypeOK'
      BY <1>7, <2>2 DEF LoadTask, Gen, ProcessTypeOK, LocalsTypeOK
    <2>4. ProcessTypeOK' /\ RetryLeft'
      BY <1>7, <2>3 DEF LoadTask, ProcessTypeOK, RetryLeft, brokerVars
    <2> QED BY <1>7, <2>4, StoreFrame DEF LoadTask
  <1>8. CASE Diagnose(w)
    <2>1. pc[w] # "idle"
      BY <1>8 DEF Diagnose
    <2>2. task[msg[w].gen].stage \in TaskStage
      BY <2>1, BusyMessage DEF StoreTypeOK, Task
    <2>3. LocalsTypeOK'
      BY <1>8, <2>2 DEF Diagnose, Gen, ProcessTypeOK, LocalsTypeOK
    <2>4. ProcessTypeOK' /\ RetryLeft'
      BY <1>0, <1>8, <2>3 DEF Diagnose, ProcessTypeOK, RetryLeft, brokerVars
    <2> QED BY <1>8, <2>4, StoreFrame DEF Diagnose
  <1> QED BY <1>1, <1>2, <1>4, <1>5, <1>6, <1>7, <1>8

(* The lock is released, orphaned or lost. *)
LEMMA TypeLock ==
    ASSUME TypeInv, \/ \E w \in Workers : Unlock(w) \/ Crash(w)
                    \/ OrphanExpires
                    \/ Lapse
    PROVE  TypeInv'
  <1> USE DEF TypeInv
  <1> USE TypeParts, TypeJoin
  <1>1. ASSUME NEW w \in Workers, Unlock(w) PROVE TypeInv'
    <2>1. StoreTypeOK'
      BY <1>1, LockType DEF Unlock, StoreTypeOK
    <2>2. ProcessTypeOK' /\ RetryLeft'
      BY <1>1, ResetType DEF Unlock, ProcessTypeOK, brokerVars
    <2> QED BY <2>1, <2>2
  <1>2. ASSUME NEW w \in Workers, Crash(w) PROVE TypeInv'
    <2>1. StoreTypeOK'
      BY <1>2, SpendType, LockType DEF Crash, StoreTypeOK
    <2>2. msg[w] \in Message
      BY <1>2, BusyMessage DEF Crash
    <2>3. ProcessTypeOK' /\ RetryLeft'
      BY <1>2, <2>2, ResetType DEF Crash, ProcessTypeOK
    <2> QED BY <2>1, <2>3
  <1>3. CASE OrphanExpires
    <2>1. StoreTypeOK'
      BY <1>3 DEF OrphanExpires, ReleaseOrphan, StoreTypeOK, fileVars, dataVars
    <2> QED BY <1>3, <2>1 DEF OrphanExpires, ingestionVars, ProcessTypeOK, LocalsTypeOK, RetryLeft
  <1>4. CASE Lapse
    <2>1. StoreTypeOK'
      BY <1>4, SpendType, LockType DEF Lapse, StoreTypeOK
    <2> QED BY <1>4, <2>1 DEF Lapse, ingestionVars, ProcessTypeOK, LocalsTypeOK, RetryLeft
  <1> QED BY <1>1, <1>2, <1>3, <1>4

(* Every step of the specification keeps the types. *)
LEMMA TypeNext == TypeInv /\ [IngestionNext]_ingestVars => TypeInv'
  <1> SUFFICES ASSUME TypeInv, [IngestionNext]_ingestVars PROVE TypeInv'
    OBVIOUS
  <1>1. CASE UNCHANGED ingestVars
    BY <1>1, StoreFrame, TypeParts, TypeJoin
       DEF TypeInv, ingestVars, ingestionVars, ProcessTypeOK, LocalsTypeOK, RetryLeft
  <1>2. CASE User \/ ApiStep \/ \E g \in Gens : ApiCrash(g)
    BY <1>2, TypeApi
  <1>3. ASSUME NEW w \in Workers, WorkerStep(w) \/ WorkerFault(w) PROVE TypeInv'
    BY <1>3, TypeChecks, TypeProgress, TypeData, TypeMessages, TypeExceptions, TypeLock
       DEF WorkerStep, WorkerFault
  <1>4. CASE OrphanExpires \/ Lapse
    BY <1>4, TypeLock
  <1> QED BY <1>1, <1>2, <1>3, <1>4 DEF IngestionNext

(* Every reachable state of upload, indexing and deletion is well typed; in *)
(* particular no message is ever retried beyond MAX_TASK_RETRIES, and a     *)
(* worker is idle exactly when it holds no message.                         *)
THEOREM TypeCorrect == IngestionSpec => []IngestionTypeOK
  <1>1. TypeInv => IngestionTypeOK
    BY DEF TypeInv
  <1> QED BY <1>1, TypeInit, TypeNext, PTL DEF IngestionSpec

(* The types and the retry bound hold in every reachable state. *)
LEMMA TypeInvariance == IngestionSpec => []TypeInv
  BY TypeInit, TypeNext, PTL DEF IngestionSpec

-----------------------------------------------------------------------------
(***************************************************************************)
(* The file row and its tasks.  OneActive and StatusAgrees are inductive   *)
(* together with what ties the API's progress on the first task to the     *)
(* file row: nobody can delete or reparse a document before its id is      *)
(* known, and its id is known only once its first task exists.             *)
(***************************************************************************)
FirstTask ==
    /\ dispatch[1] # "none" => version >= 1
    /\ dispatch[1] = "none" => metaTask = 0
    /\ deleted => Known
    /\ metaTask # 0 => metaTask = version

FileInv == FirstTask /\ OneActive /\ StatusAgrees

(* What a worker may do to the file row and the tasks: report on the        *)
(* current generation.  The file row gets the status of the report; the     *)
(* task too, unless the worker knew an old status.                          *)
Reports(w) ==
    /\ Current(msg[w].gen)
    /\ UNCHANGED <<version, deleted, metaTask, dispatch>>
    /\ \E status \in TaskStatus \ {"NONE"}, row \in Task :
         /\ task' = [task EXCEPT ![msg[w].gen] = row]
         /\ row.status \in {status, task[msg[w].gen].status}
         /\ ~torn' => row.status = status
         /\ docStatus' = FileStatus(status)

(* The commit of a report is such a report. *)
LEMMA ReportReports ==
    ASSUME TypeInv, NEW w \in Workers, pc[w] # "idle", UNCHANGED dispatch,
           NEW status \in TaskStatus \ {"NONE"}, NEW stage \in TaskStage,
           Report(w, status, stage)
    PROVE  msg[w].gen \in Gens /\ Reports(w)
  <1>1. msg[w].gen \in Gens
    BY BusyMessage
  <1>2. PICK row \in Written(task[msg[w].gen], [status |-> status, stage |-> stage], read[w]) :
          task' = [task EXCEPT ![msg[w].gen] = row]
    BY DEF Report, Gen
  <1>3. task[msg[w].gen] \in Task /\ read[w] \in Task
    BY <1>1 DEF TypeInv, IngestionTypeOK, StoreTypeOK
  <1>4. /\ row \in Task
        /\ row.status = IF status = read[w].status THEN task[msg[w].gen].status ELSE status
    BY <1>3, WrittenType
  <1>5. ~torn' => row.status = status
    BY <1>4 DEF Report, Gen
  <1> HIDE DEF Written
  <1> QED BY <1>1, <1>2, <1>4, <1>5 DEF Report, Proceeds, Gen, Reports

(* A worker step leaves the file row and the tasks alone, or is such a      *)
(* report about its own, current task.                                      *)
LEMMA WorkerReports ==
    ASSUME TypeInv, NEW w \in Workers, WorkerStep(w) \/ WorkerFault(w)
    PROVE  \/ UNCHANGED <<fileVars, dispatch>>
           \/ msg[w].gen \in Gens /\ Reports(w)
  <1> USE DEF Step, brokerVars, fileVars, storeVars
  <1>1. CASE \/ Receive(w) \/ Admit(w) \/ Acquire(w) \/ Contend(w) \/ LoadTask(w)
             \/ Check(w) \/ Load(w) \/ Persist(w) \/ Scan(w) \/ Scanned(w)
             \/ Upsert(w) \/ Confirm(w) \/ Confirmed(w) \/ Abandon(w)
             \/ LeaseGone(w) \/ CallFails(w) \/ Diagnose(w) \/ FailStale(w)
             \/ Requeue(w) \/ Unlock(w)
    BY <1>1 DEF Receive, Admit, Acquire, Contend, LoadTask, Check, Load, Persist,
                Scan, Scanned, Upsert, Confirm, Confirmed, Abandon, LeaseGone,
                CallFails, Diagnose, FailStale, Handled, Requeue, Unlock
  <1>2. CASE WorkerFault(w)
    BY <1>2 DEF WorkerFault, Crash, Redeliver, ContendLost, RequeueLost,
                FailUnrecorded, Handled
  <1>3. CASE \/ Parse(w) \/ Slice(w) \/ Prepare(w) \/ Counted(w) \/ Embed(w)
             \/ Embedded(w) \/ Index(w) \/ Upserted(w)
    <2>1. pc[w] # "idle" /\ UNCHANGED dispatch /\ Report(w, "PROCESSING", "REPORTED")
      BY <1>3 DEF Parse, Slice, Prepare, Counted, Embed, Embedded, Index, Upserted, Progress
    <2>2. "PROCESSING" \in TaskStatus \ {"NONE"} /\ "REPORTED" \in TaskStage
      BY DEF TaskStatus, TaskStage
    <2> QED BY <2>1, <2>2, ReportReports
  <1>4. CASE Finish(w)
    <2>1. pc[w] # "idle" /\ UNCHANGED dispatch /\ Report(w, "SUCCESS", "REPORTED")
      <3>1. pc[w] # "idle" /\ Report(w, "SUCCESS", "REPORTED")
        BY <1>4 DEF Finish
      <3>2. UNCHANGED dispatch
        BY <1>4 DEF Finish
      <3> QED BY <3>1, <3>2
    <2>2. "SUCCESS" \in TaskStatus \ {"NONE"} /\ "REPORTED" \in TaskStage
      BY DEF TaskStatus, TaskStage
    <2> QED BY <2>1, <2>2, ReportReports
  <1>5. CASE Fail(w)
    <2>1. pc[w] # "idle" /\ UNCHANGED dispatch
      BY <1>5 DEF Fail, Handled
    <2>2. /\ {"PENDING", "FAILED"} \subseteq TaskStatus \ {"NONE"}
          /\ "REPORTED" \in TaskStage /\ failedStage[w] \in TaskStage
      BY DEF TaskStatus, TaskStage, TypeInv, IngestionTypeOK
    <2>3. Report(w, "PENDING", "REPORTED") \/ Report(w, "FAILED", failedStage[w])
      BY <1>5 DEF Fail
    <2> QED BY <2>1, <2>2, <2>3, ReportReports
  <1> QED BY <1>1, <1>2, <1>3, <1>4, <1>5 DEF WorkerStep

(* FileInv holds at first. *)
LEMMA FileInit == IngestionInit => FileInv
  BY BoundsAssumption
     DEF IngestionInit, StoreInit, WorkersInit, FileInv, FirstTask, OneActive,
         StatusAgrees, Active, NoTask, Gens, Known

(* Every step keeps FileInv. *)
LEMMA FileNext == TypeInv /\ FileInv /\ [IngestionNext]_ingestVars => FileInv'
  <1> SUFFICES ASSUME TypeInv, FileInv, [IngestionNext]_ingestVars PROVE FileInv'
    OBVIOUS
  <1> USE BoundsAssumption
  <1> USE DEF FileInv, FirstTask, OneActive, StatusAgrees, Active, Current, Known
  <1>0. /\ version \in 0..MaxVersion /\ metaTask \in 0..MaxVersion
        /\ task \in [Gens -> Task] /\ dispatch \in [Gens -> DispatchState]
        /\ 1 \in Gens
    BY DEF TypeInv, IngestionTypeOK, StoreTypeOK, Gens
  <1>1. CASE UNCHANGED <<fileVars, dispatch>>
    BY <1>1 DEF fileVars
  <1>2. ASSUME NEW w \in Workers, msg[w].gen \in Gens, Reports(w) PROVE FileInv'
    <2>1. PICK status \in TaskStatus \ {"NONE"}, row \in Task :
               /\ task' = [task EXCEPT ![msg[w].gen] = row]
               /\ row.status \in {status, task[msg[w].gen].status}
               /\ ~torn' => row.status = status
               /\ docStatus' = FileStatus(status)
      BY <1>2 DEF Reports
    <2>2. /\ UNCHANGED <<version, deleted, metaTask, dispatch>>
          /\ ~deleted /\ version = msg[w].gen /\ metaTask = msg[w].gen
      BY <1>2 DEF Reports
    <2>3. StatusAgrees'
      BY <1>0, <1>2, <2>1, <2>2 DEF FileStatus, TaskStatus
    <2> QED BY <1>0, <1>2, <2>1, <2>2, <2>3
  <1>3. CASE Upload
    BY <1>0, <1>3 DEF Upload, ingestionVars, Gens
  <1>4. CASE Enqueue
    BY <1>0, <1>4 DEF Enqueue, CreateTask, SetTask, Gens
  <1>5. CASE Reparse
    <2>1. version \in Gens /\ version + 1 \in Gens /\ version + 1 # 1
      BY <1>0, <1>5 DEF Reparse, Gens
    <2>2. \A g \in Gens : ~Active(g)
      BY <1>5 DEF Reparse
    <2> QED BY <1>0, <1>5, <2>1, <2>2 DEF Reparse, CreateTask, SetTask
  <1>6. ASSUME NEW g \in Gens, Publish(g) \/ PublishRaises(g) \/ ApiCrash(g) PROVE FileInv'
    BY <1>0, <1>6 DEF Publish, PublishRaises, ApiCrash, storeVars, fileVars
  <1>7. ASSUME NEW g \in Gens, Recheck(g) PROVE FileInv'
    <2>1. CASE Untaken(g)
      BY <1>0, <1>7, <2>1 DEF Recheck, Untaken, SetTask
    <2>2. CASE ~Untaken(g)
      BY <1>0, <1>7, <2>2 DEF Recheck
    <2> QED BY <2>1, <2>2
  <1>8. CASE Delete
    BY <1>0, <1>8 DEF Delete, PrepareDeletion, CancelTasks, ingestionVars
  <1>9. CASE UNCHANGED ingestVars \/ OrphanExpires \/ Lapse \/ \E g \in Gens : Revoke(g)
    BY <1>1, <1>9 DEF ingestVars, storeVars, fileVars, ingestionVars, OrphanExpires,
                      ReleaseOrphan, Lapse, Revoke
  <1>10. ASSUME NEW w \in Workers, WorkerStep(w) \/ WorkerFault(w) PROVE FileInv'
    BY <1>1, <1>2, <1>10, WorkerReports
  <1> QED BY <1>3, <1>4, <1>5, <1>6, <1>7, <1>8, <1>9, <1>10
          DEF IngestionNext, User, ApiStep

(* FileInv holds in every reachable state. *)
LEMMA FileInvariance == IngestionSpec => []FileInv
  BY FileInit, FileNext, TypeInvariance, PTL DEF IngestionSpec

(* At most the current generation of a document that is not deleted is     *)
(* queued or being indexed.                                                *)
THEOREM OneActiveCorrect == IngestionSpec => []OneActive
  <1>1. FileInv => OneActive
    BY DEF FileInv
  <1> QED BY <1>1, FileInvariance, PTL

(* The status of the file row is the status of its current task.           *)
THEOREM StatusAgreesCorrect == IngestionSpec => []StatusAgrees
  <1>1. FileInv => StatusAgrees
    BY DEF FileInv
  <1> QED BY <1>1, FileInvariance, PTL

-----------------------------------------------------------------------------
(* Chunk rows are written by Persist only, for the current generation.     *)
LEMMA RowsStep ==
    ASSUME TypeInv, IngestionNext
    PROVE  \/ rows' = rows
           \/ \E w \in Workers :
                 /\ Persist(w)
                 /\ msg[w].gen \in Gens /\ Current(msg[w].gen)
                 /\ rows' = [rows EXCEPT ![msg[w].gen] = Chunks]
  <1> USE DEF Step, Progress, Report, dataVars, storeVars
  <1>1. CASE User \/ ApiStep \/ OrphanExpires \/ Lapse \/ \E g \in Gens : ApiCrash(g)
    BY <1>1 DEF User, ApiStep, Upload, Reparse, Delete, Revoke, Enqueue, Publish,
                PublishRaises, Recheck, ApiCrash, CreateTask, PrepareDeletion,
                OrphanExpires, ReleaseOrphan, Lapse
  <1>2. ASSUME NEW w \in Workers, WorkerFault(w) PROVE rows' = rows
    BY <1>2 DEF WorkerFault, Crash, Redeliver, ContendLost, RequeueLost, FailUnrecorded
  <1>3. ASSUME NEW w \in Workers, WorkerStep(w), ~Persist(w) PROVE rows' = rows
    BY <1>3 DEF WorkerStep, Receive, Admit, Acquire, Contend, LoadTask, Check, Load, Parse,
                Slice, Prepare, Scan, Scanned, Counted, Embed, Embedded, Index, Upsert,
                Upserted, Confirm, Confirmed, Finish, Abandon, LeaseGone,
                CallFails, Diagnose, Fail, FailStale, Requeue, Unlock
  <1>4. ASSUME NEW w \in Workers, Persist(w), rows' # rows
        PROVE  /\ msg[w].gen \in Gens /\ Current(msg[w].gen)
               /\ rows' = [rows EXCEPT ![msg[w].gen] = Chunks]
    BY <1>4, BusyMessage DEF Persist, Proceeds, Gen
  <1> QED BY <1>1, <1>2, <1>3, <1>4 DEF IngestionNext

(* No step writes to a generation that is no longer current. *)
LEMMA StaleFrozenStep ==
    ASSUME TypeInv, FileInv, IngestionNext, NEW g \in Gens,
           g <= version, ~Current(g), metaTask # 0
    PROVE  /\ task'[g] = task[g]
           /\ rows'[g] = rows[g]
           /\ deleted => docStatus' = docStatus
  <1> USE DEF FileInv, FirstTask
  <1>0. /\ version \in 0..MaxVersion /\ task \in [Gens -> Task]
        /\ rows \in [Gens -> SUBSET Chunks]
    BY DEF TypeInv, IngestionTypeOK, StoreTypeOK
  <1>1. rows'[g] = rows[g]
    BY <1>0, RowsStep
  <1>2. CASE UNCHANGED fileVars
    BY <1>1, <1>2 DEF fileVars
  <1>3. ASSUME NEW w \in Workers, msg[w].gen \in Gens, Reports(w)
        PROVE  task'[g] = task[g] /\ ~deleted
    BY <1>0, <1>3 DEF Reports, Current
  <1>4. CASE Upload \/ Enqueue
    <2>1. dispatch[1] # "none"
      OBVIOUS
    <2>2. version # 0
      BY <2>1, <1>0 DEF Gens
    <2> QED BY <1>4, <2>1, <2>2 DEF Upload, Enqueue
  <1>5. CASE Reparse
    BY <1>0, <1>1, <1>5 DEF Reparse, CreateTask, SetTask, Gens
  <1>6. ASSUME NEW h \in Gens, Recheck(h)
        PROVE  task'[g] = task[g] /\ (deleted => docStatus' = docStatus)
    <2>1. CASE Untaken(h)
      <3>1. Current(h)
        BY <2>1 DEF Untaken, OneActive, Active
      <3> QED BY <1>0, <1>6, <2>1, <3>1 DEF Recheck, SetTask, Current
    <2>2. CASE ~Untaken(h)
      BY <1>6, <2>2 DEF Recheck
    <2> QED BY <2>1, <2>2
  <1>7. CASE Delete
    BY <1>0, <1>1, <1>7 DEF Delete, PrepareDeletion, CancelTasks, OneActive
  <1>8. ASSUME NEW w \in Workers, WorkerStep(w) \/ WorkerFault(w)
        PROVE  task'[g] = task[g] /\ (deleted => docStatus' = docStatus)
    BY <1>3, <1>8, WorkerReports DEF fileVars
  <1>9. CASE \/ OrphanExpires \/ Lapse
             \/ \E h \in Gens : Revoke(h) \/ Publish(h) \/ PublishRaises(h) \/ ApiCrash(h)
    BY <1>2, <1>9 DEF OrphanExpires, ReleaseOrphan, Lapse, Revoke, Publish,
                      PublishRaises, ApiCrash, storeVars, fileVars
  <1> QED BY <1>1, <1>4, <1>5, <1>6, <1>7, <1>8, <1>9 DEF IngestionNext, User, ApiStep

(* A superseded generation, and a deleted file, are never written to again *)
(* by a worker or a request that is late.                                  *)
THEOREM StaleFrozenCorrect == IngestionSpec => StaleFrozen
  <1>1. TypeInv /\ FileInv /\ [IngestionNext]_ingestVars
          => [\A g \in Gens : (g <= version /\ ~Current(g) /\ metaTask # 0) =>
                /\ task'[g] = task[g]
                /\ rows'[g] = rows[g]
                /\ deleted => docStatus' = docStatus]_ingestVars
    BY StaleFrozenStep
  <1> QED BY <1>1, TypeInvariance, FileInvariance, PTL DEF IngestionSpec, StaleFrozen

-----------------------------------------------------------------------------
(***************************************************************************)
(* Mutual exclusion: a worker that is indexing holds the lock, unless a    *)
(* live lease ran out.                                                     *)
(***************************************************************************)
LockInv == "lapse" \notin faults => \A w \in Workers : Indexing(w) => lock = w

(* Apart from Acquire, Unlock and Crash a worker leaves the lock alone, and *)
(* none of its steps lets it start indexing.                               *)
LEMMA WorkerLock ==
    ASSUME TypeInv, NEW w \in Workers, WorkerStep(w) \/ WorkerFault(w),
           ~Acquire(w), ~Unlock(w), ~Crash(w)
    PROVE  /\ lock' = lock
           /\ \A v \in Workers : Indexing(v)' => Indexing(v)
           /\ faults \subseteq faults'
  <1> USE DEF Step, Goto, Indexing, storeVars, fileVars, dataVars, TypeInv, IngestionTypeOK,
              Unwind, Raise, Progress, Report, Handled, Steps, CallSteps, CheckSteps, workerVars
  <1>1. CASE Receive(w) \/ Admit(w) \/ Contend(w) \/ LoadTask(w)
    BY <1>1 DEF Receive, Admit, Contend, LoadTask
  <1>2. CASE \/ Check(w) \/ Load(w) \/ Parse(w) \/ Slice(w) \/ Persist(w) \/ Prepare(w)
    BY <1>2 DEF Check, Load, Parse, Slice, Persist, Prepare
  <1>3. CASE Scan(w) \/ Scanned(w) \/ Counted(w) \/ Embed(w) \/ Embedded(w)
    BY <1>3 DEF Scan, Scanned, Counted, Embed, Embedded
  <1>4. CASE Index(w) \/ Upsert(w) \/ Upserted(w) \/ Confirm(w) \/ Confirmed(w) \/ Finish(w)
    BY <1>4 DEF Index, Upsert, Upserted, Confirm, Confirmed, Finish
  <1>5. CASE \/ Abandon(w) \/ LeaseGone(w) \/ CallFails(w) \/ Diagnose(w) \/ Fail(w)
             \/ FailStale(w) \/ Requeue(w)
    BY <1>5 DEF Abandon, LeaseGone, CallFails, Diagnose, Fail, FailStale, Requeue
  <1>6. CASE Redeliver(w) \/ ContendLost(w) \/ RequeueLost(w) \/ FailUnrecorded(w)
    BY <1>6 DEF Redeliver, ContendLost, RequeueLost, FailUnrecorded, Spend
  <1> QED BY <1>1, <1>2, <1>3, <1>4, <1>5, <1>6 DEF WorkerStep, WorkerFault

(* LockInv holds at first. *)
LEMMA LockInit == IngestionInit => LockInv
  BY DEF IngestionInit, WorkersInit, LockInv, Indexing

(* Every step keeps LockInv. *)
LEMMA LockNext == TypeInv /\ LockInv /\ [IngestionNext]_ingestVars => LockInv'
  <1> SUFFICES ASSUME TypeInv, LockInv, [IngestionNext]_ingestVars PROVE LockInv'
    OBVIOUS
  <1>0. pc \in [Workers -> Steps] /\ Free \notin Workers /\ Orphan \notin Workers
    BY ProcessAssumption DEF TypeInv, IngestionTypeOK, Processes
  <1>1. CASE User \/ ApiStep \/ \E g \in Gens : ApiCrash(g)
    <2>1. UNCHANGED <<lock, pc>> /\ faults \subseteq faults'
      BY <1>1 DEF User, ApiStep, Upload, Reparse, Delete, Revoke, Enqueue, Publish,
                  PublishRaises, Recheck, ApiCrash, CreateTask, PrepareDeletion,
                  ingestionVars, workerVars, storeVars, Spend
    <2> QED BY <2>1 DEF LockInv, Indexing
  <1>2. ASSUME NEW w \in Workers, Acquire(w) PROVE LockInv'
    BY <1>0, <1>2 DEF Acquire, Step, Goto, LockInv, Indexing
  <1>3. ASSUME NEW w \in Workers, Unlock(w) PROVE LockInv'
    BY <1>0, <1>3 DEF Unlock, LeaseHeld, Reset, Goto, LockInv, Indexing
  <1>4. ASSUME NEW w \in Workers, Crash(w) PROVE LockInv'
    BY <1>0, <1>4 DEF Crash, LeaseHeld, Reset, Goto, LockInv, Indexing, Spend
  <1>5. ASSUME NEW w \in Workers, WorkerStep(w) \/ WorkerFault(w),
               ~Acquire(w), ~Unlock(w), ~Crash(w)
        PROVE  LockInv'
    BY <1>5, WorkerLock DEF LockInv
  <1>6. CASE OrphanExpires
    BY <1>0, <1>6 DEF OrphanExpires, ReleaseOrphan, ingestionVars, LockInv, Indexing
  <1>7. CASE Lapse
    BY <1>7 DEF Lapse, Spend, LockInv
  <1>8. CASE UNCHANGED ingestVars
    BY <1>8 DEF ingestVars, storeVars, ingestionVars, LockInv, Indexing
  <1> QED BY <1>1, <1>2, <1>3, <1>4, <1>5, <1>6, <1>7, <1>8 DEF IngestionNext

(* LockInv holds in every reachable state. *)
LEMMA LockInvariance == IngestionSpec => []LockInv
  BY LockInit, LockNext, TypeInvariance, PTL DEF IngestionSpec

(* No two workers index the document at a time, for any number of workers, *)
(* duplicates, retries and crashes.                                        *)
THEOREM OneWriterCorrect == IngestionSpec => []OneWriter
  <1>1. LockInv => OneWriter
    BY DEF LockInv, OneWriter
  <1> QED BY <1>1, LockInvariance, PTL

-----------------------------------------------------------------------------
(***************************************************************************)
(* Chunk rows and points.  A generation's chunk rows are written all at    *)
(* once; a worker past that point knows they are there, and one about to   *)
(* report success has seen every point.  Nothing in ingestion deletes.     *)
(***************************************************************************)
Prepared(w) == pc[w] \in {"prepare", "scan", "scanned", "counted", "embed",
                          "embedding", "index", "upsert", "upserted",
                          "confirm", "confirming", "finish"}

RowsWhole == \A g \in Gens : rows[g] \in {{}, Chunks}

(* What worker w takes for granted about its generation. *)
KnowsWhole(w) ==
    /\ Prepared(w) => rows[msg[w].gen] = Chunks
    /\ pc[w] = "finish" => points[msg[w].gen] = Chunks

WorkersKnow == \A w \in Workers : KnowsWhole(w)

DoneStarted == docStatus = "DONE" => version >= 1

DataInv ==
    RowsWhole /\ WorkersKnow /\ PointsTraceable /\ DoneStarted /\ Searchable

(* The rows and points of no generation shrink, and whole ones stay whole. *)
Grows ==
    /\ \A g \in Gens : rows[g] \subseteq rows'[g] /\ points[g] \subseteq points'[g]
    /\ \A g \in Gens : rows'[g] \in {{}, Chunks} /\ points'[g] \subseteq rows'[g]

(* Workers only add chunk rows and points; what is whole stays whole. *)
LEMMA WorkerCollects ==
    ASSUME TypeInv, NEW w \in Workers, WorkerStep(w) \/ WorkerFault(w), NEW g \in Gens
    PROVE  /\ rows[g] \subseteq rows'[g] /\ points[g] \subseteq points'[g]
           /\ rows'[g] \subseteq Chunks /\ points'[g] \subseteq Chunks
           /\ rows[g] = Chunks => rows'[g] = Chunks
           /\ points[g] = Chunks => points'[g] = Chunks
  <1>1. StoreTypeOK'
    <2>1. IngestionNext
      BY DEF IngestionNext
    <2> QED BY <2>1, TypeNext DEF TypeInv, IngestionTypeOK
  <1>2. rows[g] \subseteq rows'[g] /\ points[g] \subseteq points'[g]
    <2> USE DEF TypeInv, IngestionTypeOK, StoreTypeOK
    <2>1. CASE Persist(w)
      BY <2>1, BusyMessage DEF Persist, Gen
    <2>2. CASE Upsert(w)
      BY <2>2, BusyMessage DEF Upsert, Gen
    <2>3. CASE WorkerFault(w)
      BY <2>3 DEF WorkerFault, Crash, Redeliver, ContendLost, RequeueLost,
                  FailUnrecorded, dataVars
    <2>4. CASE WorkerStep(w) /\ ~Persist(w) /\ ~Upsert(w)
      BY <2>4
         DEF WorkerStep, Receive, Admit, Acquire, Contend, LoadTask, Check, Load, Parse,
             Slice, Prepare, Scan, Scanned, Counted, Embed, Embedded, Index, Upserted,
             Confirm, Confirmed, Finish, Abandon, LeaseGone, CallFails, Diagnose, Fail,
             FailStale, Requeue, Unlock, Progress, Report, dataVars, storeVars
    <2> QED BY <2>1, <2>2, <2>3, <2>4
  <1>3. rows'[g] \subseteq Chunks /\ points'[g] \subseteq Chunks
    BY <1>1 DEF StoreTypeOK
  <1> QED BY <1>2, <1>3

(* What one worker does to the data and to its own knowledge. *)
LEMMA WorkerGrows ==
    ASSUME TypeInv, DataInv, NEW w \in Workers, WorkerStep(w) \/ WorkerFault(w)
    PROVE  Grows
  <1> USE DEF TypeInv, IngestionTypeOK, StoreTypeOK
  <1>1. CASE rows' = rows /\ points' = points
    BY <1>1 DEF Grows, DataInv, RowsWhole, PointsTraceable
  <1>2. CASE Persist(w)
    BY <1>2, BusyMessage DEF Persist, Grows, DataInv, RowsWhole, PointsTraceable, Gen
  <1>3. CASE Upsert(w)
    <2>1. msg[w].gen \in Gens /\ rows[msg[w].gen] = Chunks /\ todo[w] \subseteq Chunks
      BY <1>3, BusyMessage DEF Upsert, DataInv, WorkersKnow, KnowsWhole, Prepared
    <2> QED BY <1>3, <2>1 DEF Upsert, Grows, DataInv, RowsWhole, PointsTraceable, Gen
  <1>4. CASE WorkerFault(w)
    BY <1>1, <1>4 DEF WorkerFault, Crash, Redeliver, ContendLost, RequeueLost,
                      FailUnrecorded, dataVars
  <1>5. CASE WorkerStep(w) /\ ~Persist(w) /\ ~Upsert(w)
    BY <1>1, <1>5
       DEF WorkerStep, Receive, Admit, Acquire, Contend, LoadTask, Check, Load, Parse,
           Slice, Prepare, Scan, Scanned, Counted, Embed, Embedded, Index, Upserted,
           Confirm, Confirmed, Finish, Abandon, LeaseGone, CallFails, Diagnose, Fail,
           FailStale, Requeue, Unlock, Progress, Report, dataVars, storeVars
  <1> QED BY <1>2, <1>3, <1>4, <1>5

(* Every step other than those of workers leaves rows and points alone.    *)
LEMMA OthersLeaveData ==
    ASSUME \/ User \/ ApiStep \/ OrphanExpires \/ Lapse
           \/ \E g \in Gens : ApiCrash(g)
           \/ UNCHANGED ingestVars
    PROVE  UNCHANGED <<rows, points, pc, msg>>
  BY DEF User, ApiStep, Upload, Reparse, Delete, Revoke, Enqueue, Publish,
         PublishRaises, Recheck, ApiCrash, CreateTask, PrepareDeletion,
         OrphanExpires, ReleaseOrphan, Lapse, dataVars, storeVars, workerVars,
         ingestionVars, ingestVars

(* A step of worker w leaves every worker with what it knows. *)
LEMMA WorkerKnows ==
    ASSUME TypeInv, RowsWhole, NEW w \in Workers, WorkerStep(w) \/ WorkerFault(w),
           NEW v \in Workers, KnowsWhole(v)
    PROVE  KnowsWhole(v)'
  <1> USE DEF TypeInv, IngestionTypeOK, StoreTypeOK, Step, Goto, Prepared, KnowsWhole
  <1>1. \A g \in Gens : /\ rows[g] = Chunks => rows'[g] = Chunks
                        /\ points[g] = Chunks => points'[g] = Chunks
    BY WorkerCollects
  <1>2. ASSUME pc'[v] = pc[v], msg'[v] = msg[v]
        PROVE  KnowsWhole(v)'
    BY <1>1, <1>2, BusyMessage
  <1>3. ASSUME UNCHANGED msg,
               \/ Prepared(w) \/ ~Prepared(w)',
               pc'[w] # "finish" \/ pc[w] = "finish",
               NEW s \in Steps, pc' = [pc EXCEPT ![w] = s]
        PROVE  KnowsWhole(v)'
    <2>1. CASE v = w
      BY <1>1, <1>3, <2>1, BusyMessage
    <2>2. CASE v # w
      BY <1>2, <1>3, <2>2
    <2> QED BY <2>1, <2>2
  <1>4. CASE \/ Admit(w) \/ Acquire(w) \/ Check(w) \/ Parse(w) \/ Slice(w) \/ Counted(w)
    BY <1>3, <1>4 DEF Admit, Acquire, Check, Parse, Slice, Counted, Progress, Report, Steps, CallSteps, CheckSteps
  <1>5. CASE \/ Prepare(w) \/ Scan(w) \/ Embed(w) \/ Embedded(w) \/ Index(w)
    BY <1>3, <1>5 DEF Prepare, Scan, Embed, Embedded, Index, Progress, Report, Steps, CallSteps, CheckSteps
  <1>6. CASE Scanned(w) \/ Upserted(w) \/ Confirm(w) \/ Finish(w)
    BY <1>3, <1>6 DEF Scanned, Upserted, Confirm, Finish, Progress, Report, Raise, Unwind, Steps, CallSteps, CheckSteps
  <1>7. CASE Abandon(w) \/ LeaseGone(w) \/ CallFails(w) \/ Contend(w) \/ ContendLost(w)
    BY <1>3, <1>7 DEF Abandon, LeaseGone, CallFails, Contend, ContendLost, Raise, Unwind, Steps
  <1>8. CASE \/ Diagnose(w) \/ Fail(w) \/ FailStale(w) \/ FailUnrecorded(w) \/ Requeue(w) \/ RequeueLost(w)
    BY <1>3, <1>8 DEF Diagnose, Fail, FailStale, FailUnrecorded, Handled, Requeue,
                      RequeueLost, Steps
  <1>9. CASE Upsert(w)
    BY <1>3, <1>9 DEF Upsert, Raise, Unwind, Steps, CallSteps, CheckSteps
  <1>10. CASE Load(w)
    <2>1. msg[w].gen \in Gens /\ msg' = msg
      BY <1>10, BusyMessage DEF Load
    <2>2. pc'[w] = "prepare" => rows'[msg[w].gen] = Chunks
      BY <1>1, <1>10, <2>1 DEF Load, RowsWhole, Gen
    <2>3. pc'[w] \in {"prepare", "parse"}
      BY <1>10 DEF Load
    <2>4. CASE v = w
      BY <2>1, <2>2, <2>3, <2>4
    <2> QED BY <1>2, <1>10, <2>4 DEF Load
  <1>11. CASE Persist(w)
    <2>1. CASE rows[Gen(w)] = {}
      <3>1. msg[w].gen \in Gens /\ msg' = msg
        BY <1>11, BusyMessage DEF Persist
      <3>2. rows'[msg[w].gen] = Chunks /\ pc'[w] = "prepare"
        BY <1>11, <2>1, <3>1 DEF Persist, Gen
      <3>3. CASE v = w
        BY <3>1, <3>2, <3>3
      <3> QED BY <1>2, <1>11, <2>1, <3>3 DEF Persist
    <2>2. CASE rows[Gen(w)] # {}
      BY <1>3, <1>11, <2>2 DEF Persist, Raise, Unwind, Steps
    <2> QED BY <2>1, <2>2
  <1>12. CASE Confirmed(w)
    <2>1. msg[w].gen \in Gens /\ msg' = msg /\ points' = points /\ rows' = rows
      BY <1>12, BusyMessage DEF Confirmed, storeVars
    <2>2. CASE Pending(Gen(w)) = {}
      <3>1. points[msg[w].gen] = Chunks
        BY <2>1, <2>2 DEF Pending, Gen
      <3>2. CASE v = w
        BY <1>12, <2>1, <2>2, <3>1, <3>2 DEF Confirmed
      <3> QED BY <1>2, <1>12, <2>2, <3>2 DEF Confirmed
    <2>3. CASE Pending(Gen(w)) # {}
      BY <1>3, <1>12, <2>3 DEF Confirmed, Raise, Unwind, Steps
    <2> QED BY <2>2, <2>3
  <1>13. CASE Receive(w) \/ LoadTask(w)
    BY <1>2, <1>13 DEF Receive, LoadTask
  <1>14. CASE Unlock(w) \/ Crash(w)
    BY <1>2, <1>14 DEF Unlock, Crash, Reset
  <1>15. CASE Redeliver(w)
    BY <1>2, <1>15 DEF Redeliver, workerVars
  <1> QED BY <1>4, <1>5, <1>6, <1>7, <1>8, <1>9, <1>10, <1>11, <1>12, <1>13, <1>14, <1>15
          DEF WorkerStep, WorkerFault

(* Reports that are not the final one do not show the file as done.        *)
LEMMA WorkerDone ==
    ASSUME TypeInv, FileInv, NEW w \in Workers, WorkerStep(w) \/ WorkerFault(w)
    PROVE  /\ UNCHANGED <<version, deleted>>
           /\ \/ docStatus' = docStatus
              \/ docStatus' # "DONE"
              \/ Finish(w)
  <1> USE DEF Step, fileVars, storeVars, dataVars
  <1>1. CASE WorkerFault(w)
    BY <1>1 DEF WorkerFault, Crash, Redeliver, ContendLost, RequeueLost, FailUnrecorded
  <1>2. CASE \/ Receive(w) \/ Admit(w) \/ Acquire(w) \/ Contend(w) \/ LoadTask(w)
             \/ Check(w) \/ Load(w) \/ Persist(w) \/ Scan(w) \/ Scanned(w) \/ Upsert(w)
             \/ Confirm(w) \/ Confirmed(w) \/ Abandon(w) \/ LeaseGone(w)
             \/ CallFails(w) \/ Diagnose(w) \/ Requeue(w) \/ Unlock(w) \/ FailStale(w)
    BY <1>2 DEF Receive, Admit, Acquire, Contend, LoadTask, Check, Load, Persist, Scan,
                Scanned, Upsert, Confirm, Confirmed, Abandon, LeaseGone,
                CallFails, Diagnose, Requeue, Unlock, FailStale
  <1>3. CASE \/ Parse(w) \/ Slice(w) \/ Prepare(w) \/ Counted(w) \/ Embed(w)
             \/ Embedded(w) \/ Index(w) \/ Upserted(w)
    BY <1>3 DEF Parse, Slice, Prepare, Counted, Embed, Embedded, Index, Upserted, Progress,
                Report, FileStatus
  <1>4. CASE Fail(w)
    BY <1>4 DEF Fail, Report, FileStatus
  <1>5. CASE Finish(w)
    BY <1>5 DEF Finish, Report
  <1> QED BY <1>1, <1>2, <1>3, <1>4, <1>5 DEF WorkerStep

(* DataInv holds at first. *)
LEMMA DataInit == IngestionInit => DataInv
  BY DEF IngestionInit, StoreInit, WorkersInit, DataInv, RowsWhole, WorkersKnow,
         KnowsWhole, Prepared, PointsTraceable, DoneStarted, Searchable

(* Every step keeps DataInv. *)
LEMMA DataNext ==
    TypeInv /\ FileInv /\ DataInv /\ [IngestionNext]_ingestVars => DataInv'
  <1> SUFFICES ASSUME TypeInv, FileInv, DataInv, [IngestionNext]_ingestVars
               PROVE  DataInv'
    OBVIOUS
  <1>0. version \in 0..MaxVersion /\ MaxVersion \in Nat
    BY BoundsAssumption DEF TypeInv, IngestionTypeOK, StoreTypeOK
  <1>1. CASE \E w \in Workers : WorkerStep(w) \/ WorkerFault(w)
    <2>1. PICK w \in Workers : WorkerStep(w) \/ WorkerFault(w)
      BY <1>1
    <2>2. Grows /\ WorkersKnow'
      BY <2>1, WorkerGrows, WorkerKnows DEF DataInv, WorkersKnow
    <2>3. RowsWhole' /\ PointsTraceable'
      BY <2>2 DEF Grows, RowsWhole, PointsTraceable
    <2>4. DoneStarted' /\ Searchable'
      <3>1. CASE Finish(w)
        <4>1. msg[w].gen \in Gens /\ version = msg[w].gen /\ pc[w] = "finish"
          BY <3>1, BusyMessage DEF Finish, Report, Proceeds, Current, Gen
        <4>2. rows[version] = Chunks /\ points[version] = Chunks
          BY <4>1 DEF DataInv, WorkersKnow, KnowsWhole, Prepared
        <4> QED BY <1>0, <3>1, <4>1, <4>2 DEF Finish, Report, dataVars, DoneStarted, Searchable, Gens
      <3>2. CASE docStatus' # "DONE"
        BY <3>2 DEF DoneStarted, Searchable
      <3>3. CASE docStatus' = "DONE" /\ docStatus = "DONE"
        <4>1. UNCHANGED <<version, deleted>>
          BY <2>1, WorkerDone
        <4>2. CASE ~deleted
          <5>1. version \in Gens /\ rows[version] = Chunks /\ points[version] = Chunks
            BY <1>0, <3>3, <4>2 DEF DataInv, DoneStarted, Searchable, Gens
          <5>2. /\ rows[version] \subseteq rows'[version]
                /\ points[version] \subseteq points'[version]
                /\ points'[version] \subseteq rows'[version]
                /\ rows'[version] \in {{}, Chunks}
            BY <2>2, <5>1 DEF Grows
          <5>3. rows'[version] = Chunks /\ points'[version] = Chunks
            BY <5>1, <5>2
          <5> QED BY <3>3, <4>1, <5>3 DEF DataInv, DoneStarted, Searchable
        <4>3. CASE deleted
          BY <3>3, <4>1, <4>3 DEF DataInv, DoneStarted, Searchable
        <4> QED BY <4>2, <4>3
      <3> QED BY <2>1, <3>1, <3>2, <3>3, WorkerDone
    <2> QED BY <2>2, <2>3, <2>4 DEF DataInv
  <1>2. CASE \/ User \/ ApiStep \/ OrphanExpires \/ Lapse
             \/ \E g \in Gens : ApiCrash(g)
             \/ UNCHANGED ingestVars
    <2>1. UNCHANGED <<rows, points, pc, msg>>
      BY <1>2, OthersLeaveData
    <2>2. RowsWhole' /\ PointsTraceable' /\ WorkersKnow'
      BY <2>1 DEF DataInv, RowsWhole, PointsTraceable, WorkersKnow, KnowsWhole, Prepared
    <2>3. \/ docStatus' # "DONE"
          \/ docStatus' = docStatus /\ version' = version /\ (deleted => deleted')
          \/ Upload
      BY <1>2 DEF User, ApiStep, Reparse, Delete, Revoke, Enqueue, Publish,
                  PublishRaises, Recheck, ApiCrash, CreateTask, PrepareDeletion,
                  OrphanExpires, ReleaseOrphan, Lapse, fileVars, storeVars, ingestVars
    <2>4. ~Upload \/ docStatus' # "DONE"
      BY <1>0 DEF Upload, DataInv, DoneStarted
    <2>5. DoneStarted' /\ Searchable'
      BY <2>1, <2>3, <2>4 DEF DataInv, DoneStarted, Searchable
    <2> QED BY <2>2, <2>5 DEF DataInv
  <1> QED BY <1>1, <1>2 DEF IngestionNext

(* DataInv holds in every reachable state. *)
LEMMA DataInvariance == IngestionSpec => []DataInv
  BY DataInit, DataNext, TypeInvariance, FileInvariance, PTL DEF IngestionSpec

(* Every point has the chunk row through which cleanup can find it.        *)
THEOREM PointsTraceableCorrect == IngestionSpec => []PointsTraceable
  <1>1. DataInv => PointsTraceable
    BY DEF DataInv
  <1> QED BY <1>1, DataInvariance, PTL

(* A document that is shown as done is searchable as a whole.              *)
THEOREM SearchableCorrect == IngestionSpec => []Searchable
  <1>1. DataInv => Searchable
    BY DEF DataInv
  <1> QED BY <1>1, DataInvariance, PTL

-----------------------------------------------------------------------------
(***************************************************************************)
(* The outbox: superseded generations have their jobs.                     *)
(***************************************************************************)

(* Jobs are written by a deletion and by the report of success only.       *)
LEMMA JobsStep ==
    ASSUME IngestionNext
    PROVE  jobs' = jobs \/ Delete \/ \E w \in Workers : Finish(w)
  <1> USE DEF Step, Progress, Handled, fileVars, dataVars, storeVars
  <1>1. CASE User \/ ApiStep \/ OrphanExpires \/ Lapse \/ \E g \in Gens : ApiCrash(g)
    BY <1>1 DEF User, ApiStep, Upload, Reparse, Revoke, Enqueue, Publish, PublishRaises,
                Recheck, ApiCrash, CreateTask, OrphanExpires, ReleaseOrphan, Lapse
  <1>2. ASSUME NEW w \in Workers, WorkerFault(w) PROVE jobs' = jobs
    BY <1>2 DEF WorkerFault, Crash, Redeliver, ContendLost, RequeueLost, FailUnrecorded
  <1>3. ASSUME NEW w \in Workers, WorkerStep(w), ~Finish(w) PROVE jobs' = jobs
    BY <1>3 DEF WorkerStep, Receive, Admit, Acquire, Contend, LoadTask, Check, Load,
                Parse, Slice, Persist, Prepare, Scan, Scanned, Counted, Embed, Embedded, Index, Upsert,
                Upserted, Confirm, Confirmed, Abandon, LeaseGone,
                CallFails, Diagnose, Fail, FailStale, Requeue, Unlock
  <1> QED BY <1>1, <1>2, <1>3 DEF IngestionNext

(* A job that is in the outbox is left alone; new ones are fresh.          *)
LEMMA JobsAppear ==
    ASSUME StoreTypeOK, IngestionNext, NEW j \in JobIds
    PROVE  \/ jobs'[j] = jobs[j]
           \/ jobs[j].status = "NONE" /\ jobs'[j] = NewJob(j)
  <1>1. jobs \in [JobIds -> Job]
    BY DEF StoreTypeOK
  <1>2. CASE Delete
    BY <1>1, <1>2 DEF Delete, PrepareDeletion, ScheduleDeletion
  <1>3. CASE \E w \in Workers : Finish(w)
    BY <1>1, <1>3 DEF Finish, ScheduleSuperseded
  <1> QED BY <1>2, <1>3, JobsStep

(* Only the final report makes a document done, and none does for another  *)
(* generation than the one that is current.                                *)
LEMMA DoneStep ==
    ASSUME TypeInv, FileInv, DoneStarted, IngestionNext, docStatus' = "DONE"
    PROVE  \/ \E w \in Workers : Finish(w)
           \/ docStatus = "DONE" /\ version' = version /\ (deleted => deleted')
  <1>1. ASSUME NEW w \in Workers, WorkerStep(w) \/ WorkerFault(w), ~Finish(w)
        PROVE  docStatus = "DONE" /\ version' = version /\ (deleted => deleted')
    BY <1>1, WorkerDone
  <1>2. CASE User \/ ApiStep \/ OrphanExpires \/ Lapse \/ \E g \in Gens : ApiCrash(g)
    BY <1>2 DEF User, ApiStep, Upload, Reparse, Delete, Revoke, Enqueue, Publish,
                PublishRaises, Recheck, ApiCrash, CreateTask, PrepareDeletion,
                OrphanExpires, ReleaseOrphan, Lapse, fileVars, storeVars, DoneStarted
  <1> QED BY <1>1, <1>2 DEF IngestionNext

(* Every step keeps SupersededScheduled: rows of older generations do not  *)
(* appear, jobs do not disappear.                                          *)
LEMMA ScheduledNext ==
    ASSUME TypeInv, FileInv, DoneStarted, SupersededScheduled, IngestionNext
    PROVE  SupersededScheduled'
  <1>0. /\ version \in 0..MaxVersion /\ MaxVersion \in Nat
        /\ rows \in [Gens -> SUBSET Chunks] /\ jobs \in [JobIds -> Job]
    BY BoundsAssumption DEF TypeInv, IngestionTypeOK, StoreTypeOK
  <1> SUFFICES ASSUME docStatus' = "DONE", ~deleted',
                      NEW g \in 1..(version' - 1), rows'[g] # {}
               PROVE  jobs'[g].status # "NONE"
    BY DEF SupersededScheduled
  <1>1. CASE \E w \in Workers : Finish(w)
    <2>1. version' = version /\ rows' = rows /\ ScheduleSuperseded
      BY <1>1 DEF Finish, Report, dataVars
    <2>2. g \in JobIds /\ g \in 1..(version - 1)
      BY <1>0, <2>1 DEF JobIds
    <2> QED BY <1>0, <2>1, <2>2 DEF ScheduleSuperseded, NewJob
  <1>2. CASE docStatus = "DONE" /\ version' = version /\ (deleted => deleted')
    <2>1. g \in JobIds /\ g \in Gens /\ g # version
      BY <1>0, <1>2 DEF JobIds, Gens
    <2>2. rows'[g] = rows[g]
      BY <1>0, <2>1, RowsStep DEF Current
    <2>3. jobs[g].status # "NONE"
      BY <1>2, <2>2 DEF SupersededScheduled
    <2> QED BY <2>1, <2>3, JobsAppear DEF TypeInv, IngestionTypeOK
  <1> QED BY <1>1, <1>2, DoneStep

(* When a generation is done, every older one that left chunk rows has its  *)
(* cleanup job.                                                             *)
THEOREM SupersededScheduledCorrect == IngestionSpec => []SupersededScheduled
  <1>1. IngestionInit => SupersededScheduled
    BY DEF IngestionInit, StoreInit, SupersededScheduled
  <1>2. TypeInv /\ FileInv /\ DataInv /\ SupersededScheduled /\ [IngestionNext]_ingestVars
          => SupersededScheduled'
    <2>1. UNCHANGED ingestVars /\ SupersededScheduled => SupersededScheduled'
      BY DEF ingestVars, storeVars, SupersededScheduled
    <2> QED BY <2>1, ScheduledNext DEF DataInv
  <1> QED BY <1>1, <1>2, TypeInvariance, FileInvariance, DataInvariance, PTL DEF IngestionSpec

-----------------------------------------------------------------------------
(***************************************************************************)
(* Active tasks are somebody's business. The API counts only while the     *)
(* task is as it left it and no worker has its message; after that a       *)
(* message or a worker carries the task until its last report. A worker    *)
(* whose transaction has found the task settled does not count: the end it *)
(* reports may be no change to it, and is then not written.                *)
(***************************************************************************)
Carries(w, g) == Responsible(w, g) /\ read[w].status \notin {"SUCCESS", "FAILED"}

Carried(g) ==
    \/ \E m \in queue : m.gen = g
    \/ \E w \in Workers : Carries(w, g)

Awaited(g) ==
    /\ Untaken(g)
    /\ dispatch[g] \in {"publishing", "unsure"}
    /\ \A w \in Workers : ~Responsible(w, g)

TasksCarried ==
    Accounted => \A g \in Gens : Active(g) => Carried(g) \/ Awaited(g)

(* A generation without a task has no message either. *)
Unsent ==
    \A g \in Gens : g > metaTask =>
       /\ dispatch[g] \in {"none", "dead"}
       /\ \A m \in queue : m.gen # g
       /\ \A w \in Workers : msg[w].gen # g

(* Only a deletion cancels tasks, and no handler takes one for failed. *)
CancelledDeleted ==
    /\ \A g \in Gens : task[g].stage = "CANCELLED" => deleted
    /\ \A w \in Workers : failedStage[w] # "CANCELLED"

OwnerInv == TasksCarried /\ CancelledDeleted /\ Unsent

(* The status that a report leaves in the task.                            *)
LEMMA ReportWrites ==
    ASSUME TypeInv, NEW w \in Workers, pc[w] # "idle",
           NEW status \in TaskStatus, NEW stage \in TaskStage, Report(w, status, stage)
    PROVE  /\ task'[msg[w].gen].status =
                IF status = read[w].status THEN task[msg[w].gen].status ELSE status
           /\ task'[msg[w].gen].stage \in {stage, task[msg[w].gen].stage, "REPORTED"}
           /\ \A g \in Gens : g # msg[w].gen => task'[g] = task[g]
  <1>1. msg[w].gen \in Gens
    BY BusyMessage
  <1>2. PICK row \in Written(task[msg[w].gen], [status |-> status, stage |-> stage], read[w]) :
          task' = [task EXCEPT ![msg[w].gen] = row]
    BY DEF Report, Gen
  <1>3. task \in [Gens -> Task] /\ task[msg[w].gen] \in Task /\ read[w] \in Task
    BY <1>1 DEF TypeInv, IngestionTypeOK, StoreTypeOK
  <1>4. row.status = IF status = read[w].status THEN task[msg[w].gen].status ELSE status
    BY <1>3, WrittenType
  <1>5. row.stage \in {stage, task[msg[w].gen].stage, "REPORTED"}
    BY <1>2 DEF Written
  <1> HIDE DEF Written
  <1> QED BY <1>1, <1>2, <1>3, <1>4, <1>5

(* A worker gives a task up only to the queue, by a report that ends it, or *)
(* because it is not current; or a fault is recorded.  One that makes a task *)
(* active again carries it.                                                *)
LEMMA WorkerCarries ==
    ASSUME TypeInv, FileInv, NEW w \in Workers, WorkerStep(w) \/ WorkerFault(w), Accounted',
           NEW g \in Gens, Active(g)', Responsible(w, g), Active(g) => Carries(w, g)
    PROVE  Carried(g)'
  <1>0. /\ pc[w] # "idle" /\ msg[w] \in Message /\ msg[w].gen = g
        /\ Retried(w).gen = g /\ read[w] \in Task
        /\ pc \in [Workers -> Steps] /\ msg \in [Workers -> Message \cup {NoMessage}]
        /\ read \in [Workers -> Task]
    BY BusyMessage DEF Retried, Message, Responsible, TypeInv, IngestionTypeOK
  <1>1. ASSUME NEW s \in Steps \ {"idle", "unlock"}, Goto(w, s), UNCHANGED msg
        PROVE  Carried(g)'
    BY <1>0, <1>1 DEF Goto, Unread, NoTask, Carried, Carries, Responsible
  <1>2. ASSUME NEW m \in Message, m.gen = g, m \in queue'
        PROVE  Carried(g)'
    BY <1>2 DEF Carried
  <1>3. ASSUME UNCHANGED task
        PROVE  Active(g) /\ Carries(w, g)
    BY <1>3 DEF Active
  <1>4. ASSUME NEW status \in {"SUCCESS", "FAILED"}, NEW stage \in TaskStage,
               Report(w, status, stage)
        PROVE  FALSE
    <2>1. task'[g].status = IF status = read[w].status THEN task[g].status ELSE status
      BY <1>0, <1>4, ReportWrites DEF TaskStatus
    <2>2. CASE Active(g)
      BY <2>1, <2>2 DEF Carries, Active
    <2>3. CASE ~Active(g)
      BY <2>1, <2>3 DEF Active
    <2> QED BY <2>2, <2>3
  <1>5. CASE \/ Admit(w) \/ Acquire(w) \/ Load(w) \/ Parse(w) \/ Slice(w) \/ Prepare(w)
             \/ Scan(w) \/ Scanned(w) \/ Counted(w)
    BY <1>1, <1>5 DEF Admit, Acquire, Load, Parse, Slice, Prepare, Scan, Scanned, Counted,
                      Step, Steps, CallSteps, CheckSteps
  <1>6. CASE \/ Embed(w) \/ Embedded(w) \/ Index(w) \/ Upserted(w) \/ Confirm(w)
    BY <1>1, <1>6 DEF Embed, Embedded, Index, Upserted, Confirm, Step, Steps, CallSteps,
                      CheckSteps
  <1>7. CASE \/ Persist(w) \/ Upsert(w) \/ Confirmed(w) \/ LeaseGone(w) \/ CallFails(w)
             \/ ContendLost(w)
    BY <1>1, <1>7 DEF Persist, Upsert, Confirmed, LeaseGone, CallFails, ContendLost, Raise,
                      Unwind, Steps, CallSteps, CheckSteps
  <1>8. CASE Receive(w)
    BY <1>0, <1>8 DEF Receive
  <1>9. CASE Contend(w)
    <2>1. CASE msg[w].retries < MaxRetries
      <3>1. Retried(w) \in queue' /\ Retried(w) \in Message
        BY <1>0, <1>9, <2>1, RetriedType DEF Contend
      <3> QED BY <1>0, <1>2, <3>1
    <2>2. CASE ~(msg[w].retries < MaxRetries)
      BY <1>1, <1>9, <2>2 DEF Contend, Raise, Unwind, Steps
    <2> QED BY <2>1, <2>2
  <1>10. CASE LoadTask(w)
    <2>1. /\ UNCHANGED <<pc, msg, task>> /\ read'[w] = task[g]
      BY <1>0, <1>10 DEF LoadTask, Gen, storeVars
    <2>2. Active(g) /\ Responsible(w, g)
      BY <1>3, <2>1
    <2> QED BY <2>1, <2>2 DEF Active, Carried, Carries, Responsible
  <1>11. CASE Check(w)
    <2>1. Active(g)
      BY <1>3, <1>11 DEF Check, storeVars
    <2>2. Goto(w, "load") /\ UNCHANGED msg
      BY <1>0, <1>11, <2>1 DEF Check, Active, Step, Gen
    <2> QED BY <1>1, <2>2 DEF Steps, CallSteps, CheckSteps
  <1>12. CASE Finish(w)
    BY <1>4, <1>12 DEF Finish, TaskStage
  <1>13. CASE Abandon(w)
    BY <1>0, <1>3, <1>13 DEF Abandon, storeVars, FileInv, OneActive, Gen
  <1>14. CASE Diagnose(w) \/ Redeliver(w)
    <2>1. /\ UNCHANGED <<msg, read, task>> /\ pc'[w] \notin {"idle", "unlock"}
      BY <1>0, <1>14 DEF Diagnose, Redeliver, Responsible, storeVars, fileVars, workerVars
    <2> QED BY <1>3, <2>1 DEF Carried, Carries, Responsible
  <1>15. CASE Fail(w)
    <2>1. CASE Retryable(w)
      BY <1>1, <1>15, <2>1 DEF Fail, Handled, Steps
    <2>2. CASE ~Retryable(w)
      <3>1. failedStage[w] \in TaskStage
        BY DEF TypeInv, IngestionTypeOK
      <3> QED BY <1>4, <1>15, <2>2, <3>1 DEF Fail
    <2> QED BY <2>1, <2>2
  <1>16. CASE FailStale(w)
    BY <1>0, <1>3, <1>16 DEF FailStale, storeVars, FileInv, OneActive, Gen
  <1>17. CASE Requeue(w)
    <2>1. Goto(w, "unlock") /\ Retried(w) \in queue'
      BY <1>17 DEF Requeue
    <2>2. msg[w].retries < MaxRetries
      BY <1>17 DEF Requeue, TypeInv, RetryLeft
    <2> QED BY <1>0, <1>2, <2>1, <2>2, RetriedType
  <1>18. CASE Crash(w)
    BY <1>0, <1>2, <1>18 DEF Crash
  <1>19. CASE RequeueLost(w) \/ FailUnrecorded(w)
    BY <1>19 DEF RequeueLost, FailUnrecorded, Spend, Accounted
  <1>20. CASE Unlock(w)
    BY <1>20 DEF Unlock, Responsible
  <1> QED BY <1>5, <1>6, <1>7, <1>8, <1>9, <1>10, <1>11, <1>12, <1>13, <1>14, <1>15,
             <1>16, <1>17, <1>18, <1>19, <1>20 DEF WorkerStep, WorkerFault

(* A step of one worker takes no message but one it then works on, and     *)
(* leaves the others to their work.                                        *)
LEMMA OthersCarry ==
    ASSUME TypeInv, NEW w \in Workers, WorkerStep(w) \/ WorkerFault(w)
    PROVE  /\ \A v \in Workers \ {w} : pc'[v] = pc[v] /\ msg'[v] = msg[v] /\ read'[v] = read[v]
           /\ \A m \in queue : \/ m \in queue'
                               \/ pc'[w] = "received" /\ msg'[w] = m /\ read'[w] = Unread
           /\ faults \subseteq faults'
  <1> USE DEF TypeInv, IngestionTypeOK, Step, Goto, Raise, Unwind, Handled, Reset, Progress,
              Report, Spend, fileVars, dataVars, storeVars, workerVars, brokerVars
  <1>1. CASE WorkerFault(w)
    BY <1>1 DEF WorkerFault, Crash, Redeliver, ContendLost, RequeueLost, FailUnrecorded
  <1>2. CASE Receive(w) \/ Contend(w) \/ Requeue(w) \/ Unlock(w) \/ LoadTask(w)
    BY <1>2 DEF Receive, Contend, Requeue, Unlock, LoadTask
  <1>3. CASE \/ Admit(w) \/ Acquire(w) \/ Check(w) \/ Load(w) \/ Parse(w) \/ Slice(w)
             \/ Persist(w) \/ Prepare(w) \/ Scan(w) \/ Scanned(w) \/ Counted(w)
    BY <1>3 DEF Admit, Acquire, Check, Load, Parse, Slice, Persist, Prepare, Scan, Scanned,
                Counted
  <1>4. CASE \/ Embed(w) \/ Embedded(w) \/ Index(w) \/ Upsert(w) \/ Upserted(w)
             \/ Confirm(w) \/ Confirmed(w) \/ Finish(w)
    BY <1>4 DEF Embed, Embedded, Index, Upsert, Upserted, Confirm, Confirmed, Finish
  <1>5. CASE \/ Abandon(w) \/ LeaseGone(w) \/ CallFails(w) \/ Diagnose(w) \/ Fail(w)
             \/ FailStale(w)
    BY <1>5 DEF Abandon, LeaseGone, CallFails, Diagnose, Fail, FailStale
  <1> QED BY <1>1, <1>2, <1>3, <1>4, <1>5 DEF WorkerStep

(* A worker becomes responsible for a task only by taking its message, and *)
(* it has no message of another generation than those in the queue.        *)
LEMMA WorkerTakes ==
    ASSUME TypeInv, NEW w \in Workers, WorkerStep(w) \/ WorkerFault(w), NEW g \in Gens,
           \A m \in queue : m.gen # g
    PROVE  /\ ~Responsible(w, g) => \/ ~Responsible(w, g)'
                                    \/ \E m \in queue' : m.gen = g
           /\ msg[w].gen # g => /\ msg'[w].gen # g
                                /\ \A m \in queue' : m.gen # g
  <1> USE DEF Responsible, brokerVars, workerVars, storeVars
  <1>0. /\ pc \in [Workers -> Steps] /\ msg \in [Workers -> Message \cup {NoMessage}]
        /\ NoMessage.gen # g
    BY DEF TypeInv, IngestionTypeOK, NoMessage, Gens
  <1>1. ASSUME UNCHANGED <<msg, queue>>, pc[w] \notin {"idle", "unlock"} PROVE
           /\ ~Responsible(w, g) => ~Responsible(w, g)'
           /\ msg[w].gen # g => msg'[w].gen # g /\ \A m \in queue' : m.gen # g
    BY <1>1
  <1>2. CASE Receive(w)
    BY <1>0, <1>2 DEF Receive
  <1>3. CASE Contend(w) \/ Requeue(w)
    <2>1. /\ pc[w] \notin {"idle", "unlock"} /\ UNCHANGED msg
          /\ queue' \subseteq queue \cup {Retried(w)}
      BY <1>3 DEF Contend, Requeue
    <2>2. msg[w] \in Message /\ Retried(w).gen = msg[w].gen
      BY <2>1, BusyMessage DEF Retried, Message
    <2> QED BY <2>1, <2>2
  <1>4. CASE Unlock(w)
    BY <1>0, <1>4 DEF Unlock, Reset, Goto
  <1>5. CASE Crash(w)
    BY <1>0, <1>5 DEF Crash, Reset, Goto
  <1>6. CASE Redeliver(w)
    BY <1>6 DEF Redeliver
  <1>7. CASE ContendLost(w) \/ RequeueLost(w) \/ FailUnrecorded(w)
    BY <1>1, <1>7 DEF ContendLost, RequeueLost, FailUnrecorded, Step, Handled
  <1>8. CASE \/ Admit(w) \/ Acquire(w) \/ LoadTask(w) \/ Check(w) \/ Load(w) \/ Parse(w)
             \/ Slice(w) \/ Persist(w) \/ Prepare(w) \/ Scan(w) \/ Scanned(w) \/ Counted(w)
    BY <1>1, <1>8 DEF Admit, Acquire, LoadTask, Check, Load, Parse, Slice, Persist, Prepare,
                Scan, Scanned, Counted, Step, ReportSteps
  <1>9. CASE \/ Embed(w) \/ Embedded(w) \/ Index(w) \/ Upsert(w) \/ Upserted(w)
             \/ Confirm(w) \/ Confirmed(w) \/ Finish(w)
    BY <1>1, <1>9 DEF Embed, Embedded, Index, Upsert, Upserted, Confirm, Confirmed, Finish, Step
  <1>10. CASE \/ Abandon(w) \/ LeaseGone(w) \/ CallFails(w) \/ Diagnose(w) \/ Fail(w)
              \/ FailStale(w)
    BY <1>1, <1>10 DEF Abandon, LeaseGone, CallFails, Diagnose, Fail, FailStale, Handled,
                Extended, RefreshSteps, CallSteps, CheckSteps
  <1> QED BY <1>2, <1>3, <1>4, <1>5, <1>6, <1>7, <1>8, <1>9, <1>10
          DEF WorkerStep, WorkerFault

(* A worker that reports on a task is responsible for it. *)
LEMMA ReportersCarry ==
    ASSUME TypeInv, NEW w \in Workers, WorkerStep(w) \/ WorkerFault(w),
           NEW g \in Gens, task'[g] # task[g]
    PROVE  Responsible(w, g)
  <1>1. ~UNCHANGED fileVars
    BY DEF fileVars
  <1>2. msg[w].gen = g
    <2>1. Reports(w) /\ msg[w].gen \in Gens
      BY <1>1, WorkerReports
    <2> QED BY <2>1 DEF Reports, TypeInv, IngestionTypeOK, StoreTypeOK
  <1>3. pc[w] \notin {"idle", "unlock"}
    BY <1>1 DEF WorkerStep, WorkerFault, Receive, Admit, Acquire, Contend, LoadTask, Check,
           Load, Parse, Slice, Persist, Prepare, Scan, Scanned, Counted, Embed, Embedded, Index,
           Upsert, Upserted, Confirm, Confirmed, Finish, Abandon, LeaseGone, CallFails, Diagnose,
           Fail, FailStale, Requeue, Unlock, Crash, Redeliver, ContendLost, RequeueLost,
           FailUnrecorded, Step, Handled, fileVars, storeVars
  <1> QED BY <1>2, <1>3 DEF Responsible

(* A report never cancels, and a handler finds nothing cancelled. *)
LEMMA ReportsNotCancelled ==
    ASSUME TypeInv, CancelledDeleted, NEW w \in Workers, WorkerStep(w) \/ WorkerFault(w)
    PROVE  CancelledDeleted'
  <1>0. /\ task \in [Gens -> Task] /\ failedStage \in [Workers -> TaskStage]
        /\ pc[w] # "idle" => msg[w].gen \in Gens
    BY BusyMessage DEF TypeInv, IngestionTypeOK, StoreTypeOK
  <1>1. deleted' = deleted
    BY WorkerReports DEF Reports, fileVars
  <1>2. ASSUME NEW status \in TaskStatus, NEW stage \in TaskStage, stage # "CANCELLED",
               pc[w] # "idle", Report(w, status, stage), NEW s \in Steps, Goto(w, s)
        PROVE  CancelledDeleted'
    <2>1. \A g \in Gens : task'[g].stage \in {stage, task[g].stage, "REPORTED"}
      BY <1>0, <1>2, ReportWrites
    <2>2. \A v \in Workers : failedStage'[v] # "CANCELLED"
      BY <1>0, <1>2 DEF Goto, CancelledDeleted
    <2> QED BY <1>1, <1>2, <2>1, <2>2 DEF CancelledDeleted
  <1>3. ASSUME UNCHANGED task, UNCHANGED failedStage \/ \E s \in Steps : Goto(w, s)
        PROVE  CancelledDeleted'
    BY <1>0, <1>1, <1>3 DEF Goto, CancelledDeleted
  <1>4. "PROCESSING" \in TaskStatus /\ "SUCCESS" \in TaskStatus /\ "PENDING" \in TaskStatus
        /\ "FAILED" \in TaskStatus /\ "REPORTED" \in TaskStage
    BY DEF TaskStatus, TaskStage
  <1>5. CASE \/ Parse(w) \/ Slice(w) \/ Prepare(w) \/ Counted(w) \/ Embed(w)
             \/ Embedded(w) \/ Index(w) \/ Upserted(w)
    <2>1. Report(w, "PROCESSING", "REPORTED") /\ pc[w] # "idle" /\ \E s \in Steps : Goto(w, s)
      BY <1>5 DEF Parse, Slice, Prepare, Counted, Embed, Embedded, Index, Upserted, Progress,
                  Step, Steps, CallSteps, CheckSteps
    <2> QED BY <1>2, <1>4, <2>1
  <1>6. CASE Finish(w)
    <2>1. Report(w, "SUCCESS", "REPORTED") /\ pc[w] # "idle" /\ \E s \in Steps : Goto(w, s)
      BY <1>6 DEF Finish, Step, Raise, Unwind, Steps
    <2> QED BY <1>2, <1>4, <2>1
  <1>7. CASE Fail(w)
    <2>1. /\ Report(w, "PENDING", "REPORTED") \/ Report(w, "FAILED", failedStage[w])
          /\ pc[w] # "idle" /\ \E s \in Steps : Goto(w, s)
      BY <1>7 DEF Fail, Handled, Steps
    <2>2. failedStage[w] \in TaskStage /\ failedStage[w] # "CANCELLED"
      BY <1>0 DEF CancelledDeleted
    <2> QED BY <1>2, <1>4, <2>1, <2>2
  <1>8. CASE Diagnose(w)
    <2>1. /\ task' = task
          /\ failedStage' = [failedStage EXCEPT ![w] = task[msg[w].gen].stage]
          /\ ~deleted /\ pc[w] # "idle"
      BY <1>8 DEF Diagnose, Current, Gen, storeVars
    <2> QED BY <1>0, <1>1, <2>1 DEF CancelledDeleted
  <1>9. CASE \/ Receive(w) \/ Admit(w) \/ Acquire(w) \/ Contend(w) \/ LoadTask(w)
             \/ Check(w) \/ Load(w) \/ Scan(w) \/ Scanned(w) \/ Confirm(w)
    BY <1>3, <1>9 DEF Receive, Admit, Acquire, Contend, LoadTask, Check, Load, Scan, Scanned,
                Confirm, Step, Raise, Unwind, Steps, CallSteps, CheckSteps, storeVars, fileVars
  <1>10. CASE \/ Persist(w) \/ Upsert(w) \/ Confirmed(w) \/ Abandon(w) \/ LeaseGone(w)
              \/ CallFails(w) \/ FailStale(w) \/ Requeue(w) \/ Unlock(w)
    BY <1>3, <1>10 DEF Persist, Upsert, Confirmed, Abandon, LeaseGone, CallFails, FailStale,
                Requeue, Unlock, Reset, Raise, Unwind, Handled, Steps, CallSteps, CheckSteps,
                storeVars, fileVars
  <1>11. CASE WorkerFault(w)
    BY <1>3, <1>11 DEF WorkerFault, Crash, Redeliver, ContendLost, RequeueLost, FailUnrecorded,
                Step, Reset, Raise, Unwind, Handled, Steps, workerVars, storeVars, fileVars
  <1> QED BY <1>5, <1>6, <1>7, <1>8, <1>9, <1>10, <1>11 DEF WorkerStep

(* What a worker does leaves an untasked generation without messages.      *)
LEMMA UnsentStays ==
    ASSUME TypeInv, Unsent, NEW w \in Workers, WorkerStep(w) \/ WorkerFault(w)
    PROVE  Unsent'
  <1>1. UNCHANGED <<metaTask, dispatch>>
    BY WorkerReports DEF Reports, fileVars
  <1> SUFFICES ASSUME NEW g \in Gens, g > metaTask
               PROVE  /\ \A m \in queue' : m.gen # g
                      /\ \A v \in Workers : msg'[v].gen # g
    BY <1>1 DEF Unsent
  <1>2. (\A m \in queue : m.gen # g) /\ \A v \in Workers : msg[v].gen # g
    BY DEF Unsent
  <1>3. msg'[w].gen # g /\ \A m \in queue' : m.gen # g
    BY <1>2, WorkerTakes
  <1> QED BY <1>2, <1>3, OthersCarry

(* A step of a worker leaves every active task with somebody.              *)
LEMMA CarriedOn ==
    ASSUME TypeInv, FileInv, TasksCarried, NEW w \in Workers, WorkerStep(w) \/ WorkerFault(w)
    PROVE  TasksCarried'
  <1> SUFFICES ASSUME Accounted', NEW g \in Gens, Active(g)' PROVE Carried(g)' \/ Awaited(g)'
    BY DEF TasksCarried
  <1>0. Accounted
    BY OthersCarry DEF Accounted
  <1>1. CASE \E m \in queue : m.gen = g
    BY <1>1, OthersCarry DEF Carried, Carries, Responsible, Unread, NoTask
  <1>2. CASE \E v \in Workers \ {w} : Carries(v, g)
    BY <1>2, OthersCarry DEF Carried, Carries, Responsible
  <1>3. CASE Active(g) /\ Carries(w, g)
    BY <1>3, WorkerCarries DEF Carries
  <1>4. CASE Active(g) /\ Awaited(g) /\ \A m \in queue : m.gen # g
    <2>1. ~Responsible(w, g) /\ task'[g] = task[g]
      BY <1>4, ReportersCarry DEF Awaited
    <2>2. dispatch' = dispatch
      BY WorkerReports DEF Reports
    <2>3. ~Responsible(w, g)' \/ Carried(g)'
      BY <1>4, <2>1, WorkerTakes DEF Carried
    <2>4. \A v \in Workers \ {w} : ~Responsible(v, g)'
      BY <1>4, OthersCarry DEF Awaited, Responsible
    <2> QED BY <1>4, <2>1, <2>2, <2>3, <2>4 DEF Awaited, Untaken
  <1>5. CASE ~Active(g)
    <2>1. task'[g] # task[g]
      BY <1>5 DEF Active
    <2> QED BY <1>5, <2>1, ReportersCarry, WorkerCarries
  <1> QED BY <1>0, <1>1, <1>2, <1>3, <1>4, <1>5 DEF TasksCarried, Carried

(* OwnerInv holds at first. *)
LEMMA OwnerInit == IngestionInit => OwnerInv
  BY DEF IngestionInit, StoreInit, WorkersInit, OwnerInv, TasksCarried, CancelledDeleted,
         Unsent, Active, NoTask, NoMessage, Gens

(* Every step keeps OwnerInv. *)
LEMMA OwnerNext == TypeInv /\ FileInv /\ OwnerInv /\ [IngestionNext]_ingestVars => OwnerInv'
  <1> SUFFICES ASSUME TypeInv, FileInv, OwnerInv, [IngestionNext]_ingestVars PROVE OwnerInv'
    OBVIOUS
  <1>0. /\ task \in [Gens -> Task] /\ dispatch \in [Gens -> DispatchState]
        /\ version \in 0..MaxVersion /\ metaTask \in 0..MaxVersion
        /\ MaxVersion \in Nat /\ MaxVersion >= 1 /\ 1 \in Gens
    BY BoundsAssumption DEF TypeInv, IngestionTypeOK, StoreTypeOK, Gens
  <1>1. ASSUME NEW w \in Workers, WorkerStep(w) \/ WorkerFault(w) PROVE OwnerInv'
    BY <1>1, CarriedOn, ReportsNotCancelled, UnsentStays DEF OwnerInv
  <1> USE DEF OwnerInv, TasksCarried, CancelledDeleted, Unsent, Carried, Carries, Awaited,
              Responsible, Active, Untaken, Accounted, workerVars, ingestionVars, storeVars,
              fileVars
  <1>2. CASE Upload \/ OrphanExpires \/ Lapse \/ UNCHANGED ingestVars
    BY <1>2 DEF Upload, OrphanExpires, ReleaseOrphan, Lapse, Spend, ingestVars
  <1>3. ASSUME NEW g \in Gens, CreateTask(g), ~deleted, g > metaTask PROVE OwnerInv'
    <2>1. /\ (\A m \in queue : m.gen # g) /\ \A w \in Workers : msg[w].gen # g
      BY <1>3
    <2>2. TasksCarried'
      BY <1>0, <1>3, <2>1 DEF CreateTask, SetTask
    <2>3. CancelledDeleted'
      BY <1>0, <1>3 DEF CreateTask, SetTask
    <2>4. Unsent'
      BY <1>0, <1>3 DEF CreateTask, Gens
    <2> QED BY <2>2, <2>3, <2>4
  <1>4. CASE Enqueue
    <2>1. ~deleted /\ metaTask = 0
      BY <1>4 DEF Enqueue, FileInv, FirstTask, Known
    <2> QED BY <1>0, <1>3, <1>4, <2>1 DEF Enqueue
  <1>5. CASE Reparse
    <2>1. version + 1 \in Gens /\ version + 1 > metaTask /\ ~deleted /\ CreateTask(version + 1)
      BY <1>0, <1>5 DEF Reparse, FileInv, FirstTask, Gens
    <2> QED BY <1>3, <2>1
  <1>6. ASSUME NEW g \in Gens, Publish(g) \/ PublishRaises(g) PROVE OwnerInv'
    <2>1. /\ queue \subseteq queue'
          /\ queue' \subseteq queue \cup {[gen |-> g, retries |-> 0]}
          /\ \/ [gen |-> g, retries |-> 0] \in queue'
             \/ dispatch'[g] = "unsure" /\ dispatch[g] = "publishing"
          /\ dispatch[g] = "publishing"
          /\ \A h \in Gens \ {g} : dispatch'[h] = dispatch[h]
          /\ UNCHANGED <<storeVars, workerVars>>
      BY <1>0, <1>6 DEF Publish, PublishRaises
    <2>2. ~(g > metaTask)
      BY <2>1
    <2>3. TasksCarried'
      BY <2>1
    <2>4. CancelledDeleted'
      BY <2>1
    <2>5. Unsent'
      BY <2>1, <2>2
    <2> QED BY <2>3, <2>4, <2>5
  <1>7. ASSUME NEW g \in Gens, Recheck(g) PROVE OwnerInv'
    <2>1. CASE Untaken(g)
      BY <1>0, <1>7, <2>1 DEF Recheck, SetTask
    <2>2. CASE ~Untaken(g)
      BY <1>0, <1>7, <2>2 DEF Recheck
    <2> QED BY <2>1, <2>2
  <1>8. ASSUME NEW g \in Gens, ApiCrash(g) PROVE OwnerInv'
    BY <1>0, <1>8 DEF ApiCrash, Spend
  <1>9. CASE Delete
    BY <1>0, <1>9 DEF Delete, PrepareDeletion, CancelTasks
  <1>10. ASSUME NEW g \in Gens, Revoke(g) PROVE OwnerInv'
    <2>1. ~Active(g)
      BY <1>10 DEF Revoke, FileInv, OneActive, Current
    <2> QED BY <1>10, <2>1 DEF Revoke
  <1> QED BY <1>1, <1>2, <1>4, <1>5, <1>6, <1>7, <1>8, <1>9, <1>10
          DEF IngestionNext, User, ApiStep

(* Unless the API dies, the broker refuses a retry or MySQL is gone at the  *)
(* wrong moment, an active task always has somebody who ends it.            *)
THEOREM ActiveOwnedCorrect == IngestionSpec => []ActiveOwned
  <1>1. OwnerInv => ActiveOwned
    BY DEF OwnerInv, TasksCarried, Carried, Carries, Awaited, ActiveOwned
  <1> QED BY <1>1, OwnerInit, OwnerNext, TypeInvariance, FileInvariance, PTL DEF IngestionSpec

-----------------------------------------------------------------------------
(***************************************************************************)
(* Ingestion implements DocumentIndex: whatever workers, retries, crashes  *)
(* and lost leases do, the owner of the document sees the behaviour of the *)
(* abstract specification.  Every step of the API and of the workers is    *)
(* shown to be an abstract step or to leave the abstract state alone.      *)
(***************************************************************************)

(* Nothing is written for a generation before it exists. *)
FutureEmpty == \A g \in Gens : g > version => rows[g] = {}

(* A document whose id is known has a task in its file row. *)
TaskKnown == dispatch[1] \in {"publishing", "unsure", "done"} => metaTask # 0

(* The object is stored with the row, and only a deletion removes it. *)
OriginalStored == ~deleted => (raw <=> version # 0)

(* A document that is not there yet has not failed. *)
FreshRow == version = 0 => docStatus = "PENDING"

MapInv == FutureEmpty /\ TaskKnown /\ OriginalStored /\ FreshRow

-----------------------------------------------------------------------------
(* MapInv holds at first. *)
LEMMA MapInit == IngestionInit => MapInv
  BY BoundsAssumption
     DEF IngestionInit, StoreInit, WorkersInit, MapInv, FutureEmpty, TaskKnown,
         OriginalStored, FreshRow, Gens

(* Rows are written for the current generation only, so a later generation  *)
(* starts empty.                                                            *)
LEMMA FutureNext ==
    ASSUME TypeInv, MapInv, IngestionNext, version' \in Nat, version' >= version
    PROVE  FutureEmpty'
  <1>0. /\ version \in 0..MaxVersion /\ MaxVersion \in Nat
        /\ rows \in [Gens -> SUBSET Chunks]
    BY BoundsAssumption DEF TypeInv, IngestionTypeOK, StoreTypeOK
  <1> SUFFICES ASSUME NEW g \in Gens, g > version' PROVE rows'[g] = {}
    BY DEF FutureEmpty
  <1>1. g > version /\ rows[g] = {}
    BY <1>0 DEF MapInv, FutureEmpty, Gens
  <1>2. CASE rows' = rows
    BY <1>1, <1>2
  <1>3. CASE \E w \in Workers :
                 /\ msg[w].gen \in Gens /\ Current(msg[w].gen)
                 /\ rows' = [rows EXCEPT ![msg[w].gen] = Chunks]
    BY <1>0, <1>1, <1>3 DEF Current, Gens
  <1> QED BY <1>2, <1>3, RowsStep

(* What a step of a worker leaves alone. *)
LEMMA WorkerFrame ==
    ASSUME NEW w \in Workers, WorkerStep(w) \/ WorkerFault(w)
    PROVE  UNCHANGED <<version, deleted, metaTask, raw>>
  <1> USE DEF Step, Progress, Report, Handled, fileVars, dataVars, storeVars
  <1>1. CASE WorkerFault(w)
    BY <1>1 DEF WorkerFault, Crash, Redeliver, ContendLost, RequeueLost, FailUnrecorded
  <1>2. CASE WorkerStep(w)
    BY <1>2
       DEF WorkerStep, Receive, Admit, Acquire, Contend, LoadTask, Check, Load, Parse,
           Slice, Persist, Prepare, Scan, Scanned, Counted, Embed, Embedded, Index, Upsert,
           Upserted, Confirm, Confirmed, Finish, Abandon, LeaseGone, CallFails, Diagnose,
           Fail, FailStale, Requeue, Unlock
  <1> QED BY <1>1, <1>2

(* Every step keeps MapInv. *)
LEMMA MapNext ==
    TypeInv /\ FileInv /\ MapInv /\ [IngestionNext]_ingestVars => MapInv'
  <1> SUFFICES ASSUME TypeInv, FileInv, MapInv, [IngestionNext]_ingestVars
               PROVE  MapInv'
    OBVIOUS
  <1>0. /\ version \in 0..MaxVersion /\ MaxVersion \in Nat /\ MaxVersion >= 1
        /\ dispatch \in [Gens -> DispatchState] /\ 1 \in Gens
    BY BoundsAssumption DEF TypeInv, IngestionTypeOK, StoreTypeOK, Gens
  <1>1. CASE UNCHANGED ingestVars
    BY <1>1 DEF ingestVars, storeVars, ingestionVars, MapInv, FutureEmpty,
                TaskKnown, OriginalStored, FreshRow
  <1>2. CASE IngestionNext
    <2>1. /\ version' \in Nat /\ version' >= version
          /\ TaskKnown' /\ OriginalStored' /\ FreshRow'
      <3> USE <1>0 DEF MapInv, TaskKnown, OriginalStored, FreshRow
      <3>1. ASSUME NEW w \in Workers, WorkerStep(w) \/ WorkerFault(w)
            PROVE  /\ version' \in Nat /\ version' >= version
                   /\ TaskKnown' /\ OriginalStored' /\ FreshRow'
        <4>1. UNCHANGED dispatch
          BY <3>1, WorkerReports DEF Reports, fileVars
        <4>2. docStatus' = docStatus \/ version # 0
          BY <3>1, WorkerReports DEF Reports, Current, Gens, fileVars
        <4> QED BY <3>1, <4>1, <4>2, WorkerFrame
      <3>2. CASE Upload
        BY <3>2 DEF Upload, ingestionVars, FileInv, FirstTask
      <3>3. CASE Enqueue
        BY <3>3 DEF Enqueue, CreateTask, dataVars
      <3>4. CASE Reparse
        BY <3>4 DEF Reparse, CreateTask, dataVars, Known, FileInv, FirstTask
      <3>5. ASSUME NEW g \in Gens, Publish(g) \/ PublishRaises(g) \/ Recheck(g) \/ ApiCrash(g)
            PROVE  /\ version' \in Nat /\ version' >= version
                   /\ TaskKnown' /\ OriginalStored' /\ FreshRow'
        <4>1. Untaken(g) => version # 0
          BY DEF Untaken, FileInv, OneActive, Active, Current, Gens
        <4> QED BY <3>5, <4>1 DEF Publish, PublishRaises, Recheck, ApiCrash,
                                  storeVars, dataVars, fileVars
      <3>6. CASE Delete \/ OrphanExpires \/ Lapse \/ \E g \in Gens : Revoke(g)
        BY <3>6 DEF Delete, PrepareDeletion, OrphanExpires, ReleaseOrphan, Lapse,
                    Revoke, ingestionVars, storeVars, fileVars, dataVars
      <3> QED BY <1>2, <3>1, <3>2, <3>3, <3>4, <3>5, <3>6
              DEF IngestionNext, User, ApiStep
    <2>2. FutureEmpty'
      BY <1>2, <2>1, FutureNext
    <2> QED BY <2>1, <2>2 DEF MapInv
  <1> QED BY <1>1, <1>2

(* MapInv holds in every reachable state. *)
LEMMA MapInvariance == IngestionSpec => []MapInv
  BY MapInit, MapNext, TypeInvariance, FileInvariance, PTL DEF IngestionSpec

(* A worker about to report success for the current generation has seen all *)
(* its passages.                                                            *)
Complete ==
    \A w \in Workers : (pc[w] = "finish" /\ Current(msg[w].gen)) => Found = Chunks

-----------------------------------------------------------------------------
(* Steps that leave the file row, its tasks, the rows, the points and the   *)
(* object alone are not seen.                                               *)
LEMMA Unseen ==
    UNCHANGED <<version, deleted, docStatus, metaTask, task, rows, points, raw>>
      => UNCHANGED Promise!indexVars
  BY DEF Promise!indexVars, Phase, Active, Found

(* A deleted document stays as it is seen, whatever late workers still do.  *)
LEMMA DeletedUnseen ==
    deleted /\ UNCHANGED <<version, deleted>> => UNCHANGED Promise!indexVars
  BY DEF Promise!indexVars, Phase, Found

(* When a document exists for its owner. *)
LEMMA ExistsRow ==
    ASSUME TypeInv
    PROVE  Promise!Exists <=> ~deleted /\ version # 0
  BY DEF TypeInv, IngestionTypeOK, StoreTypeOK, DocStatus, Promise!Exists, Phase

(* A worker report is a phase; chunk rows and points that are added to  *)
(* the current generation are passages collected.                           *)
LEMMA WorkerMaps ==
    ASSUME TypeInv, FileInv, MapInv, Complete,
           NEW w \in Workers, WorkerStep(w) \/ WorkerFault(w)
    PROVE  [Promise!IndexNext]_Promise!indexVars
  <1>0. /\ UNCHANGED <<version, deleted, raw>>
        /\ version \in 0..MaxVersion
    BY WorkerFrame DEF TypeInv, IngestionTypeOK, StoreTypeOK
  <1>1. CASE deleted
    BY <1>0, <1>1, DeletedUnseen
  <1>2. CASE ~deleted /\ UNCHANGED fileVars
    <2>1. CASE version = 0
      BY <1>0, <1>2, <2>1 DEF Promise!indexVars, Phase, Found, fileVars
    <2>2. CASE version # 0
      <3>1. version \in Gens
        BY <1>0, <2>2 DEF Gens
      <3>2. Found \subseteq Found' /\ Found' \in SUBSET Chunks
        BY <1>0, <1>2, <2>2, <3>1, WorkerCollects DEF Found
      <3>3. Phase' = Phase /\ (raw /\ ~deleted)' = (raw /\ ~deleted)
        BY <1>0, <1>2 DEF Phase, Active, fileVars
      <3> QED BY <1>0, <1>2, <2>2, <3>2, <3>3, ExistsRow
              DEF Promise!IndexNext, Promise!Collect
    <2> QED BY <2>1, <2>2
  <1>3. CASE ~deleted /\ ~UNCHANGED fileVars
    <2>1. msg[w].gen \in Gens /\ Reports(w)
      BY <1>3, WorkerReports
    <2>2. version \in Gens /\ version # 0
      BY <2>1 DEF Reports, Current, Gens
    <2>3. UNCHANGED <<rows, points>>
      BY <1>3
         DEF WorkerStep, WorkerFault, Receive, Admit, Acquire, Contend, LoadTask, Check,
             Load, Parse, Slice, Persist, Prepare, Scan, Scanned, Counted, Embed, Embedded,
             Index, Upsert, Upserted, Confirm, Confirmed, Finish, Abandon,
             LeaseGone, CallFails, Diagnose, Fail, FailStale, Requeue, Unlock, Crash,
             Redeliver, ContendLost, RequeueLost, FailUnrecorded, Progress, Report,
             fileVars, dataVars, storeVars
    <2>4. Found' = Found /\ (raw /\ ~deleted)' = (raw /\ ~deleted)
      BY <1>0, <2>3 DEF Found
    <2>5. CASE docStatus' # "DONE"
      <3>1. Phase' \in {"pending", "failed"}
        BY <1>0, <1>3, <2>2, <2>5 DEF Phase
      <3> QED BY <1>0, <1>3, <2>2, <2>4, <3>1, ExistsRow
              DEF Promise!IndexNext, Promise!Withhold
    <2>6. CASE docStatus' = "DONE" /\ docStatus = "DONE"
      <3>1. Phase' = Phase
        BY <1>0, <1>3, <2>6 DEF Phase
      <3> QED BY <1>0, <2>4, <3>1 DEF Promise!indexVars
    <2>7. CASE docStatus' = "DONE" /\ docStatus # "DONE"
      <3>1. Phase' = "served"
        BY <1>0, <1>3, <2>2, <2>7 DEF Phase
      <3>2. Finish(w)
        BY <2>7, WorkerDone
      <3>3. Current(msg[w].gen) /\ pc[w] = "finish"
        BY <3>2 DEF Finish, Report, Step, Proceeds, Gen, Raise, Unwind, Goto
      <3>4. Found = Chunks
        BY <3>3 DEF Complete
      <3> QED BY <1>0, <1>3, <2>2, <2>4, <3>1, <3>4, ExistsRow
              DEF Promise!IndexNext, Promise!Serve
    <2> QED BY <2>5, <2>6, <2>7
  <1> QED BY <1>1, <1>2, <1>3

(* Uploading, reparsing and deleting are what they are called; publishing a *)
(* task, and failing one that could not be published, is not seen or shows  *)
(* the document as failed.                                                  *)
LEMMA ApiMaps ==
    ASSUME TypeInv, FileInv, MapInv, Complete, User \/ ApiStep
    PROVE  [Promise!IndexNext]_Promise!indexVars
  <1>0. /\ version \in 0..MaxVersion /\ MaxVersion \in Nat /\ 1 \in Gens
        /\ docStatus \in DocStatus /\ task \in [Gens -> Task]
    BY BoundsAssumption DEF TypeInv, IngestionTypeOK, StoreTypeOK, Gens
  <1> USE DEF dataVars, fileVars, storeVars, FileInv
  <1>1. CASE Upload
    <2>1. ~deleted /\ docStatus = "PENDING" /\ metaTask = 0
      BY <1>0, <1>1 DEF Upload, FirstTask, Known, MapInv, FreshRow
    <2>2. rows[1] = {} /\ ~raw
      BY <1>0, <1>1, <2>1 DEF Upload, MapInv, FutureEmpty, OriginalStored
    <2>3. /\ version' = 1 /\ raw' /\ UNCHANGED <<deleted, docStatus, metaTask, rows, points>>
          /\ version = 0
      BY <1>1 DEF Upload
    <2>4. Phase = "absent" /\ Found = {} /\ Found' = {}
      BY <2>1, <2>2, <2>3 DEF Phase, Found
    <2>5. Phase' = "pending"
      BY <2>1, <2>3 DEF Phase
    <2> QED BY <2>1, <2>2, <2>3, <2>4, <2>5 DEF Promise!IndexNext, Promise!Add
  <1>2. CASE Enqueue
    <2>1. ~deleted /\ version = 1 /\ version' = 1 /\ docStatus' = "PENDING"
      BY <1>2 DEF Enqueue, CreateTask, FirstTask, Known
    <2>2. task'[1].status = "PENDING"
      BY <1>0, <1>2 DEF Enqueue, CreateTask, SetTask
    <2>3. Phase' = "pending"
      BY <1>2, <2>1, <2>2 DEF Enqueue, CreateTask, Phase, Active
    <2>4. Found' = Found /\ (raw /\ ~deleted)' = (raw /\ ~deleted)
      BY <1>2, <2>1 DEF Enqueue, CreateTask, Found
    <2> QED BY <2>1, <2>3, <2>4, ExistsRow DEF Promise!IndexNext, Promise!Withhold
  <1>3. CASE Reparse
    <2>1. /\ ~deleted /\ version \in Gens /\ version + 1 \in Gens
          /\ version' = version + 1 /\ docStatus' = "PENDING"
          /\ UNCHANGED <<deleted, rows, points, raw>>
      BY <1>0, <1>3 DEF Reparse, CreateTask, Gens, Known, FirstTask
    <2>2. metaTask # 0 /\ ~Active(version)
      BY <1>3 DEF Reparse, Known, MapInv, TaskKnown
    <2>3. Phase \in {"served", "failed"}
      BY <2>1, <2>2 DEF Phase, Gens
    <2>4. rows[version + 1] = {}
      BY <1>0, <2>1 DEF MapInv, FutureEmpty, Gens
    <2>5. task'[version + 1].status = "PENDING" /\ metaTask' = version + 1
      BY <1>0, <1>3, <2>1 DEF Reparse, CreateTask, SetTask
    <2>6. Phase' = "pending"
      BY <1>0, <2>1, <2>5 DEF Phase, Active, Gens
    <2>7. Found' = {} /\ (raw /\ ~deleted)' = (raw /\ ~deleted)
      BY <1>0, <2>1, <2>4 DEF Found, Gens
    <2> QED BY <2>1, <2>3, <2>6, <2>7 DEF Promise!IndexNext, Promise!Renew
  <1>4. CASE Delete
    <2>1. /\ ~deleted /\ deleted' /\ version # 0
          /\ UNCHANGED version
      BY <1>0, <1>4 DEF Delete, PrepareDeletion, Known, FirstTask
    <2>2. Phase' = "deleted" /\ Found' = {} /\ (raw /\ ~deleted)' = FALSE
      BY <2>1 DEF Phase, Found
    <2> QED BY <2>1, <2>2, ExistsRow DEF Promise!IndexNext, Promise!Remove
  <1>5. ASSUME NEW g \in Gens, Recheck(g)
        PROVE  [Promise!IndexNext]_Promise!indexVars
    <2>1. CASE Untaken(g)
      <3>1. version = g /\ ~deleted /\ version # 0
        BY <2>1 DEF Untaken, OneActive, Active, Current, Gens
      <3>2. /\ docStatus' = "FAILED"
            /\ UNCHANGED <<version, deleted, rows, points, raw>>
        BY <1>5, <2>1 DEF Recheck
      <3>3. Phase' \in {"pending", "failed"}
        BY <3>1, <3>2 DEF Phase
      <3>4. Found' = Found /\ (raw /\ ~deleted)' = (raw /\ ~deleted)
        BY <3>1, <3>2 DEF Found
      <3> QED BY <3>1, <3>2, <3>3, <3>4, ExistsRow DEF Promise!IndexNext, Promise!Withhold
    <2>2. CASE ~Untaken(g)
      BY <1>5, <2>2, Unseen DEF Recheck
    <2> QED BY <2>1, <2>2
  <1>6. CASE \E g \in Gens : Revoke(g) \/ Publish(g) \/ PublishRaises(g)
    BY <1>6, Unseen DEF Revoke, Publish, PublishRaises
  <1> QED BY <1>1, <1>2, <1>3, <1>4, <1>5, <1>6 DEF User, ApiStep

(* The initial state is the abstract initial state. *)
LEMMA InitMaps == IngestionInit => Promise!IndexInit
  BY DEF IngestionInit, StoreInit, Promise!IndexInit, Phase, Found

(* Every step is a step of the promise or is not seen, wherever a worker    *)
(* that reports success has seen everything.                                *)
LEMMA NextMaps ==
    TypeInv /\ FileInv /\ MapInv /\ Complete /\ [IngestionNext]_ingestVars
      => [Promise!IndexNext]_Promise!indexVars
  <1> SUFFICES ASSUME TypeInv, FileInv, MapInv, Complete, [IngestionNext]_ingestVars
               PROVE  [Promise!IndexNext]_Promise!indexVars
    OBVIOUS
  <1>1. CASE OrphanExpires \/ Lapse \/ \E g \in Gens : ApiCrash(g)
    BY <1>1, Unseen DEF OrphanExpires, ReleaseOrphan, Lapse, ApiCrash, fileVars, dataVars
  <1>2. CASE UNCHANGED ingestVars
    BY <1>2, Unseen DEF ingestVars, storeVars
  <1> QED BY <1>1, <1>2, WorkerMaps, ApiMaps DEF IngestionNext

(* Ingestion keeps the promise of DocumentIndex for any number of workers,  *)
(* generations, chunks, retries and faults.                                 *)
THEOREM PromiseKept == IngestionSpec => KeepsPromise
  <1>1. TypeInv /\ DataInv => Complete
    <2> SUFFICES ASSUME TypeInv, DataInv, NEW w \in Workers, pc[w] = "finish", Current(msg[w].gen)
                 PROVE  Found = Chunks
      BY DEF Complete
    <2>1. version \in Gens /\ ~deleted /\ msg[w].gen = version
      BY BusyMessage DEF Current
    <2>2. rows[version] = Chunks /\ points[version] = Chunks
      BY <2>1 DEF DataInv, WorkersKnow, KnowsWhole, Prepared
    <2> QED BY <2>1, <2>2 DEF Found, Gens
  <1> QED BY <1>1, InitMaps, NextMaps, TypeInvariance, FileInvariance, DataInvariance,
             MapInvariance, PTL DEF IngestionSpec, KeepsPromise, Promise!IndexSpec

===============================================================================
