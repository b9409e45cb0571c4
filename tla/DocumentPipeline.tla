-------------------------- MODULE DocumentPipeline --------------------------
(***************************************************************************)
(* Ingestion and cleanup of one document together. Both run in the Celery  *)
(* workers, share the database, MinIO, Qdrant and the document's Redis     *)
(* lock, and know of each other only through them: a finished or deleted   *)
(* generation leaves a cleanup job, and a worker of either kind that finds *)
(* the lock taken comes back later.                                        *)
(***************************************************************************)
EXTENDS Ingestion, Cleanup

pipelineVars == <<storeVars, ingestionVars, cleanupVars>>

PipelineInit == IngestionInit /\ CleanersInit

PipelineNext ==
    \/ IngestionNext /\ UNCHANGED cleanupVars
    \/ CleanupNext /\ UNCHANGED ingestionVars

PipelineSpec == PipelineInit /\ [][PipelineNext]_pipelineVars

-----------------------------------------------------------------------------
(* Properties *)

(* Whatever lags behind or is retried, at most one worker of either kind    *)
(* writes to the document's chunk rows, points and object at a time.        *)
Exclusive ==
    "lapse" \notin faults =>
        /\ \A v, w \in Workers : Indexing(v) /\ Indexing(w) => v = w
        /\ \A v, w \in Cleaners : Deleting(v) /\ Deleting(w) => v = w
        /\ \A v \in Workers, w \in Cleaners : ~(Indexing(v) /\ Deleting(w))

(* Deletion is complete for good: once the deletion job has succeeded, no   *)
(* worker that was still indexing brings anything back.                     *)
NothingLeft ==
    ("lapse" \notin faults /\ jobs[0].status = "SUCCESS") =>
        /\ ~raw
        /\ \A g \in Gens : rows[g] = {} /\ points[g] = {}

(* No point is ever stranded: a point in Qdrant has its chunk row, or else  *)
(* no cleanup job could find it any more.                                   *)
NoneStranded ==
    "lapse" \notin faults => \A g \in Gens : points[g] \subseteq rows[g]

(* Old data always has an owner: chunk rows of an older generation belong   *)
(* to a document that is not yet done, or to a job; rows of a deleted file  *)
(* belong to its deletion job, which has not succeeded yet.                 *)
RowsOwned ==
    \A g \in Gens : rows[g] # {} =>
        /\ deleted => jobs[0].status \notin {"NONE", "SUCCESS"}
        /\ (~deleted /\ g < version /\ docStatus = "DONE")
              => jobs[g].status \notin {"NONE", "SUCCESS"}

=============================================================================
