----------------------------- MODULE MCPipeline -----------------------------
(* Values for model checking DocumentPipeline. *)
EXTENDS DocumentPipeline, MCIngestion, MCCleanup

PipelineView ==
    <<WorkerView, jobQueue, step, job, [w \in Cleaners |-> CleanerMatters(w)]>>

=============================================================================
