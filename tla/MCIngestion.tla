---------------------------- MODULE MCIngestion ----------------------------
(* Values for model checking Ingestion on its own. *)
EXTENDS Ingestion, TLC

OneCollection == [g \in 1..MaxVersion |-> "jina"]

WorkerSymmetry == Permutations(Workers) \cup Permutations(Chunks)

-----------------------------------------------------------------------------
(* States that differ only in what nothing will ever look at again are one  *)
(* to TLC.                                                                  *)

(* Of a task that is no longer the current one the code asks whether it is  *)
(* active, untaken or cancelled, and a worker only once more: that it is    *)
(* not the current one.                                                     *)
TaskMatters(g) ==
    IF Current(g) THEN task[g]
    ELSE <<Active(g), Untaken(g), task[g].stage = "CANCELLED">>

Late(w) == pc[w] # "idle" /\ ~Current(Gen(w))

(* So what such a worker has read, and handles, only shows how far it is. *)
WorkerMatters(w) ==
    IF Late(w) THEN <<Loaded(w)>> ELSE <<read[w], failedStage[w], exc[w]>>

FileMatters == IF deleted THEN <<>> ELSE <<docStatus, torn>>

WorkerView ==
    <<version, deleted, metaTask, FileMatters, [g \in Gens |-> TaskMatters(g)],
      dataVars, jobs, lock, faults, brokerVars, pc, msg, todo,
      [w \in Workers |-> WorkerMatters(w)]>>

=============================================================================
