----------------------------- MODULE MCCleanup -----------------------------
(* Values for model checking Cleanup on its own. *)
EXTENDS Cleanup, TLC

(* Each generation was indexed into another collection. *)
CollectionPerGen == [g \in 1..MaxVersion |-> IF g = 1 THEN "old" ELSE "new"]

CleanerSymmetry == Permutations(Cleaners) \cup Permutations(Chunks)

(* States that differ only in what nothing will ever look at again are one  *)
(* to TLC: at its end a worker looks at its errors, and then at nothing.    *)
CleanerMatters(w) ==
    CASE step[w] = "release" -> <<>>
      [] step[w] \in {"close", "handle"} -> <<errors[w]>>
      [] OTHER -> <<errors[w], visit[w], here[w], targets[w], unsaved[w]>>

CleanerView ==
    <<storeVars, jobQueue, step, job, [w \in Cleaners |-> CleanerMatters(w)]>>

=============================================================================
