--------------------------- MODULE DocumentIndex ---------------------------
(***************************************************************************)
(* What the document subsystem promises those who ask questions: one       *)
(* document seen from load_scoped_chunks, without tasks, workers, locks,   *)
(* messages or cleanup.  A document is answered from as a whole or not at  *)
(* all, its passages are never thinned out while it exists, it is indexed  *)
(* afresh only when the last attempt is over, and a deletion is final.     *)
(*                                                                         *)
(* The phase may go back from served to pending or failed: a message that  *)
(* is delivered twice makes the code do that (see SuccessSticks).          *)
(***************************************************************************)
EXTENDS Naturals

CONSTANT Passages       \* the passages a document consists of

VARIABLES
    edition,    \* how often the document was submitted for indexing
    phase,      \* what its owner is shown
    found,      \* the passages of this edition that can be found
    original    \* the uploaded file can be read

indexVars == <<edition, phase, found, original>>

IndexInit ==
    /\ edition = 0
    /\ phase = "absent"
    /\ found = {}
    /\ original = FALSE

Exists == phase \in {"pending", "served", "failed"}

Add ==
    /\ phase = "absent"
    /\ edition' = 1
    /\ phase' = "pending"
    /\ original' = TRUE
    /\ UNCHANGED found

(* Passages become findable, never the reverse, whatever the phase.        *)
Collect ==
    /\ Exists
    /\ found' \in SUBSET Passages
    /\ found \subseteq found'
    /\ UNCHANGED <<edition, phase, original>>

(* An attempt begins, waits for its retry, or fails. *)
Withhold ==
    /\ Exists
    /\ phase' \in {"pending", "failed"}
    /\ UNCHANGED <<edition, found, original>>

Serve ==
    /\ Exists
    /\ found = Passages
    /\ phase' = "served"
    /\ UNCHANGED <<edition, found, original>>

Renew ==
    /\ phase \in {"served", "failed"}
    /\ edition' = edition + 1
    /\ phase' = "pending"
    /\ found' = {}
    /\ UNCHANGED original

Remove ==
    /\ Exists
    /\ phase' = "deleted"
    /\ found' = {}
    /\ original' = FALSE
    /\ UNCHANGED edition

IndexNext == Add \/ Collect \/ Withhold \/ Serve \/ Renew \/ Remove

IndexSpec == IndexInit /\ [][IndexNext]_indexVars

=============================================================================
