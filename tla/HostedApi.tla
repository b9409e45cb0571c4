------------------------------ MODULE HostedApi ------------------------------
(***************************************************************************)
(* What a caller gets from a hosted model or from Qdrant: every transport  *)
(* of the repository runs its request through retry_call, reads the answer *)
(* of the last attempt, and raises on anything but a JSON object.          *)
(***************************************************************************)
EXTENDS Naturals, Sequences, FiniteSets, FiniteSetsExt

CONSTANT MaxRetries  \* RetryPolicy.max_retries

ASSUME HostedAssumption == MaxRetries \in Nat

(* What one attempt may meet: a good answer; an answer that is no object;   *)
(* a network error or 408, 425, 429 and 5xx, before or after the service    *)
(* has done the work; any other status.                                     *)
Replies == {"ok", "garbled", "transient", "late", "refused"}

(* The retryable ones, as the client sees them. *)
Retryable(reply) == reply \in {"transient", "late"}

(* One reply for every attempt the policy allows. *)
Tries == [1..(MaxRetries + 1) -> Replies]

(* retry_call: the attempt whose outcome the caller sees. *)
LastAttempt(tries) ==
    Min({a \in DOMAIN tries : ~Retryable(tries[a]) \/ a = MaxRetries + 1})

Answered(tries) == tries[LastAttempt(tries)] = "ok"

(* The service has done the work in some attempt, whatever the caller saw. *)
Performed(tries) ==
    \E a \in 1..LastAttempt(tries) : tries[a] \in {"ok", "garbled", "late"}

(* All that can come of a call. *)
Calls == {[answered |-> Answered(t), performed |-> Performed(t)] : t \in Tries}

=============================================================================
