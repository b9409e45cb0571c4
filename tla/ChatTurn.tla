------------------------------ MODULE ChatTurn ------------------------------
(***************************************************************************)
(* The turns of one chat session. A request takes the session by setting   *)
(* its status to executing in the transaction that stores the question,    *)
(* registers an abort flag in the API process, streams the answer and      *)
(* stores it in a transaction of its own, whatever ended the stream: the   *)
(* model, an error, an explicit abort or a client that went away.          *)
(*                                                                         *)
(* The API is one process with one event loop (uvicorn --workers 1): an    *)
(* action is what happens between two awaits or yields. What is answered   *)
(* is left out; a message is its role and the turn it belongs to.          *)
(***************************************************************************)
EXTENDS Naturals, Sequences, FiniteSets

CONSTANTS
    Requests,    \* requests of the session's owner, each asking one question
    None,        \* value of the registry without an entry for the session
    Faults,      \* the kinds of fault that may happen, each once
    MaxFaults    \* bound on how many of them happen in one behaviour

(* lost: a turn is committed but its stream never starts; database: MySQL    *)
(* does not store answers from then on, or only some; unsure: an answer is   *)
(* committed and its stream does not learn of it, because a disconnect or a  *)
(* lost connection comes between; restart: the API process dies.             *)
FaultKinds == {"lost", "database", "unsure", "restart"}

ASSUME RequestsAssumption ==
    /\ None \notin Requests
    /\ Faults \subseteq FaultKinds
    /\ MaxFaults \in Nat

VARIABLES
    status,     \* chat_session.status; none: no row yet, gone: deleted
    messages,   \* chat_message rows in the order of their ids
    active,     \* ACTIVE_TURNS[session_id]: whose abort flag is registered
    raised,     \* requests whose abort flag is set
    pc,         \* what each request does next
    outcome,    \* state.status of each stream
    deletion,   \* how far a request to delete the session has come
    faults      \* the kinds of fault that have happened

vars == <<status, messages, active, raised, pc, outcome, deletion, faults>>

Outcome == {"done", "aborted", "error"}

(* Waiting to be answered: begun and not yet stored for good. *)
Turning == {"begun", "starting", "streaming", "saving", "erring", "dropped",
            "closing", "detached"}

Message == [role : {"user", "assistant"}, turn : Requests]

ChatTypeOK ==
    /\ status \in {"none", "executing", "gone"} \cup Outcome
    /\ messages \in Seq(Message)
    /\ active \in Requests \cup {None}
    /\ raised \subseteq Requests
    /\ pc \in [Requests -> {"idle", "validated", "leaving", "over"} \cup Turning]
    /\ outcome \in [Requests -> Outcome]
    /\ deletion \in {"idle", "checked"}
    /\ faults \subseteq FaultKinds

Init ==
    /\ status = "none"
    /\ messages = <<>>
    /\ active = None
    /\ raised = {}
    /\ pc = [r \in Requests |-> "idle"]
    /\ outcome = [r \in Requests |-> "error"]
    /\ deletion = "idle"
    /\ faults = {}

-----------------------------------------------------------------------------
Spend(f) ==
    /\ f \in Faults \ faults
    /\ Cardinality(faults) < MaxFaults
    /\ faults' = faults \cup {f}

Goto(r, step) == pc' = [pc EXCEPT ![r] = step]

Move(r, from, to) ==
    /\ pc[r] = from
    /\ Goto(r, to)

(* The question is stored and the session taken, in one transaction. *)
Take(r) ==
    /\ status' = "executing"
    /\ messages' = Append(messages, [role |-> "user", turn |-> r])
    /\ UNCHANGED <<active, raised, outcome, deletion, faults>>

(* begin_turn without a session: its row is created. *)
Create(r) ==
    /\ Move(r, "idle", "begun")
    /\ status = "none"
    /\ Take(r)

(* _continuing_session; chunks and configuration are loaded after it. *)
Continue(r) ==
    /\ Move(r, "idle", "validated")
    /\ status \notin {"none", "gone"}
    /\ UNCHANGED <<status, messages, active, raised, outcome, deletion, faults>>

(* Slip: the session's status was looked at before. *)
BeginUnchecked(r) ==
    /\ Move(r, "validated", "begun")
    /\ status # "gone"
    /\ Take(r)

(* acquire_turn: one UPDATE that asks for the status it replaces. *)
Begin(r) ==
    /\ Move(r, "validated", "begun")
    /\ status \in Outcome
    /\ Take(r)

Refuse(r) ==
    /\ Move(r, "validated", "over")
    /\ status \notin Outcome
    /\ UNCHANGED <<status, messages, active, raised, outcome, deletion, faults>>

Register(r) ==
    /\ Move(r, "begun", "starting")
    /\ active' = r
    /\ UNCHANGED <<status, messages, raised, outcome, deletion, faults>>

(* The first iteration of events(). *)
Start(r) ==
    /\ Move(r, "starting", "streaming")
    /\ UNCHANGED <<status, messages, active, raised, outcome, deletion, faults>>

(* The acknowledgement of the commit is lost, or the response is never      *)
(* iterated: the generators' finally blocks do not run.                     *)
NeverStarted(r) ==
    /\ pc[r] \in {"begun", "starting"}
    /\ Spend("lost")
    /\ Goto(r, "over")
    /\ UNCHANGED <<status, messages, active, raised, outcome, deletion>>

(* The stream ends with an outcome that is now to be stored. *)
Ends(r, result, step) ==
    /\ Goto(r, step)
    /\ outcome' = [outcome EXCEPT ![r] = result]
    /\ UNCHANGED <<status, messages, active, raised, deletion>>

(* The done event. It may win against an abort raised at the same time. *)
Answered(r) ==
    /\ pc[r] = "streaming"
    /\ Ends(r, "done", "saving")
    /\ UNCHANGED faults

Interrupted(r) ==
    /\ pc[r] = "streaming"
    /\ r \in raised
    /\ Ends(r, "aborted", "saving")
    /\ UNCHANGED faults

SourceFails(r) ==
    /\ pc[r] = "streaming"
    /\ Ends(r, "error", "erring")
    /\ UNCHANGED faults

(* Slip: a stream that was cancelled does not store what it has. *)
DisconnectUnsaved(r) ==
    /\ pc[r] = "streaming"
    /\ Ends(r, "aborted", "leaving")
    /\ UNCHANGED faults

(* The client goes away while the stream waits for the model: CancelledError *)
(* inside the generators. While a frame is being sent: they are suspended,   *)
(* and the outer one is closed first, which ends the registration.           *)
Disconnect(r) ==
    /\ pc[r] = "streaming"
    /\ \E step \in {"closing", "dropped"} : Ends(r, "aborted", step)
    /\ UNCHANGED faults

Drop(r) ==
    /\ Move(r, "dropped", "detached")
    /\ active' = None
    /\ UNCHANGED <<status, messages, raised, outcome, deletion, faults>>

(* Slip: answers are kept though their session is gone. *)
StoreUnchecked(r) ==
    /\ messages' = Append(messages, [role |-> "assistant", turn |-> r])
    /\ status' = IF status = "gone" THEN status ELSE outcome[r]

(* persist_turn: answer, trace and status; the foreign key refuses an answer *)
(* to a session that is gone.                                                *)
Store(r) ==
    /\ status # "gone"
    /\ messages' = Append(messages, [role |-> "assistant", turn |-> r])
    /\ status' = outcome[r]

SavingSteps == {"saving", "erring", "closing", "detached"}

(* Slip: the flag saved is forgotten, and the last block stores once more. *)
PersistAgain(r) ==
    /\ pc[r] \in SavingSteps
    /\ Store(r)
    /\ Goto(r, IF pc[r] = "saving" THEN "closing" ELSE "leaving")
    /\ UNCHANGED <<active, raised, outcome, deletion, faults>>

Persist(r) ==
    /\ pc[r] \in SavingSteps
    /\ Store(r)
    /\ Goto(r, IF pc[r] = "detached" THEN "over" ELSE "leaving")
    /\ UNCHANGED <<active, raised, outcome, deletion, faults>>

(* A failure of the first attempt is handled by storing the error, and what  *)
(* is still not saved then is tried once more by the last finally block. The *)
(* transaction that fails is rolled back or, a fault, committed all the same. *)
PersistFails(r) ==
    /\ pc[r] \in SavingSteps
    /\ Goto(r, CASE pc[r] = "saving" -> "erring"
                 [] pc[r] = "erring" -> "closing"
                 [] pc[r] = "closing" -> "leaving"
                 [] OTHER -> "over")
    /\ outcome' = [outcome EXCEPT ![r] = IF pc[r] = "saving" THEN "error" ELSE @]
    /\ \/ /\ status = "gone" \/ "database" \in faults
          /\ UNCHANGED <<status, messages, faults>>
       \/ Spend("database") /\ UNCHANGED <<status, messages>>
       \/ Spend("unsure") /\ Store(r)
    /\ UNCHANGED <<active, raised, deletion>>

(* The client goes away while the first attempts run (the last is shielded): *)
(* before their commit, or, a fault, between the commit and the return.      *)
Cancelled(r) ==
    /\ pc[r] \in {"saving", "erring"}
    /\ Goto(r, "closing")
    /\ outcome' = [outcome EXCEPT ![r] = IF pc[r] = "saving" THEN "aborted" ELSE @]
    /\ \/ UNCHANGED <<status, messages, faults>>
       \/ Spend("unsure") /\ Store(r)
    /\ UNCHANGED <<active, raised, deletion>>

(* The last frame is sent, or not; then the registry's entry is removed. *)
Leave(r) ==
    /\ Move(r, "leaving", "over")
    /\ active' = None
    /\ UNCHANGED <<status, messages, raised, outcome, deletion, faults>>

-----------------------------------------------------------------------------
(* POST .../abort sets the flag that is registered, if any. *)
Abort ==
    /\ status \notin {"none", "gone"}
    /\ active # None
    /\ raised' = raised \cup {active}
    /\ UNCHANGED <<status, messages, active, pc, outcome, deletion, faults>>

(* DELETE: the row is read and the request refused if a turn is running; *)
DeleteCheck ==
    /\ deletion = "idle"
    /\ status \in Outcome
    /\ active = None
    /\ deletion' = "checked"
    /\ UNCHANGED <<status, messages, active, raised, pc, outcome, faults>>

(* then everything the session has is deleted, in one transaction. *)
DeleteCommit ==
    /\ deletion = "checked"
    /\ deletion' = "idle"
    /\ status' = "gone"
    /\ messages' = <<>>
    /\ UNCHANGED <<active, raised, pc, outcome, faults>>

(* Slip: recovery is left out. *)
RestartOnly ==
    /\ Spend("restart")
    /\ pc' = [r \in Requests |-> IF pc[r] = "idle" THEN "idle" ELSE "over"]
    /\ active' = None
    /\ raised' = {}
    /\ deletion' = "idle"
    /\ UNCHANGED <<status, messages, outcome>>

(* The process dies; the next one starts with recover_interrupted. *)
Restart ==
    /\ Spend("restart")
    /\ pc' = [r \in Requests |-> IF pc[r] = "idle" THEN "idle" ELSE "over"]
    /\ active' = None
    /\ raised' = {}
    /\ deletion' = "idle"
    /\ status' = IF status = "executing" THEN "error" ELSE status
    /\ UNCHANGED <<messages, outcome>>

Turn(r) ==
    \/ Begin(r) \/ Refuse(r) \/ Register(r) \/ Start(r)
    \/ Answered(r) \/ Interrupted(r) \/ SourceFails(r)
    \/ Drop(r) \/ Persist(r) \/ PersistFails(r) \/ Leave(r)

Next ==
    \/ \E r \in Requests : Create(r) \/ Continue(r)
    \/ \E r \in Requests : Turn(r) \/ Disconnect(r) \/ Cancelled(r) \/ NeverStarted(r)
    \/ Abort
    \/ DeleteCheck
    \/ DeleteCommit
    \/ Restart

ChatSpec == Init /\ [][Next]_vars

(* The event loop runs every request that can go on, and the model's stream *)
(* ends, or its client gives up after 90 seconds without data.              *)
FairChatSpec == ChatSpec /\ \A r \in Requests : WF_vars(Turn(r))

-----------------------------------------------------------------------------
(* Properties *)

Turns == {r \in Requests : pc[r] \in Turning}

(* A session answers one question at a time, and its status says so: it is  *)
(* executing exactly while a turn is under way. Otherwise the session could *)
(* be locked for good, or two streams could write into it.                  *)
ExecutingIsTurning ==
    faults \cap {"lost", "database", "unsure"} = {} =>
        /\ Cardinality(Turns) <= 1
        /\ status = "executing" <=> (Turns # {} /\ status # "gone")

(* The history is a dialogue: an answer stands right behind its question,   *)
(* and no question is answered twice, whatever ended its stream.            *)
Dialogue ==
    "unsure" \notin faults =>
        \A i \in DOMAIN messages : messages[i].role = "assistant" =>
            /\ i > 1
            /\ messages[i - 1] = [role |-> "user", turn |-> messages[i].turn]

(* No turn is forgotten: when its request is over the answer, or what there *)
(* was of it, is in the history.                                            *)
AnswersKept ==
    faults \cap {"lost", "database", "restart"} = {} =>
        \A i \in DOMAIN messages :
            (messages[i].role = "user" /\ pc[messages[i].turn] \in {"leaving", "over"})
              => \E k \in DOMAIN messages :
                    messages[k] = [role |-> "assistant", turn |-> messages[i].turn]

(* A deleted session stays empty: late answers do not come back into it.    *)
GoneIsEmpty == [][status = "gone" => status' = "gone" /\ messages' = <<>>]_vars

(* Every turn ends and leaves the session ready for the next question.      *)
TurnEnds ==
    status = "executing"
      ~> (status # "executing" \/ faults \cap {"lost", "database"} # {})

(* The user can interrupt a stream that is running: its abort flag is the   *)
(* one the registry holds for the session.                                  *)
Abortable == \A r \in Requests : pc[r] = "streaming" => active = r

=============================================================================
