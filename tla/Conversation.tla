----------------------------- MODULE Conversation -----------------------------
(***************************************************************************)
(* What a question is asked with. A request's first read, which            *)
(* authenticates it, fixes what all its plain reads see (MySQL's           *)
(* REPEATABLE READ): the chunks of the session's knowledge base and the    *)
(* history. Only then does it take the session, by an UPDATE that sees     *)
(* what is committed. Meanwhile the base changes, and other turns of the   *)
(* session end. ChatTurn shows that a turn, once begun, ends by storing    *)
(* one answer or by a restart, so an end is one action here.               *)
(***************************************************************************)
EXTENDS Naturals, Sequences, SequencesExt, FiniteSets, FiniteSetsExt, Lists

CONSTANTS
    Questions,      \* requests, each asking one question
    Passages,       \* chunks the base offers at one time or another
    Size,           \* length of each question, and of each passage with its label
    AnswerSizes,    \* lengths an answer may have
    HistoryRows,    \* how many messages are looked at: 12
    HistoryBudget,  \* how much of them is told: 12 000 characters
    ContextBudget,  \* max_context_chars
    EvidenceK       \* RAG_ANSWER_K

ASSUME ConversationAssumption ==
    /\ Questions \cap Passages = {}
    /\ Size \in [Questions \cup Passages -> Nat]
    /\ AnswerSizes \subseteq Nat
    /\ HistoryRows \in Nat /\ HistoryBudget \in Nat
    /\ ContextBudget \in Nat \ {0} /\ EvidenceK \in Nat \ {0}

VARIABLES
    offered,   \* the passages scoped_chunks finds now
    dialogue,  \* chat_message rows in the order of their ids
    taken,     \* chat_session.status is executing
    turn,      \* how far each question has come
    loaded,    \* the chunks in the snapshot of its request
    asOf,      \* how many rows of the dialogue are in it
    told,      \* the places in the dialogue of what the model is told
    ranked,    \* its evidence, best first
    context    \* the evidence the prompt has room for

conversationVars == <<offered, dialogue, taken, turn, loaded, asOf, told, ranked, context>>

(* refs of a question are always NULL. *)
Row(role, question, size, refs) ==
    [role |-> role, question |-> question, size |-> size, refs |-> refs]

ConversationInit ==
    /\ offered \in SUBSET Passages
    /\ dialogue = <<>>
    /\ taken = FALSE
    /\ turn = [q \in Questions |-> "new"]
    /\ loaded = [q \in Questions |-> {}]
    /\ asOf = [q \in Questions |-> 0]
    /\ told = [q \in Questions |-> <<>>]
    /\ ranked = [q \in Questions |-> <<>>]
    /\ context = [q \in Questions |-> <<>>]

-----------------------------------------------------------------------------
(* The history *)

(* An answer that cites what the turn has not loaded. *)
Stale(q, i) == dialogue[i].role = "assistant" /\ ~(dialogue[i].refs \subseteq loaded[q])

(* Slip: a message that is too long is passed over, and older ones are told. *)
TellPassing(q, so, i) ==
    IF Stale(q, i) \/ dialogue[i].size > so.left
    THEN so
    ELSE [so EXCEPT !.places = <<i>> \o @, !.left = @ - dialogue[i].size]

(* One more message, going back in time: an answer that is stale is passed   *)
(* over; the first message that is too long ends the history.                *)
Tell(q, so, i) ==
    IF so.full \/ Stale(q, i)
    THEN so
    ELSE IF dialogue[i].size > so.left
    THEN [so EXCEPT !.full = TRUE]
    ELSE [so EXCEPT !.places = <<i>> \o @, !.left = @ - dialogue[i].size]

(* The last messages the request sees, newest first. *)
Newest(q) == [k \in 1..Min({HistoryRows, asOf[q]}) |-> asOf[q] + 1 - k]

History(q) ==
    FoldLeft(LAMBDA so, i : Tell(q, so, i),
             [places |-> <<>>, left |-> HistoryBudget, full |-> FALSE],
             Newest(q)).places

(* build_context: the best evidence, in order, up to the first passage that  *)
(* finds no room; the very best always does. The blank line between passages *)
(* counts as part of the passage.                                            *)
Context(evidence) ==
    LET Used(k) == SumOf([i \in 1..k |-> Size[evidence[i]]])
    IN SubSeq(evidence, 1, Max({k \in DOMAIN evidence : k = 1 \/ Used(k) <= ContextBudget}))

-----------------------------------------------------------------------------
(* Files are parsed, replaced, deleted, filed or switched off. *)
Change ==
    /\ offered' \in SUBSET Passages \ {offered}
    /\ UNCHANGED <<dialogue, taken, turn, loaded, asOf, told, ranked, context>>

MovesOn(q, step) == turn' = [turn EXCEPT ![q] = step]

(* A request arrives, for a session of its owner or to create it (one does), *)
(* and load_scoped_chunks. To have nothing to retrieve from is an error.     *)
LoadScope(q) ==
    /\ turn[q] = "new"
    /\ dialogue # <<>> \/ \A p \in Questions : turn[p] # "loaded"
    /\ IF offered = {}
       THEN MovesOn(q, "over") /\ UNCHANGED <<loaded, asOf>>
       ELSE /\ MovesOn(q, "loaded")
            /\ loaded' = [loaded EXCEPT ![q] = offered]
            /\ asOf' = [asOf EXCEPT ![q] = Len(dialogue)]
    /\ UNCHANGED <<offered, dialogue, taken, told, ranked, context>>

(* What is known of a turn is gone when it is over. *)
Finishes(q) ==
    /\ MovesOn(q, "over")
    /\ loaded' = [loaded EXCEPT ![q] = {}]
    /\ asOf' = [asOf EXCEPT ![q] = 0]
    /\ told' = [told EXCEPT ![q] = <<>>]
    /\ ranked' = [ranked EXCEPT ![q] = <<>>]
    /\ context' = [context EXCEPT ![q] = <<>>]

(* The session is taken, the configuration is incomplete, or a chunk was     *)
(* embedded with another model. A question that was to create its session    *)
(* leaves none.                                                              *)
TurnAway(q) ==
    /\ turn[q] = "loaded"
    /\ Finishes(q)
    /\ UNCHANGED <<offered, dialogue, taken>>

(* begin_turn: the session is taken, its history read, the question stored.  *)
BeginTurn(q) ==
    /\ turn[q] = "loaded"
    /\ ~taken
    /\ taken' = TRUE
    /\ told' = [told EXCEPT ![q] = History(q)]
    /\ dialogue' = Append(dialogue, Row("user", q, Size[q], {}))
    /\ MovesOn(q, "begun")
    /\ UNCHANGED <<offered, loaded, asOf, ranked, context>>

(* build_messages, when something was found. *)
Prompt(q) ==
    /\ turn[q] = "begun"
    /\ \E evidence \in BoundedSeq(loaded[q], EvidenceK) \ {<<>>} :
         /\ IsInjective(evidence)
         /\ ranked' = [ranked EXCEPT ![q] = evidence]
         /\ context' = [context EXCEPT ![q] = Context(evidence)]
    /\ MovesOn(q, "prompted")
    /\ UNCHANGED <<offered, dialogue, taken, loaded, asOf, told>>

(* persist_turn: an answer, or what there was of it, may cite any of its     *)
(* evidence; without evidence, or before its citations are parsed, nothing.  *)
EndTurn(q) ==
    /\ turn[q] \in {"begun", "prompted"}
    /\ \E size \in AnswerSizes, refs \in SUBSET ToSet(ranked[q]) :
         dialogue' = Append(dialogue, Row("assistant", q, size, refs))
    /\ taken' = FALSE
    /\ Finishes(q)
    /\ UNCHANGED offered

(* The API dies and starts again: recover_executing. *)
Recover ==
    /\ taken
    /\ taken' = FALSE
    /\ turn' = [q \in Questions |-> IF turn[q] = "new" THEN "new" ELSE "over"]
    /\ loaded' = [q \in Questions |-> {}]
    /\ asOf' = [q \in Questions |-> 0]
    /\ told' = [q \in Questions |-> <<>>]
    /\ ranked' = [q \in Questions |-> <<>>]
    /\ context' = [q \in Questions |-> <<>>]
    /\ UNCHANGED <<offered, dialogue>>

ConversationNext ==
    \/ Change
    \/ Recover
    \/ \E q \in Questions :
         LoadScope(q) \/ TurnAway(q) \/ BeginTurn(q) \/ Prompt(q) \/ EndTurn(q)

ConversationSpec == ConversationInit /\ [][ConversationNext]_conversationVars

ConversationTypeOK ==
    /\ offered \subseteq Passages
    /\ ToSet(dialogue) \subseteq [role : {"user", "assistant"}, question : Questions,
                                  size : Nat, refs : SUBSET Passages]
    /\ taken \in BOOLEAN
    /\ turn \in [Questions -> {"new", "loaded", "begun", "prompted", "over"}]
    /\ loaded \in [Questions -> SUBSET Passages]
    /\ \A q \in Questions :
         /\ asOf[q] \in 0..Len(dialogue)
         /\ ToSet(told[q]) \subseteq DOMAIN dialogue
         /\ ToSet(ranked[q]) \subseteq loaded[q]
         /\ ToSet(context[q]) \subseteq loaded[q]

-----------------------------------------------------------------------------
(* Properties *)

(* The place of a question that was begun. *)
PlaceOf(q) == Max({i \in DOMAIN dialogue : dialogue[i].role = "user"
                                           /\ dialogue[i].question = q})

(* What the model is asked with, while its turn goes on: turns that are over *)
(* and came before, in their order; no answer citing what was not in scope;  *)
(* of what the request saw, the recent rather than the old (a message is     *)
(* told only if all after it are, stale answers apart); no more than fits;   *)
(* and its best evidence, in order, never none of it. That the request saw   *)
(* the whole dialogue is not claimed: the turn before may have ended after.  *)
Informed ==
    \A q \in Questions : turn[q] \in {"begun", "prompted"} =>
        LET places == ToSet(told[q])
            sizes == [k \in DOMAIN told[q] |-> dialogue[told[q][k]].size]
        IN /\ \A j, k \in DOMAIN told[q] : j < k => told[q][j] < told[q][k]
           /\ \A i \in places :
                /\ i < PlaceOf(q)
                /\ turn[dialogue[i].question] = "over"
                /\ dialogue[i].refs \subseteq loaded[q]
                /\ \A k \in i..asOf[q] : k \in places \/ Stale(q, k)
           /\ SumOf(sizes) <= HistoryBudget
           /\ turn[q] = "prompted" =>
                context[q] # <<>> /\ IsPrefix(context[q], ranked[q])

=============================================================================
