------------------------------ MODULE ChatProofs ------------------------------
(***************************************************************************)
(* A session answers one question at a time, its history is a dialogue in  *)
(* which no turn is forgotten, and it stays empty once it is deleted, for  *)
(* any number of requests and faults.                                      *)
(***************************************************************************)
EXTENDS ChatTurn, FiniteSetTheorems, TLAPS

(* One turn at a time, and the session is its own. *)
OneTurn ==
    "unsure" \notin faults =>
        /\ \A p, q \in Turns : p = q
        /\ Turns # {} => status \in {"executing", "gone"}

(* Whoever is executing is somebody, unless a fault took it away. *)
ExecutingSomebody ==
    faults \cap {"lost", "database", "unsure"} = {} /\ status = "executing" => Turns # {}

(* The question that is being answered is the last message. *)
LastQuestion ==
    "unsure" \notin faults =>
        \A r \in Turns : status = "executing" =>
            /\ Len(messages) > 0
            /\ messages[Len(messages)] = [role |-> "user", turn |-> r]

(* A deleted session has no messages. *)
GoneEmpty == status = "gone" => messages = <<>>

(* Only requests that have begun have messages. *)
Asked == \A i \in DOMAIN messages : pc[messages[i].turn] \notin {"idle", "validated"}

ChatInv ==
    /\ ChatTypeOK
    /\ OneTurn
    /\ ExecutingSomebody
    /\ LastQuestion
    /\ GoneEmpty
    /\ Asked
    /\ Dialogue
    /\ AnswersKept

-----------------------------------------------------------------------------
(* Types *)

(* A fault that happens is recorded as one of the kinds there are. *)
LEMMA SpendTypes ==
    ASSUME ChatTypeOK, NEW f \in FaultKinds, Spend(f)
    PROVE  faults' \subseteq FaultKinds /\ faults \subseteq faults' /\ f \in faults'
  BY DEF ChatTypeOK, Spend

(* A request that goes on reaches a step it can be at; the others stay. *)
LEMMA GotoTypes ==
    ASSUME ChatTypeOK, NEW r \in Requests, NEW step \in {"leaving", "over"} \cup Turning, Goto(r, step)
    PROVE  /\ pc' \in [Requests -> {"idle", "validated", "leaving", "over"} \cup Turning]
           /\ pc'[r] = step
           /\ \A p \in Requests \ {r} : pc'[p] = pc[p]
  BY DEF ChatTypeOK, Goto

(* Storing an answer keeps the history a sequence of messages. *)
LEMMA StoreTypes ==
    ASSUME ChatTypeOK, NEW r \in Requests, Store(r)
    PROVE  messages' \in Seq(Message) /\ status' \in Outcome
  <1>1. [role |-> "assistant", turn |-> r] \in Message
    BY DEF Message
  <1> QED BY <1>1 DEF Store, ChatTypeOK

(* So does asking a question. *)
LEMMA TakeTypes ==
    ASSUME ChatTypeOK, NEW r \in Requests, Take(r)
    PROVE  /\ messages' \in Seq(Message)
           /\ status' = "executing"
           /\ UNCHANGED <<active, raised, outcome, deletion, faults>>
  <1>1. [role |-> "user", turn |-> r] \in Message
    BY DEF Message
  <1> QED BY <1>1 DEF Take, ChatTypeOK

(* What stands in the history is a message. *)
LEMMA MessagesAreMessages ==
    ASSUME ChatTypeOK
    PROVE  \A i \in DOMAIN messages : messages[i] \in Message
  <1>1. messages \in Seq(Message)
    BY DEF ChatTypeOK
  <1> QED BY <1>1

(* Every step keeps the types. *)
LEMMA TypesStep ==
    ASSUME ChatTypeOK, [Next]_vars
    PROVE  ChatTypeOK'
  <1> USE DEF Outcome, FaultKinds
  <1>1. ASSUME NEW r \in Requests, Create(r) \/ Begin(r)
        PROVE  ChatTypeOK'
    <2>1. Take(r) /\ Goto(r, "begun")
      BY <1>1 DEF Create, Begin, Move
    <2>2. "begun" \in {"leaving", "over"} \cup Turning
      BY DEF Turning
    <2> QED BY <2>1, <2>2, TakeTypes, GotoTypes DEF ChatTypeOK
  <1>2. ASSUME NEW r \in Requests, Continue(r)
        PROVE  ChatTypeOK'
    BY <1>2 DEF Continue, Move, Goto, ChatTypeOK
  <1>3. ASSUME NEW r \in Requests, Refuse(r) \/ Register(r) \/ Start(r) \/ Drop(r) \/ Leave(r)
        PROVE  ChatTypeOK'
    BY <1>3 DEF Refuse, Register, Start, Drop, Leave, Move, Goto, ChatTypeOK, Turning
  <1>4. ASSUME NEW r \in Requests, Answered(r) \/ Interrupted(r) \/ SourceFails(r) \/ Disconnect(r)
        PROVE  ChatTypeOK'
    BY <1>4 DEF Answered, Interrupted, SourceFails, Disconnect, Ends, Goto, ChatTypeOK, Turning
  <1>5. ASSUME NEW r \in Requests, Persist(r)
        PROVE  ChatTypeOK'
    <2>1. PICK step \in {"leaving", "over"} : Goto(r, step)
      BY <1>5 DEF Persist
    <2> QED BY <1>5, <2>1, StoreTypes, GotoTypes DEF Persist, ChatTypeOK
  <1>6. ASSUME NEW r \in Requests, PersistFails(r)
        PROVE  ChatTypeOK'
    <2>1. PICK step \in {"erring", "closing", "leaving", "over"} : Goto(r, step)
      BY <1>6 DEF PersistFails, SavingSteps
    <2>2. faults' \subseteq FaultKinds
      BY <1>6, SpendTypes DEF PersistFails, ChatTypeOK
    <2>3. step \in {"leaving", "over"} \cup Turning
      BY DEF Turning
    <2>4. messages' \in Seq(Message) /\ status' \in {"none", "executing", "gone"} \cup Outcome
      BY <1>6, StoreTypes DEF PersistFails, ChatTypeOK
    <2>5. outcome' \in [Requests -> Outcome]
      BY <1>6 DEF PersistFails, ChatTypeOK
    <2>6. pc' \in [Requests -> {"idle", "validated", "leaving", "over"} \cup Turning]
      BY <2>1, <2>3, GotoTypes
    <2> QED BY <1>6, <2>2, <2>4, <2>5, <2>6 DEF PersistFails, ChatTypeOK
  <1>7. ASSUME NEW r \in Requests, Cancelled(r)
        PROVE  ChatTypeOK'
    <2>1. messages' \in Seq(Message) /\ status' \in {"none", "executing", "gone"} \cup Outcome
      BY <1>7, StoreTypes DEF Cancelled, ChatTypeOK
    <2>2. faults' \subseteq FaultKinds
      BY <1>7, SpendTypes DEF Cancelled, ChatTypeOK
    <2>3. "closing" \in {"leaving", "over"} \cup Turning
      BY DEF Turning
    <2>4. pc' \in [Requests -> {"idle", "validated", "leaving", "over"} \cup Turning]
      BY <1>7, <2>3, GotoTypes DEF Cancelled
    <2>5. outcome' \in [Requests -> Outcome]
      BY <1>7 DEF Cancelled, ChatTypeOK
    <2> QED BY <1>7, <2>1, <2>2, <2>4, <2>5 DEF Cancelled, ChatTypeOK
  <1>8. ASSUME NEW r \in Requests, NeverStarted(r)
        PROVE  ChatTypeOK'
    BY <1>8, SpendTypes, GotoTypes DEF NeverStarted, ChatTypeOK
  <1>9. CASE Abort
    BY <1>9 DEF Abort, ChatTypeOK
  <1>10. CASE DeleteCheck
    BY <1>10 DEF DeleteCheck, ChatTypeOK
  <1>10a. CASE DeleteCommit
    <2>1. messages' \in Seq(Message)
      BY <1>10a DEF DeleteCommit
    <2> QED BY <1>10a, <2>1 DEF DeleteCommit, ChatTypeOK
  <1>11. CASE Restart
    BY <1>11, SpendTypes DEF Restart, ChatTypeOK
  <1>12. CASE UNCHANGED vars
    BY <1>12 DEF vars, ChatTypeOK
  <1> QED
    BY <1>1, <1>2, <1>3, <1>4, <1>5, <1>6, <1>7, <1>8, <1>9, <1>10, <1>10a, <1>11, <1>12
       DEF Next, Turn

-----------------------------------------------------------------------------
(* The invariant *)

(* A request goes on, the session's row and history stay as they are. *)
LEMMA Onward ==
    ASSUME ChatInv, ChatTypeOK', UNCHANGED <<status, messages>>, faults \subseteq faults',
           NEW r \in Requests, NEW step, Goto(r, step),
           step \in {"idle", "validated"} => pc[r] \in {"idle", "validated"},
           step \in Turning => pc[r] \in Turning,
           step \notin Turning /\ faults' \cap {"lost", "database", "unsure"} = {}
             => pc[r] \notin Turning \/ status # "executing",
           step \in {"leaving", "over"} /\ faults' \cap {"lost", "database", "restart"} = {}
             => pc[r] \in {"validated", "leaving"} \/ messages = <<>>
    PROVE  ChatInv'
  <1> USE DEF ChatInv
  <1>1. pc'[r] = step /\ \A p \in Requests \ {r} : pc'[p] = pc[p]
    BY DEF Goto, ChatTypeOK
  <1>2. Turns' \subseteq Turns
    BY <1>1 DEF Turns
  <1>3. OneTurn'
    BY <1>2 DEF OneTurn
  <1>4. ExecutingSomebody'
    <2> SUFFICES ASSUME faults' \cap {"lost", "database", "unsure"} = {}, status = "executing"
                 PROVE  Turns' # {}
      BY DEF ExecutingSomebody
    <2>1. PICK p \in Turns : TRUE
      BY DEF ExecutingSomebody
    <2>2. p \in Turns'
      BY <2>1, <1>1 DEF Turns
    <2> QED BY <2>2
  <1>5. LastQuestion'
    BY <1>2 DEF LastQuestion
  <1>6. GoneEmpty' /\ Dialogue'
    BY DEF GoneEmpty, Dialogue
  <1>7. \A i \in DOMAIN messages : messages[i].turn \in Requests
    BY MessagesAreMessages DEF Message
  <1>8. Asked'
    BY <1>1, <1>7 DEF Asked
  <1>9. AnswersKept'
    <2> SUFFICES ASSUME faults' \cap {"lost", "database", "restart"} = {},
                        NEW i \in DOMAIN messages, messages[i].role = "user",
                        pc'[messages[i].turn] \in {"leaving", "over"}
                 PROVE  pc[messages[i].turn] \in {"leaving", "over"}
      BY DEF AnswersKept
    <2>1. messages # <<>>
      OBVIOUS
    <2> QED BY <2>1, <1>1, <1>7 DEF Asked
  <1> QED BY <1>3, <1>4, <1>5, <1>6, <1>8, <1>9

(* An answer is stored: it stands behind the question it answers. *)
LEMMA Answers ==
    ASSUME ChatInv, ChatTypeOK', faults \subseteq faults',
           NEW r \in Requests, pc[r] \in SavingSteps, Store(r),
           NEW step \in {"erring", "closing", "leaving", "over"}, Goto(r, step),
           step \in {"erring", "closing"} => "unsure" \in faults'
    PROVE  ChatInv'
  <1> USE DEF ChatInv
  <1>1. pc'[r] = step /\ \A p \in Requests \ {r} : pc'[p] = pc[p]
    BY DEF Goto, ChatTypeOK
  <1>2. r \in Turns
    BY DEF Turns, SavingSteps, Turning
  <1>3. status' \in {"done", "aborted", "error"}
    BY StoreTypes DEF Outcome
  <1>4. "unsure" \notin faults' => Turns' = {}
    <2> SUFFICES ASSUME "unsure" \notin faults', NEW p \in Turns' PROVE FALSE
      OBVIOUS
    <2>1. p # r
      BY <1>1 DEF Turns, Turning
    <2>2. p \in Turns
      BY <1>1, <2>1 DEF Turns
    <2> QED BY <1>2, <2>1, <2>2 DEF OneTurn
  <1>5. OneTurn' /\ ExecutingSomebody' /\ LastQuestion' /\ GoneEmpty'
    BY <1>3, <1>4 DEF OneTurn, ExecutingSomebody, LastQuestion, GoneEmpty
  <1> DEFINE answer == [role |-> "assistant", turn |-> r]
  <1>6. /\ messages \in Seq(Message)
        /\ messages' = Append(messages, answer)
        /\ answer.role = "assistant" /\ answer.turn = r
    BY DEF Store, ChatTypeOK
  <1> HIDE DEF answer
  <1>7. /\ DOMAIN messages = 1 .. Len(messages)
        /\ DOMAIN messages' = 1 .. Len(messages) + 1
        /\ Len(messages) \in Nat
        /\ \A i \in DOMAIN messages : messages'[i] = messages[i]
        /\ messages'[Len(messages) + 1] = answer
    BY <1>6
  <1>8. \A i \in DOMAIN messages : messages[i].turn \in Requests
    BY MessagesAreMessages DEF Message
  <1>9. Asked'
    <2> SUFFICES ASSUME NEW i \in DOMAIN messages'
                 PROVE  pc'[messages'[i].turn] \notin {"idle", "validated"}
      BY DEF Asked
    <2>1. CASE i = Len(messages) + 1
      BY <2>1, <1>1, <1>6, <1>7
    <2>2. CASE i \in DOMAIN messages
      BY <2>2, <1>1, <1>7, <1>8 DEF Asked
    <2> QED BY <2>1, <2>2, <1>7
  <1>10. Dialogue'
    <2> SUFFICES ASSUME "unsure" \notin faults',
                        NEW i \in DOMAIN messages', messages'[i].role = "assistant"
                 PROVE  i > 1 /\ messages'[i - 1] = [role |-> "user", turn |-> messages'[i].turn]
      BY DEF Dialogue
    <2>1. CASE i \in DOMAIN messages
      <3>1. i > 1 /\ messages[i - 1] = [role |-> "user", turn |-> messages[i].turn]
        BY <2>1, <1>7 DEF Dialogue
      <3>2. i - 1 \in DOMAIN messages
        BY <2>1, <3>1, <1>7
      <3> QED BY <2>1, <3>1, <3>2, <1>7
    <2>2. CASE i = Len(messages) + 1
      <3>1. status = "executing"
        BY <1>2 DEF OneTurn, Store
      <3>2. Len(messages) > 0 /\ messages[Len(messages)] = [role |-> "user", turn |-> r]
        BY <1>2, <3>1 DEF LastQuestion
      <3>3. Len(messages) \in DOMAIN messages /\ i - 1 = Len(messages) /\ i > 1
        BY <2>2, <3>2, <1>7
      <3>4. messages'[i].turn = r
        BY <2>2, <1>6, <1>7
      <3> QED BY <3>2, <3>3, <3>4, <1>7
    <2> QED BY <2>1, <2>2, <1>7
  <1>11. AnswersKept'
    <2> SUFFICES ASSUME faults' \cap {"lost", "database", "restart"} = {},
                        NEW i \in DOMAIN messages', messages'[i].role = "user",
                        pc'[messages'[i].turn] \in {"leaving", "over"}
                 PROVE  \E k \in DOMAIN messages' :
                            messages'[k] = [role |-> "assistant", turn |-> messages'[i].turn]
      BY DEF AnswersKept
    <2>1. i \in DOMAIN messages /\ messages'[i] = messages[i]
      BY <1>6, <1>7
    <2>2. CASE messages[i].turn = r
      <3>1. Len(messages) + 1 \in DOMAIN messages'
        BY <1>7
      <3> QED BY <2>1, <2>2, <3>1, <1>7 DEF answer
    <2>3. CASE messages[i].turn # r
      <3>1. pc[messages[i].turn] \in {"leaving", "over"}
        BY <2>1, <2>3, <1>1, <1>8
      <3>2. PICK k \in DOMAIN messages :
                messages[k] = [role |-> "assistant", turn |-> messages[i].turn]
        BY <2>1, <3>1 DEF AnswersKept
      <3>3. k \in DOMAIN messages' /\ messages'[k] = messages[k]
        BY <3>2, <1>7
      <3> QED BY <2>1, <3>2, <3>3
    <2> QED BY <2>2, <2>3
  <1> QED BY <1>5, <1>9, <1>10, <1>11

(* A question is stored: nobody else is being answered. *)
LEMMA Asks ==
    ASSUME ChatInv, ChatTypeOK', NEW r \in Requests, pc[r] \in {"idle", "validated"},
           status \in {"none"} \cup Outcome, Goto(r, "begun"), Take(r)
    PROVE  ChatInv'
  <1> USE DEF ChatInv
  <1>1. pc'[r] = "begun" /\ \A p \in Requests \ {r} : pc'[p] = pc[p]
    BY DEF Goto, ChatTypeOK
  <1>2. status' = "executing" /\ faults' = faults
    BY TakeTypes
  <1>3. r \in Turns' /\ Turns' \subseteq Turns \cup {r}
    BY <1>1 DEF Turns, Turning
  <1>4. "unsure" \notin faults => Turns' = {r}
    BY <1>3 DEF OneTurn, Outcome
  <1>5. OneTurn' /\ ExecutingSomebody' /\ GoneEmpty'
    BY <1>2, <1>3, <1>4 DEF OneTurn, ExecutingSomebody, GoneEmpty
  <1> DEFINE question == [role |-> "user", turn |-> r]
  <1>6. /\ messages \in Seq(Message)
        /\ messages' = Append(messages, question)
        /\ question.role = "user" /\ question.turn = r
    BY DEF Take, ChatTypeOK
  <1>7. LastQuestion'
    <2>1. Len(messages') > 0 /\ messages'[Len(messages')] = question
      BY <1>6
    <2> QED BY <2>1, <1>2, <1>4 DEF LastQuestion
  <1> HIDE DEF question
  <1>8. /\ DOMAIN messages = 1 .. Len(messages)
        /\ DOMAIN messages' = 1 .. Len(messages) + 1
        /\ Len(messages) \in Nat
        /\ \A i \in DOMAIN messages : messages'[i] = messages[i]
        /\ messages'[Len(messages) + 1] = question
    BY <1>6
  <1>9. \A i \in DOMAIN messages : messages[i].turn \in Requests \ {r}
    BY MessagesAreMessages DEF Message, Asked
  <1>10. Asked'
    <2> SUFFICES ASSUME NEW i \in DOMAIN messages'
                 PROVE  pc'[messages'[i].turn] \notin {"idle", "validated"}
      BY DEF Asked
    <2>1. CASE i = Len(messages) + 1
      BY <2>1, <1>1, <1>6, <1>8
    <2>2. CASE i \in DOMAIN messages
      BY <2>2, <1>1, <1>8, <1>9 DEF Asked
    <2> QED BY <2>1, <2>2, <1>8
  <1>11. Dialogue'
    <2> SUFFICES ASSUME "unsure" \notin faults,
                        NEW i \in DOMAIN messages', messages'[i].role = "assistant"
                 PROVE  i > 1 /\ messages'[i - 1] = [role |-> "user", turn |-> messages'[i].turn]
      BY <1>2 DEF Dialogue
    <2>1. i \in DOMAIN messages /\ messages'[i] = messages[i]
      BY <1>6, <1>8
    <2>2. i > 1 /\ messages[i - 1] = [role |-> "user", turn |-> messages[i].turn]
      BY <2>1 DEF Dialogue
    <2>3. i - 1 \in DOMAIN messages
      BY <2>1, <2>2, <1>8
    <2> QED BY <2>1, <2>2, <2>3, <1>8
  <1>12. AnswersKept'
    <2> SUFFICES ASSUME faults \cap {"lost", "database", "restart"} = {},
                        NEW i \in DOMAIN messages', messages'[i].role = "user",
                        pc'[messages'[i].turn] \in {"leaving", "over"}
                 PROVE  \E k \in DOMAIN messages' :
                            messages'[k] = [role |-> "assistant", turn |-> messages'[i].turn]
      BY <1>2 DEF AnswersKept
    <2>1. i \in DOMAIN messages /\ messages'[i] = messages[i]
      BY <1>1, <1>6, <1>8
    <2>2. pc[messages[i].turn] \in {"leaving", "over"}
      BY <2>1, <1>1, <1>9
    <2>3. PICK k \in DOMAIN messages :
              messages[k] = [role |-> "assistant", turn |-> messages[i].turn]
      BY <2>1, <2>2 DEF AnswersKept
    <2>4. k \in DOMAIN messages' /\ messages'[k] = messages[k]
      BY <2>3, <1>8
    <2> QED BY <2>1, <2>3, <2>4
  <1> QED BY <1>5, <1>7, <1>10, <1>11, <1>12

(* A step that touches neither requests, session nor history. *)
LEMMA Idles ==
    ASSUME ChatInv, ChatTypeOK', UNCHANGED <<status, messages, pc, faults>>
    PROVE  ChatInv'
  BY DEF ChatInv, OneTurn, ExecutingSomebody, LastQuestion, GoneEmpty, Asked, Dialogue,
         AnswersKept, Turns

-----------------------------------------------------------------------------
(* The steps *)

(* A fault that happens is one that has happened. *)
LEMMA SpendFault ==
    ASSUME NEW f, Spend(f)
    PROVE  faults \subseteq faults' /\ f \in faults'
  BY DEF Spend

(* Every step keeps the invariant, whoever takes it. *)
LEMMA ChatInvStep ==
    ASSUME ChatInv, [Next]_vars
    PROVE  ChatInv'
  <1> USE DEF ChatInv
  <1>0. ChatTypeOK'
    BY TypesStep
  <1>1. ASSUME NEW r \in Requests, Create(r) \/ Begin(r)
        PROVE  ChatInv'
    <2>1. /\ pc[r] \in {"idle", "validated"} /\ status \in {"none"} \cup Outcome
          /\ Goto(r, "begun") /\ Take(r)
      BY <1>1 DEF Create, Begin, Move
    <2> QED BY <1>0, <2>1, Asks
  <1>2. ASSUME NEW r \in Requests, Continue(r)
        PROVE  ChatInv'
    <2>1. /\ pc[r] = "idle" /\ Goto(r, "validated")
          /\ UNCHANGED <<status, messages, faults>>
      BY <1>2 DEF Continue, Move
    <2> QED BY <1>0, <2>1, Onward DEF Turning
  <1>3. ASSUME NEW r \in Requests, Refuse(r)
        PROVE  ChatInv'
    <2>1. /\ pc[r] = "validated" /\ Goto(r, "over")
          /\ UNCHANGED <<status, messages, faults>>
      BY <1>3 DEF Refuse, Move
    <2> QED BY <1>0, <2>1, Onward DEF Turning
  <1>4. ASSUME NEW r \in Requests, Register(r) \/ Start(r) \/ Drop(r)
        PROVE  ChatInv'
    <2>1. PICK step \in {"starting", "streaming", "detached"} : Goto(r, step)
      BY <1>4 DEF Register, Start, Drop, Move
    <2>2. pc[r] \in Turning /\ UNCHANGED <<status, messages, faults>>
      BY <1>4 DEF Register, Start, Drop, Move, Turning
    <2> QED BY <1>0, <2>1, <2>2, Onward DEF Turning
  <1>5. ASSUME NEW r \in Requests, Leave(r)
        PROVE  ChatInv'
    <2>1. /\ pc[r] = "leaving" /\ Goto(r, "over")
          /\ UNCHANGED <<status, messages, faults>>
      BY <1>5 DEF Leave, Move
    <2> QED BY <1>0, <2>1, Onward DEF Turning
  <1>6. ASSUME NEW r \in Requests, NeverStarted(r)
        PROVE  ChatInv'
    <2>1. /\ pc[r] \in Turning /\ Goto(r, "over") /\ UNCHANGED <<status, messages>>
      BY <1>6 DEF NeverStarted, Turning
    <2>2. faults \subseteq faults' /\ "lost" \in faults'
      BY <1>6, SpendFault DEF NeverStarted
    <2> QED BY <1>0, <2>1, <2>2, Onward DEF Turning
  <1>7. ASSUME NEW r \in Requests,
               Answered(r) \/ Interrupted(r) \/ SourceFails(r) \/ Disconnect(r)
        PROVE  ChatInv'
    <2>1. PICK step \in {"saving", "erring", "closing", "dropped"} : Goto(r, step)
      BY <1>7 DEF Answered, Interrupted, SourceFails, Disconnect, Ends
    <2>2. pc[r] \in Turning /\ UNCHANGED <<status, messages, faults>>
      BY <1>7 DEF Answered, Interrupted, SourceFails, Disconnect, Ends, Turning
    <2> QED BY <1>0, <2>1, <2>2, Onward DEF Turning
  <1>8. ASSUME NEW r \in Requests, Persist(r)
        PROVE  ChatInv'
    <2>1. PICK step \in {"leaving", "over"} : Goto(r, step)
      BY <1>8 DEF Persist
    <2>2. pc[r] \in SavingSteps /\ Store(r) /\ faults' = faults
      BY <1>8 DEF Persist
    <2> QED BY <1>0, <2>1, <2>2, Answers
  <1>9. ASSUME NEW r \in Requests, PersistFails(r)
        PROVE  ChatInv'
    <2>1. PICK step \in {"erring", "closing", "leaving", "over"} : Goto(r, step)
      BY <1>9 DEF PersistFails, SavingSteps
    <2>2. pc[r] \in SavingSteps /\ pc[r] \in Turning
      BY <1>9 DEF PersistFails, SavingSteps, Turning
    <2>3. ASSUME status = "gone", UNCHANGED <<status, messages, faults>>
          PROVE  ChatInv'
      <3>1. messages = <<>>
        BY <2>3 DEF GoneEmpty
      <3> QED BY <1>0, <2>1, <2>2, <2>3, <3>1, Onward DEF Turning
    <2>4. ASSUME UNCHANGED <<status, messages>>, faults \subseteq faults', "database" \in faults'
          PROVE  ChatInv'
      BY <1>0, <2>1, <2>2, <2>4, Onward DEF Turning
    <2>5. ASSUME Store(r), faults \subseteq faults', "unsure" \in faults'
          PROVE  ChatInv'
      BY <1>0, <2>1, <2>2, <2>5, Answers
    <2>6. \/ status = "gone" /\ UNCHANGED <<status, messages, faults>>
          \/ UNCHANGED <<status, messages>> /\ faults \subseteq faults' /\ "database" \in faults'
          \/ Store(r) /\ faults \subseteq faults' /\ "unsure" \in faults'
      BY <1>9, SpendFault DEF PersistFails
    <2> QED BY <2>3, <2>4, <2>5, <2>6
  <1>10. ASSUME NEW r \in Requests, Cancelled(r)
         PROVE  ChatInv'
    <2>1. pc[r] \in {"saving", "erring"} /\ Goto(r, "closing")
      BY <1>10 DEF Cancelled
    <2>2. CASE UNCHANGED <<status, messages, faults>>
      BY <1>0, <2>1, <2>2, Onward DEF Turning
    <2>3. CASE Store(r) /\ Spend("unsure")
      BY <1>0, <2>1, <2>3, SpendFault, Answers DEF SavingSteps
    <2> QED BY <1>10, <2>2, <2>3 DEF Cancelled
  <1>11. CASE Abort \/ DeleteCheck \/ UNCHANGED vars
    BY <1>0, <1>11, Idles DEF Abort, DeleteCheck, vars
  <1>12. CASE DeleteCommit
    <2>1. status' = "gone" /\ messages' = <<>> /\ UNCHANGED <<pc, faults>>
      BY <1>12 DEF DeleteCommit
    <2>2. DOMAIN messages' = {}
      BY <2>1
    <2>3. OneTurn' /\ ExecutingSomebody' /\ LastQuestion' /\ GoneEmpty'
      BY <2>1 DEF OneTurn, ExecutingSomebody, LastQuestion, GoneEmpty, Turns
    <2>4. Asked' /\ Dialogue' /\ AnswersKept'
      BY <2>2 DEF Asked, Dialogue, AnswersKept
    <2> QED BY <1>0, <2>3, <2>4
  <1>13. CASE Restart
    <2>1. /\ messages' = messages /\ faults \subseteq faults' /\ "restart" \in faults'
          /\ status' = IF status = "executing" THEN "error" ELSE status
          /\ pc' = [r \in Requests |-> IF pc[r] = "idle" THEN "idle" ELSE "over"]
      BY <1>13, SpendFault DEF Restart
    <2>2. Turns' = {}
      BY <2>1 DEF Turns, Turning
    <2>3. OneTurn' /\ ExecutingSomebody' /\ LastQuestion' /\ GoneEmpty'
      BY <2>1, <2>2 DEF OneTurn, ExecutingSomebody, LastQuestion, GoneEmpty
    <2>4. \A i \in DOMAIN messages : messages[i].turn \in Requests
      BY MessagesAreMessages DEF Message
    <2>5. Asked' /\ Dialogue' /\ AnswersKept'
      BY <2>1, <2>4 DEF Asked, Dialogue, AnswersKept
    <2> QED BY <1>0, <2>3, <2>5
  <1> QED
    BY <1>1, <1>2, <1>3, <1>4, <1>5, <1>6, <1>7, <1>8, <1>9, <1>10, <1>11, <1>12, <1>13
       DEF Next, Turn

(* The invariant holds at first. *)
LEMMA ChatInvInit ==
    ASSUME Init
    PROVE  ChatInv
  <1>1. ChatTypeOK
    <2>1. messages \in Seq(Message)
      BY DEF Init
    <2> QED BY <2>1 DEF Init, ChatTypeOK, Outcome, Turning
  <1>2. Turns = {} /\ DOMAIN messages = {}
    BY DEF Init, Turns, Turning
  <1>3. OneTurn /\ ExecutingSomebody /\ LastQuestion /\ GoneEmpty
    BY <1>2 DEF Init, OneTurn, ExecutingSomebody, LastQuestion, GoneEmpty
  <1>4. Asked /\ Dialogue /\ AnswersKept
    BY <1>2 DEF Asked, Dialogue, AnswersKept
  <1> QED BY <1>1, <1>3, <1>4 DEF ChatInv

(* The invariant always holds. *)
LEMMA ChatInvariant == ChatSpec => []ChatInv
  <1>1. Init => ChatInv
    BY ChatInvInit
  <1>2. ChatInv /\ [Next]_vars => ChatInv'
    BY ChatInvStep
  <1> QED BY <1>1, <1>2, PTL DEF ChatSpec

-----------------------------------------------------------------------------
(* The theorems *)

(* The session's row, its messages, the registry and every request have     *)
(* only the values the code knows, whatever faults happen.                  *)
THEOREM ChatTypeCorrect == ChatSpec => []ChatTypeOK
  <1>1. ChatInv => ChatTypeOK
    BY DEF ChatInv
  <1> QED BY <1>1, ChatInvariant, PTL

(* A session is executing exactly while one turn is under way: no second    *)
(* question gets in, and none is locked out once the turn is over.          *)
THEOREM ExecutingIsTurningCorrect == ChatSpec => []ExecutingIsTurning
  <1>1. ASSUME ChatInv PROVE ExecutingIsTurning
    <2> SUFFICES ASSUME faults \cap {"lost", "database", "unsure"} = {}
                 PROVE  /\ Cardinality(Turns) <= 1
                        /\ status = "executing" <=> (Turns # {} /\ status # "gone")
      BY DEF ExecutingIsTurning
    <2>1. \A p, q \in Turns : p = q
      BY <1>1 DEF ChatInv, OneTurn
    <2>2. Cardinality(Turns) <= 1
      <3>1. CASE Turns = {}
        BY <3>1, FS_EmptySet
      <3>2. ASSUME NEW r \in Turns PROVE Cardinality(Turns) <= 1
        <4>1. Turns = {r}
          BY <2>1
        <4> QED BY <4>1, FS_Singleton
      <3> QED BY <3>1, <3>2
    <2>3. status = "executing" <=> (Turns # {} /\ status # "gone")
      BY <1>1 DEF ChatInv, OneTurn, ExecutingSomebody
    <2> QED BY <2>2, <2>3
  <1> QED BY <1>1, ChatInvariant, PTL

(* An answer stands right behind its question, and no question has two,     *)
(* whether its stream was answered, aborted, left or failed.                *)
THEOREM DialogueCorrect == ChatSpec => []Dialogue
  <1>1. ChatInv => Dialogue
    BY DEF ChatInv
  <1> QED BY <1>1, ChatInvariant, PTL

(* When a request is over, what there was of its answer is in the history.  *)
THEOREM AnswersKeptCorrect == ChatSpec => []AnswersKept
  <1>1. ChatInv => AnswersKept
    BY DEF ChatInv
  <1> QED BY <1>1, ChatInvariant, PTL

(* A deleted session stays deleted and empty, however late an answer is.    *)
THEOREM GoneIsEmptyCorrect == ChatSpec => GoneIsEmpty
  <1>1. ASSUME ChatInv, [Next]_vars
        PROVE  [status = "gone" => status' = "gone" /\ messages' = <<>>]_vars
    <2> SUFFICES ASSUME status = "gone" PROVE status' = "gone" /\ messages' = <<>>
      OBVIOUS
    <2>1. messages = <<>>
      BY <1>1 DEF ChatInv, GoneEmpty
    <2>2. ASSUME NEW r \in Requests, Turn(r)
          PROVE  UNCHANGED <<status, messages>>
      BY <2>2 DEF Turn, Begin, Refuse, Register, Start, Answered, Interrupted, SourceFails,
             Drop, Persist, PersistFails, Leave, Ends, Store, Outcome
    <2>3. ASSUME NEW r \in Requests,
                 Create(r) \/ Continue(r) \/ Disconnect(r) \/ Cancelled(r) \/ NeverStarted(r)
          PROVE  UNCHANGED <<status, messages>>
      BY <2>3 DEF Create, Continue, Disconnect, Cancelled, NeverStarted, Ends, Store
    <2>4. CASE Abort \/ DeleteCheck \/ Restart \/ UNCHANGED vars
      BY <2>1, <2>4 DEF Abort, DeleteCheck, Restart, vars
    <2>5. CASE DeleteCommit
      BY <2>5 DEF DeleteCommit
    <2> QED BY <1>1, <2>1, <2>2, <2>3, <2>4, <2>5 DEF Next
  <1> QED BY <1>1, ChatInvariant, PTL DEF ChatSpec, GoneIsEmpty

=============================================================================
