------------------------------ MODULE ChatStore ------------------------------
(***************************************************************************)
(* The web client's chat store. Whatever it waits for (a history, a frame  *)
(* of the stream, the answer to a request to stop) comes back to one store *)
(* in which the user has gone on: an action is what runs between two       *)
(* awaits. The server may answer anything it can, at any time. Texts are   *)
(* the set of streams that wrote to them; thinking steps, notices, errors, *)
(* ratings and the list of sessions are left out.                          *)
(***************************************************************************)
EXTENDS Naturals, Sequences, SequencesExt, FiniteSets

CONSTANTS
    MaxAsks,   \* bound on calls of _stream: questions asked, or asked again
    Chats,     \* stored sessions that can be opened
    Null,
    MaxViews,  \* bound on _historySeq
    MaxStops   \* bound on requests to stop that are under way

Asks == 1..MaxAsks   \* in the order in which they begin

ASSUME ChatStoreAssumption ==
    /\ MaxAsks \in Nat /\ MaxViews \in Nat /\ MaxStops \in Nat
    /\ Null \notin Asks \cup Chats
    /\ Asks \cap Chats = {}

VARIABLES
    currentSessionId,  \* a session made for a question has the question's name
    items,             \* what is on the screen
    streaming, status, loadingMessages, historySeq,
    abortController,   \* the call whose AbortController is in the store
    reader,            \* how far each call of _stream has come
    askedIn,           \* the session_id each call has sent
    cut,               \* calls whose controller was aborted
    loads,             \* history requests under way
    stops,             \* how many requests to stop are
    switched           \* whether the account was left, and while loading

storeVars == <<currentSessionId, items, streaming, status, loadingMessages, historySeq,
               abortController, reader, askedIn, cut, loads, stops, switched>>

Item(type, of, parts, live) == [type |-> type, of |-> of, parts |-> parts, streaming |-> live]
UserItem(of) == Item("user", of, {of}, FALSE)
EmptyAnswer(of) == Item("answer", of, {}, TRUE)

StoreInit ==
    /\ currentSessionId = Null /\ items = <<>>
    /\ streaming = FALSE /\ status = "idle" /\ loadingMessages = FALSE /\ historySeq = 0
    /\ abortController = Null
    /\ reader = [a \in Asks |-> "new"]
    /\ askedIn = [a \in Asks |-> Null]
    /\ cut = {} /\ loads = {} /\ stops = 0
    /\ switched = "no"

LastItem(type, shown) == SelectLastInSeq(shown, LAMBDA item : item.type = type)

(* The last answer on the screen is no longer being written. *)
Quiet(shown) ==
    LET k == LastItem("answer", shown)
    IN IF k = 0 THEN shown ELSE [shown EXCEPT ![k].streaming = FALSE]

-----------------------------------------------------------------------------
(* Histories *)

View(chat) ==
    /\ ~streaming
    /\ historySeq < MaxViews
    /\ historySeq' = historySeq + 1
    /\ currentSessionId' = chat
    /\ items' = <<>>
    /\ UNCHANGED <<streaming, status, abortController, reader, askedIn, cut, stops, switched>>

(* newSession, by the user or when the session on the screen was deleted. *)
NewSession ==
    /\ View(Null)
    /\ loadingMessages' = FALSE
    /\ UNCHANGED loads

SelectSession(chat) ==
    /\ View(chat)
    /\ loadingMessages' = TRUE
    /\ loads' = loads \cup {[request |-> historySeq', chat |-> chat, canceled |-> FALSE]}

(* rebuildItems: a stored question and its answer. *)
Rebuilt(chat) == <<UserItem(chat), Item("answer", chat, {chat}, FALSE)>>

(* The history comes, or fails; one that was asked for by an account that    *)
(* was left always does.                                                     *)
HistoryReturns(load) ==
    /\ load \in loads
    /\ loads' = loads \ {load}
    /\ \/ /\ ~load.canceled /\ load.request = historySeq /\ load.chat = currentSessionId
          /\ items' = Rebuilt(load.chat)
       \/ UNCHANGED items
    /\ loadingMessages' = (loadingMessages /\ load.request # historySeq)
    /\ UNCHANGED <<currentSessionId, streaming, status, historySeq, abortController, reader,
                   askedIn, cut, stops, switched>>

-----------------------------------------------------------------------------
(* Questions *)

CanAsk == ~streaming /\ ~loadingMessages

(* _stream, up to its await. *)
BeginStream(a, shown) ==
    /\ a = Cardinality({b \in Asks : reader[b] # "new"}) + 1
    /\ reader' = [reader EXCEPT ![a] = "reading"]
    /\ askedIn' = [askedIn EXCEPT ![a] = currentSessionId]
    /\ items' = Append(shown, EmptyAnswer(a))
    /\ streaming' = TRUE
    /\ status' = "streaming"
    /\ abortController' = a
    /\ UNCHANGED <<currentSessionId, loadingMessages, historySeq, cut, loads, stops, switched>>

Ask(a) ==
    /\ CanAsk
    /\ BeginStream(a, Append(items, UserItem(a)))

(* retryLast: what followed the last question leaves the screen. *)
RetryLast(a) ==
    /\ CanAsk
    /\ LastItem("user", items) # 0
    /\ BeginStream(a, SubSeq(items, 1, LastItem("user", items)))

-----------------------------------------------------------------------------
(* Frames. Each names the session in which the server answers. *)

ReadsFrames(a) == reader[a] = "reading" /\ a \notin cut

Frame(a) ==
    /\ ReadsFrames(a)
    /\ currentSessionId' = IF askedIn[a] = Null THEN a ELSE askedIn[a]
    /\ UNCHANGED <<streaming, loadingMessages, historySeq, abortController, askedIn, cut, loads,
                   stops, switched>>

(* Nothing is read behind a done, aborted or error. *)
LastFrame(a, result) ==
    /\ reader' = [reader EXCEPT ![a] = "told"]
    /\ status' = result

StartFrame(a) ==
    /\ Frame(a)
    /\ UNCHANGED <<items, status, reader>>

ChunkFrame(a) ==
    /\ Frame(a)
    /\ items' = LET shown == IF LastItem("answer", items) = 0
                             THEN Append(items, EmptyAnswer(a)) ELSE items
                IN [shown EXCEPT ![LastItem("answer", shown)].parts = @ \cup {a}]
    /\ UNCHANGED <<status, reader>>

(* The whole answer replaces what was streamed. *)
DoneFrame(a) ==
    /\ Frame(a)
    /\ items' = LET k == LastItem("answer", items)
                IN IF k = 0 THEN items
                   ELSE [items EXCEPT ![k].parts = {a}, ![k].streaming = FALSE]
    /\ LastFrame(a, "done")

AbortedFrame(a) ==
    /\ Frame(a)
    /\ items' = Quiet(items)
    /\ LastFrame(a, "aborted")

ShowError(a) ==
    /\ items' = Quiet(items)
    /\ LastFrame(a, "error")

ErrorFrame(a) ==
    /\ Frame(a)
    /\ ShowError(a)

(* The request is refused, or the connection breaks: an error of sseStream's *)
(* own, without a session. Also when the body of a refusal is read while the *)
(* call is cut.                                                              *)
ErrorWithoutSession(a) ==
    /\ reader[a] = "reading"
    /\ ShowError(a)
    /\ UNCHANGED <<currentSessionId, streaming, loadingMessages, historySeq, abortController,
                   askedIn, cut, loads, stops, switched>>

-----------------------------------------------------------------------------
(* The end of a stream *)

(* The answer that is done gets its message's id by one more request. *)
Syncs ==
    /\ status = "done" /\ currentSessionId # Null
    /\ LET k == LastItem("answer", items) IN k # 0 /\ items[k].parts \cap Asks # {}

(* Slip: without the guard of identity, whoever comes last cleans up. *)
CleanUpAnyway(a) ==
    /\ items' = IF status = "streaming" THEN Quiet(items) ELSE items
    /\ status' = IF status = "streaming" THEN "aborted" ELSE status
    /\ streaming' = FALSE
    /\ abortController' = Null

(* The finally block of _stream: a later call may have taken over. *)
CleanUp(a) ==
    IF abortController = a
    THEN /\ items' = IF status = "streaming" THEN Quiet(items) ELSE items
         /\ status' = IF status = "streaming" THEN "aborted" ELSE status
         /\ streaming' = FALSE
         /\ abortController' = Null
    ELSE UNCHANGED <<items, status, streaming, abortController>>

(* What is known of a call is gone with it. *)
Closes(a) ==
    /\ reader' = [reader EXCEPT ![a] = "over"]
    /\ askedIn' = [askedIn EXCEPT ![a] = Null]
    /\ cut' = cut \ {a}
    /\ CleanUp(a)

(* The body ends, or is cut: sseStream returns. *)
StreamEnds(a) ==
    /\ reader[a] \in {"reading", "told"}
    /\ IF Syncs
       THEN /\ reader' = [reader EXCEPT ![a] = "syncing"]
            /\ UNCHANGED <<items, status, streaming, abortController, askedIn, cut>>
       ELSE Closes(a)
    /\ UNCHANGED <<currentSessionId, loadingMessages, historySeq, loads, stops, switched>>

Synced(a) ==
    /\ reader[a] = "syncing"
    /\ Closes(a)
    /\ UNCHANGED <<currentSessionId, loadingMessages, historySeq, loads, stops, switched>>

(* abort, behind its await: what it cuts is what is there then. *)
StopNow ==
    /\ cut' = cut \cup ({abortController} \ {Null})
    /\ items' = Quiet(items)
    /\ streaming' = FALSE
    /\ status' = "aborted"
    /\ UNCHANGED <<currentSessionId, loadingMessages, historySeq, abortController, reader,
                   askedIn, loads, switched>>

(* abort: the server is asked first, if it has named the session. *)
PressStop ==
    /\ streaming
    /\ IF currentSessionId = Null
       THEN StopNow /\ UNCHANGED stops
       ELSE /\ stops < MaxStops
            /\ stops' = stops + 1
            /\ UNCHANGED <<currentSessionId, items, streaming, status, loadingMessages,
                           historySeq, abortController, reader, askedIn, cut, loads, switched>>

StopReturns ==
    /\ stops > 0
    /\ stops' = stops - 1
    /\ StopNow

(* clearAccount: the stream is cut and the store reset; requests that are    *)
(* under way are not stopped, their responses are canceled.                  *)
ClearAccount ==
    /\ switched = "no"
    /\ switched' = IF loads = {} THEN "idle" ELSE "loading"
    /\ cut' = cut \cup ({abortController} \ {Null})
    /\ loads' = {[load EXCEPT !.canceled = TRUE] : load \in loads}
    /\ currentSessionId' = Null /\ items' = <<>>
    /\ streaming' = FALSE /\ status' = "idle" /\ loadingMessages' = FALSE /\ historySeq' = 0
    /\ abortController' = Null
    /\ UNCHANGED <<reader, askedIn, stops>>

StoreNext ==
    \/ NewSession \/ \E chat \in Chats : SelectSession(chat)
    \/ \E load \in loads : HistoryReturns(load)
    \/ \E a \in Asks :
         \/ Ask(a) \/ RetryLast(a)
         \/ StartFrame(a) \/ ChunkFrame(a) \/ DoneFrame(a) \/ AbortedFrame(a) \/ ErrorFrame(a)
         \/ ErrorWithoutSession(a) \/ StreamEnds(a) \/ Synced(a)
    \/ PressStop \/ StopReturns
    \/ ClearAccount

StoreSpec == StoreInit /\ [][StoreNext]_storeVars

StoreTypeOK ==
    /\ currentSessionId \in Asks \cup Chats \cup {Null}
    /\ ToSet(items) \subseteq [type : {"user", "answer"}, of : Asks \cup Chats,
                               parts : SUBSET (Asks \cup Chats), streaming : BOOLEAN]
    /\ {streaming, loadingMessages} \subseteq BOOLEAN
    /\ status \in {"idle", "streaming", "done", "aborted", "error"}
    /\ historySeq \in 0..MaxViews
    /\ abortController \in Asks \cup {Null}
    /\ reader \in [Asks -> {"new", "reading", "told", "syncing", "over"}]
    /\ askedIn \in [Asks -> Asks \cup Chats \cup {Null}]
    /\ cut \subseteq Asks
    /\ loads \subseteq [request : 1..MaxViews, chat : Chats, canceled : BOOLEAN]
    /\ stops \in 0..MaxStops
    /\ switched \in {"no", "idle", "loading"}

-----------------------------------------------------------------------------
(* Properties *)

(* A stream that is being read is the one the stop button cuts. *)
Stoppable ==
    \A a \in Asks : reader[a] \in {"reading", "told"} /\ a \notin cut =>
        streaming /\ abortController = a

(* It has its answer on the screen, the last one. *)
AnswerShown ==
    \A a \in Asks : ReadsFrames(a) =>
        LastItem("answer", items) # 0 /\ items[LastItem("answer", items)].of = a

(* No answer has text of another turn. *)
OwnTexts == \A item \in ToSet(items) : item.type = "answer" => item.parts \subseteq {item.of}

(* A stored history is shown in its session only. *)
OwnHistory == \A item \in ToSet(items) : item.of \in Chats => item.of = currentSessionId

(* No answer is shown as being written when nobody writes it. *)
NoneHangs ==
    \A item \in ToSet(items) : item.type = "answer" /\ item.streaming =>
        reader[item.of] = "reading"

(* However late a history, a frame, the end of a stream or the answer to a   *)
(* request to stop comes, it finds the turn and the session it was meant     *)
(* for. An account that was left while a history was loading is excepted:    *)
(* the canceled response ends the wait of the next account's first history,  *)
(* which may then replace a question that was asked meanwhile. That only the *)
(* turn for which it was pressed is cut by the stop button is not claimed.   *)
StoreTrue ==
    switched # "loading" => Stoppable /\ AnswerShown /\ OwnTexts /\ OwnHistory /\ NoneHangs

=============================================================================
