---------------------------- MODULE ReaderProofs ------------------------------
(***************************************************************************)
(* What the reader sees, and what the model is told. Whatever comes late   *)
(* to the store of the web client finds the turn and the session it was    *)
(* meant for, for any number of questions, histories and requests to stop. *)
(* However a model's text is cut, the reader is sent what stands before    *)
(* its citation block, and what is cited is evidence that was found. And a *)
(* model is told the turns it may know, as many as fit.                    *)
(***************************************************************************)
EXTENDS ChatStore, Answering, Conversation, SequenceLemmas

Types == {"user", "answer"}
OnScreen == [type : Types, of : Asks \cup Chats, parts : SUBSET (Asks \cup Chats),
          streaming : BOOLEAN]

(* The types of the variables, the screen being a sequence. *)
StoreTypes ==
    /\ currentSessionId \in Asks \cup Chats \cup {Null}
    /\ items \in Seq(OnScreen)
    /\ streaming \in BOOLEAN /\ loadingMessages \in BOOLEAN
    /\ status \in {"idle", "streaming", "done", "aborted", "error"}
    /\ historySeq \in 0..MaxViews
    /\ abortController \in Asks \cup {Null}
    /\ reader \in [Asks -> {"new", "reading", "told", "syncing", "over"}]
    /\ askedIn \in [Asks -> Asks \cup Chats \cup {Null}]
    /\ cut \subseteq Asks
    /\ loads \subseteq [request : 1..MaxViews, chat : Chats, canceled : BOOLEAN]
    /\ stops \in 0..MaxStops
    /\ switched \in {"no", "idle", "loading"}

(* The calls begin one after the other; what has not begun is not cut. *)
Begun == \E n \in 0..MaxAsks : \A a \in Asks : reader[a] # "new" <=> a <= n
Unasked == \A a \in Asks : reader[a] = "new" => a \notin cut /\ abortController # a

(* An answer that is being written is the last one, of a stream that is read. *)
Writing ==
    \A i \in DOMAIN items : items[i].type = "answer" /\ items[i].streaming =>
        /\ i = LastItem("answer", items)
        /\ status = "streaming"
        /\ items[i].of \in Asks /\ ReadsFrames(items[i].of)

(* While a stream is read, the session is the one it was asked in. *)
SessionKept ==
    \A a \in Asks : ReadsFrames(a) =>
        \/ currentSessionId = askedIn[a]
        \/ askedIn[a] = Null /\ currentSessionId = a

(* The history that would still be shown is waited for, so nothing is asked. *)
LoadsAwaited ==
    \A load \in loads :
        /\ load.request <= historySeq
        /\ load.request = historySeq => loadingMessages /\ ~streaming
        /\ \A other \in loads : other.request = load.request => other = load

(* Each item by its place on the screen. *)
OwnItems ==
    \A i \in DOMAIN items :
        /\ items[i].type = "answer" => items[i].parts \subseteq {items[i].of}
        /\ items[i].of \in Chats => items[i].of = currentSessionId

StoreRight ==
    /\ Stoppable
    /\ AnswerShown
    /\ OwnItems
    /\ Writing
    /\ SessionKept
    /\ LoadsAwaited

StoreInv ==
    /\ StoreTypes
    /\ Begun
    /\ Unasked
    /\ switched # "loading" => StoreRight

-----------------------------------------------------------------------------
(* The screen *)

(* The largest of finitely many positions. *)
LEMMA LastExists ==
    ASSUME NEW n \in Nat, NEW S \in SUBSET (1..n), S # {}
    PROVE  \E k \in S : \A i \in S : k >= i
  <1> DEFINE Above == {m \in Nat : \A i \in S : m >= i}
  <1>1. n \in Above /\ Above \subseteq Nat
    OBVIOUS
  <1>2. PICK m \in Above : \A y \in Above : ~(<<y, m>> \in OpToRel(<, Nat))
    BY <1>1, NatLessThanWellFounded, WFMin, Zenon
  <1>3. \A y \in Above : ~(y < m)
    BY <1>2 DEF OpToRel
  <1>4. m \in Nat /\ (\A i \in S : i \in 1..n /\ m >= i)
    OBVIOUS
  <1>5. CASE m \in S
    BY <1>5, <1>4
  <1>6. CASE m \notin S
    <2>1. \A i \in S : i \in 1..n /\ m > i
      BY <1>6, <1>4
    <2>2. m - 1 \in Above
      <3>1. PICK i \in S : TRUE
        OBVIOUS
      <3>2. m > 0
        BY <2>1, <3>1, <1>4
      <3>3. m - 1 \in Nat /\ \A j \in S : m - 1 >= j
        BY <2>1, <3>2, <1>4
      <3> QED
        BY <3>3
    <2>3. m - 1 < m
      BY <1>4
    <2> QED
      BY <2>2, <2>3, <1>3
  <1> QED
    BY <1>5, <1>6

(* LastItem is the last position of an item of that type, 0 without one. *)
LEMMA LastKnown ==
    ASSUME NEW screen \in Seq(OnScreen), NEW type \in Types
    PROVE  /\ LastItem(type, screen) \in 0..Len(screen)
           /\ LastItem(type, screen) # 0 => screen[LastItem(type, screen)].type = type
           /\ \A i \in DOMAIN screen : screen[i].type = type => i <= LastItem(type, screen)
  <1> DEFINE Places == {i \in 1..Len(screen) : screen[i].type = type}
  <1>1. LastItem(type, screen) = IF Places # {} THEN Max(Places) ELSE 0
    BY DEF LastItem, SelectLastInSeq
  <1>2. Places # {} => \E k \in Places : \A i \in Places : k >= i
    BY LastExists, Len(screen) \in Nat
  <1>3. Places # {} => Max(Places) \in Places /\ \A i \in Places : Max(Places) >= i
    BY <1>2, Zenon DEF Max
  <1> HIDE DEF Places
  <1>4. CASE Places = {}
    BY <1>4, <1>1 DEF Places
  <1>5. CASE Places # {}
    BY <1>5, <1>1, <1>3 DEF Places
  <1> QED
    BY <1>4, <1>5

(* A position that has the type and none behind it is the last. *)
LEMMA LastIs ==
    ASSUME NEW screen \in Seq(OnScreen), NEW type \in Types, NEW k \in DOMAIN screen,
           screen[k].type = type,
           \A i \in DOMAIN screen : screen[i].type = type => i <= k
    PROVE  LastItem(type, screen) = k
  <1>1. /\ LastItem(type, screen) \in 0..Len(screen)
        /\ LastItem(type, screen) # 0 => screen[LastItem(type, screen)].type = type
        /\ k <= LastItem(type, screen)
    BY LastKnown, Zenon
  <1>2. k \in 1..Len(screen) /\ DOMAIN screen = 1..Len(screen)
    OBVIOUS
  <1>3. LastItem(type, screen) <= k
    BY <1>1, <1>2
  <1> QED
    BY <1>1, <1>2, <1>3

(* It depends on the types only. *)
LEMMA LastSame ==
    ASSUME NEW screen \in Seq(OnScreen), NEW other \in Seq(OnScreen), NEW type \in Types,
           Len(other) = Len(screen),
           \A i \in DOMAIN screen : other[i].type = screen[i].type
    PROVE  LastItem(type, other) = LastItem(type, screen)
  <1>1. DOMAIN other = 1..Len(screen) /\ DOMAIN screen = 1..Len(screen) /\ Len(screen) \in Nat
    OBVIOUS
  <1> DEFINE k == LastItem(type, screen)
             l == LastItem(type, other)
  <1>2. /\ k \in 0..Len(screen)
        /\ k # 0 => screen[k].type = type
        /\ \A i \in DOMAIN screen : screen[i].type = type => i <= k
    BY LastKnown, Zenon
  <1>3. /\ l \in 0..Len(screen)
        /\ l # 0 => other[l].type = type
        /\ \A i \in DOMAIN other : other[i].type = type => i <= l
    BY LastKnown, Zenon
  <1> HIDE DEF k, l
  <1>4. k = 0 \/ k <= l
    BY <1>1, <1>2, <1>3
  <1>5. l = 0 \/ l <= k
    BY <1>1, <1>2, <1>3
  <1>6. k = l
    BY <1>2, <1>3, <1>4, <1>5
  <1> QED
    BY <1>6 DEF k, l

(* The items of the one screen are those of the other but for their text. *)
Like(screen, other) ==
    /\ other \in Seq(OnScreen)
    /\ DOMAIN other = DOMAIN screen
    /\ \A i \in DOMAIN screen : other[i].type = screen[i].type /\ other[i].of = screen[i].of

(* Then the same answer is the last one. *)
LEMMA LikeLast ==
    ASSUME NEW screen \in Seq(OnScreen), NEW other, Like(screen, other), NEW type \in Types
    PROVE  LastItem(type, other) = LastItem(type, screen)
  <1>1. Len(other) = Len(screen)
    BY DEF Like
  <1> QED
    BY <1>1, LastSame, Zenon DEF Like

(* One item is replaced by one of the same type and turn. *)
LEMMA Replaced ==
    ASSUME NEW screen \in Seq(OnScreen), NEW k \in DOMAIN screen, NEW item \in OnScreen,
           item.type = screen[k].type, item.of = screen[k].of
    PROVE  /\ Like(screen, [screen EXCEPT ![k] = item])
           /\ [screen EXCEPT ![k] = item][k] = item
           /\ \A i \in DOMAIN screen \ {k} : [screen EXCEPT ![k] = item][i] = screen[i]
  <1>1. [screen EXCEPT ![k] = item] \in Seq(OnScreen)
    OBVIOUS
  <1> QED
    BY <1>1 DEF Like

(* Quiet ends the writing of the last answer and nothing else. *)
LEMMA Quieted ==
    ASSUME NEW screen \in Seq(OnScreen)
    PROVE  /\ Like(screen, Quiet(screen))
           /\ \A i \in DOMAIN screen :
                /\ Quiet(screen)[i].parts = screen[i].parts
                /\ Quiet(screen)[i].streaming =>
                     screen[i].streaming /\ i # LastItem("answer", screen)
  <1> DEFINE k == LastItem("answer", screen)
             item == [screen[k] EXCEPT !.streaming = FALSE]
  <1>1. /\ k \in 0..Len(screen)
        /\ k # 0 => screen[k].type = "answer"
    BY LastKnown, Zenon DEF Types
  <1>2. Quiet(screen) = IF k = 0 THEN screen ELSE [screen EXCEPT ![k] = item]
    BY DEF Quiet
  <1>3. \A i \in DOMAIN screen : screen[i] \in OnScreen
    OBVIOUS
  <1>4. DOMAIN screen = 1..Len(screen) /\ Len(screen) \in Nat
    OBVIOUS
  <1> HIDE DEF k
  <1>5. CASE k = 0
    BY <1>2, <1>4, <1>5 DEF Like, k
  <1>6. CASE k # 0
    <2>1. k \in DOMAIN screen
      BY <1>1, <1>4, <1>6
    <2>2. /\ item \in OnScreen /\ item.type = screen[k].type /\ item.of = screen[k].of
          /\ item.parts = screen[k].parts /\ item.streaming = FALSE
      BY <2>1, <1>3 DEF OnScreen
    <2> HIDE DEF item
    <2>3. /\ Like(screen, [screen EXCEPT ![k] = item])
          /\ [screen EXCEPT ![k] = item][k] = item
          /\ \A i \in DOMAIN screen \ {k} : [screen EXCEPT ![k] = item][i] = screen[i]
      BY <2>1, <2>2, Replaced, Zenon
    <2>4. Quiet(screen) = [screen EXCEPT ![k] = item]
      BY <1>2, <1>6
    <2> QED
      BY <2>2, <2>3, <2>4 DEF k
  <1> QED
    BY <1>5, <1>6

(* An item is added at the end. *)
LEMMA Added ==
    ASSUME NEW screen \in Seq(OnScreen), NEW item \in OnScreen
    PROVE  /\ Append(screen, item) \in Seq(OnScreen)
           /\ DOMAIN Append(screen, item) = DOMAIN screen \cup {Len(screen) + 1}
           /\ Append(screen, item)[Len(screen) + 1] = item
           /\ \A i \in DOMAIN screen : Append(screen, item)[i] = screen[i]
           /\ LastItem(item.type, Append(screen, item)) = Len(screen) + 1
  <1>1. /\ Append(screen, item) \in Seq(OnScreen)
        /\ DOMAIN Append(screen, item) = 1..(Len(screen) + 1)
        /\ Append(screen, item)[Len(screen) + 1] = item
        /\ \A i \in 1..Len(screen) : Append(screen, item)[i] = screen[i]
        /\ DOMAIN screen = 1..Len(screen) /\ Len(screen) \in Nat
    OBVIOUS
  <1>2. item.type \in Types
    BY DEF OnScreen
  <1>3. Len(screen) + 1 \in DOMAIN Append(screen, item)
    BY <1>1
  <1>4. \A i \in DOMAIN Append(screen, item) : i <= Len(screen) + 1
    BY <1>1
  <1>5. LastItem(item.type, Append(screen, item)) = Len(screen) + 1
    BY <1>1, <1>2, <1>3, <1>4, LastIs, Zenon
  <1> QED
    BY <1>1, <1>5

-----------------------------------------------------------------------------
(* Types *)

(* The items that a step puts on the screen. *)
LEMMA ItemTypes ==
    ASSUME NEW of \in Asks \cup Chats
    PROVE  /\ UserItem(of) \in OnScreen
           /\ EmptyAnswer(of) \in OnScreen
           /\ Item("answer", of, {of}, FALSE) \in OnScreen
           /\ UserItem(of).type = "user" /\ UserItem(of).of = of
           /\ EmptyAnswer(of).type = "answer" /\ EmptyAnswer(of).of = of
           /\ EmptyAnswer(of).parts = {}
  BY DEF UserItem, EmptyAnswer, Item, OnScreen, Types

(* A screen on which a question is put, or is put again. *)
LEMMA KeptTypes ==
    ASSUME StoreTypes, LastItem("user", items) # 0
    PROVE  /\ SubSeq(items, 1, LastItem("user", items)) \in Seq(OnScreen)
           /\ \A i \in DOMAIN SubSeq(items, 1, LastItem("user", items)) :
                /\ i \in DOMAIN items
                /\ SubSeq(items, 1, LastItem("user", items))[i] = items[i]
  <1> DEFINE k == LastItem("user", items)
  <1>1. items \in Seq(OnScreen) /\ "user" \in Types
    BY DEF StoreTypes, Types
  <1>2. k \in 1..Len(items)
    BY <1>1, LastKnown
  <1> HIDE DEF k
  <1>3. /\ SubSeq(items, 1, k) \in Seq(OnScreen)
        /\ \A i \in DOMAIN SubSeq(items, 1, k) :
             i \in DOMAIN items /\ SubSeq(items, 1, k)[i] = items[i]
    BY <1>1, <1>2
  <1> QED
    BY <1>3 DEF k

(* A stream that begins. *)
LEMMA BeginTypes ==
    ASSUME StoreTypes, NEW a \in Asks, NEW screen \in Seq(OnScreen), BeginStream(a, screen)
    PROVE  StoreTypes'
  <1>1. items' \in Seq(OnScreen)
    BY ItemTypes, Added, Zenon DEF BeginStream
  <1> QED
    BY <1>1 DEF StoreTypes, BeginStream

(* The whole answer replaces the text of the last one. *)
LEMMA DoneShown ==
    ASSUME NEW screen \in Seq(OnScreen), LastItem("answer", screen) # 0, NEW a \in Asks
    PROVE  LET k == LastItem("answer", screen)
               after == [screen EXCEPT ![k].parts = {a}, ![k].streaming = FALSE]
           IN /\ k \in DOMAIN screen
              /\ Like(screen, after)
              /\ after[k].parts = {a}
              /\ ~after[k].streaming
              /\ \A i \in DOMAIN screen \ {k} : after[i] = screen[i]
  <1> DEFINE k == LastItem("answer", screen)
             item == [screen[k] EXCEPT !.parts = {a}, !.streaming = FALSE]
             after == [screen EXCEPT ![k].parts = {a}, ![k].streaming = FALSE]
  <1>1. k \in DOMAIN screen
    BY LastKnown DEF Types
  <1>2. screen[k] \in OnScreen
    BY <1>1
  <1> HIDE DEF k
  <1>3. /\ item \in OnScreen /\ item.type = screen[k].type /\ item.of = screen[k].of
        /\ item.parts = {a} /\ ~item.streaming
    BY <1>2 DEF OnScreen
  <1>4. after = [screen EXCEPT ![k] = item]
    BY <1>1
  <1> HIDE DEF item, after
  <1>5. /\ Like(screen, after) /\ after[k] = item
        /\ \A i \in DOMAIN screen \ {k} : after[i] = screen[i]
    BY <1>1, <1>3, <1>4, Replaced, Zenon
  <1> QED
    BY <1>1, <1>3, <1>5 DEF k, item, after

(* A frame adds its stream's text to the last answer. *)
LEMMA ChunkShown ==
    ASSUME NEW screen \in Seq(OnScreen), LastItem("answer", screen) # 0, NEW a \in Asks
    PROVE  LET k == LastItem("answer", screen)
               after == [screen EXCEPT ![k].parts = @ \cup {a}]
           IN /\ k \in DOMAIN screen
              /\ Like(screen, after)
              /\ after[k].parts = screen[k].parts \cup {a}
              /\ after[k].streaming = screen[k].streaming
              /\ \A i \in DOMAIN screen \ {k} : after[i] = screen[i]
  <1> DEFINE k == LastItem("answer", screen)
             item == [screen[k] EXCEPT !.parts = @ \cup {a}]
             after == [screen EXCEPT ![k].parts = @ \cup {a}]
  <1>1. k \in DOMAIN screen
    BY LastKnown DEF Types
  <1>2. screen[k] \in OnScreen
    BY <1>1
  <1> HIDE DEF k
  <1>3. /\ item \in OnScreen /\ item.type = screen[k].type /\ item.of = screen[k].of
        /\ item.parts = screen[k].parts \cup {a} /\ item.streaming = screen[k].streaming
    BY <1>2 DEF OnScreen
  <1>4. after = [screen EXCEPT ![k] = item]
    BY <1>1
  <1> HIDE DEF item, after
  <1>5. /\ Like(screen, after) /\ after[k] = item
        /\ \A i \in DOMAIN screen \ {k} : after[i] = screen[i]
    BY <1>1, <1>3, <1>4, Replaced, Zenon
  <1> QED
    BY <1>1, <1>3, <1>5 DEF k, item, after

(* What a step may leave on the screen is a screen. *)
LEMMA ScreenTypes ==
    ASSUME StoreTypes, StoreNext
    PROVE  items' \in Seq(OnScreen)
  <1> items \in Seq(OnScreen)
    BY DEF StoreTypes
  <1>1. \A screen \in Seq(OnScreen) : Quiet(screen) \in Seq(OnScreen)
    BY Quieted DEF Like
  <1>2. items' = items => items' \in Seq(OnScreen)
    OBVIOUS
  <1>3. items' = Quiet(items) => items' \in Seq(OnScreen)
    BY <1>1
  <1>4. <<>> \in Seq(OnScreen)
    OBVIOUS
  <1>5. CASE NewSession \/ (\E chat \in Chats : SelectSession(chat)) \/ ClearAccount
    BY <1>4, <1>5 DEF NewSession, SelectSession, View, ClearAccount
  <1>6. ASSUME NEW load \in loads, HistoryReturns(load) PROVE items' \in Seq(OnScreen)
    <2>1. load.chat \in Chats
      BY DEF StoreTypes
    <2>2. /\ UserItem(load.chat) \in OnScreen
          /\ Item("answer", load.chat, {load.chat}, FALSE) \in OnScreen
      BY <2>1, ItemTypes
    <2>3. \A p, q \in OnScreen : <<p, q>> \in Seq(OnScreen)
      OBVIOUS
    <2>4. Rebuilt(load.chat) \in Seq(OnScreen)
      BY <2>2, <2>3, Zenon DEF Rebuilt
    <2> QED
      BY <1>6, <2>4 DEF HistoryReturns
  <1>7. CASE PressStop \/ StopReturns
    BY <1>2, <1>3, <1>7 DEF PressStop, StopReturns, StopNow
  <1>8. ASSUME NEW a \in Asks PROVE /\ Ask(a) => items' \in Seq(OnScreen)
                                    /\ RetryLast(a) => items' \in Seq(OnScreen)
                                    /\ StartFrame(a) => items' \in Seq(OnScreen)
                                    /\ ChunkFrame(a) => items' \in Seq(OnScreen)
                                    /\ DoneFrame(a) => items' \in Seq(OnScreen)
                                    /\ AbortedFrame(a) => items' \in Seq(OnScreen)
                                    /\ ErrorFrame(a) => items' \in Seq(OnScreen)
                                    /\ ErrorWithoutSession(a) => items' \in Seq(OnScreen)
                                    /\ StreamEnds(a) => items' \in Seq(OnScreen)
                                    /\ Synced(a) => items' \in Seq(OnScreen)
    <2>1. Ask(a) => items' \in Seq(OnScreen)
      <3>1. Append(items, UserItem(a)) \in Seq(OnScreen)
        BY ItemTypes, Added, Zenon
      <3>2. Append(Append(items, UserItem(a)), EmptyAnswer(a)) \in Seq(OnScreen)
        BY <3>1, ItemTypes, Added, Zenon
      <3> QED
        BY <3>2, Zenon DEF Ask, BeginStream
    <2>2. RetryLast(a) => items' \in Seq(OnScreen)
      <3> SUFFICES ASSUME RetryLast(a) PROVE items' \in Seq(OnScreen)
        OBVIOUS
      <3>1. EmptyAnswer(a) \in OnScreen
        BY ItemTypes
      <3>2. SubSeq(items, 1, LastItem("user", items)) \in Seq(OnScreen)
        BY KeptTypes DEF RetryLast
      <3>3. Append(SubSeq(items, 1, LastItem("user", items)), EmptyAnswer(a)) \in Seq(OnScreen)
        BY <3>1, <3>2, Added, Zenon
      <3> QED
        BY <3>3, Zenon DEF RetryLast, BeginStream
    <2>3. ChunkFrame(a) => items' \in Seq(OnScreen)
      <3> DEFINE screen == IF LastItem("answer", items) = 0
                          THEN Append(items, EmptyAnswer(a)) ELSE items
      <3>1. screen \in Seq(OnScreen) /\ LastItem("answer", screen) # 0
        <4>1. CASE LastItem("answer", items) = 0
          <5>1. /\ Append(items, EmptyAnswer(a)) \in Seq(OnScreen)
                /\ LastItem("answer", Append(items, EmptyAnswer(a))) = Len(items) + 1
            <6>1. EmptyAnswer(a) \in OnScreen /\ EmptyAnswer(a).type = "answer"
              BY ItemTypes
            <6>2. /\ Append(items, EmptyAnswer(a)) \in Seq(OnScreen)
                  /\ LastItem(EmptyAnswer(a).type, Append(items, EmptyAnswer(a))) = Len(items) + 1
              BY <6>1, Added, Zenon
            <6> QED
              BY <6>1, <6>2
          <5>2. Len(items) + 1 # 0
            OBVIOUS
          <5> QED
            BY <4>1, <5>1, <5>2
        <4> QED
          BY <4>1
      <3> HIDE DEF screen
      <3>2. [screen EXCEPT ![LastItem("answer", screen)].parts = @ \cup {a}] \in Seq(OnScreen)
        BY <3>1, ChunkShown, Zenon DEF Like
      <3> QED
        BY <3>2 DEF ChunkFrame, screen
    <2>4. DoneFrame(a) => items' \in Seq(OnScreen)
      <3>1. LastItem("answer", items) # 0 =>
              [items EXCEPT ![LastItem("answer", items)].parts = {a},
                            ![LastItem("answer", items)].streaming = FALSE] \in Seq(OnScreen)
        BY DoneShown, Zenon DEF Like
      <3> QED
        BY <3>1, Zenon DEF DoneFrame
    <2>5. /\ AbortedFrame(a) => items' \in Seq(OnScreen)
          /\ ErrorFrame(a) => items' \in Seq(OnScreen)
          /\ ErrorWithoutSession(a) => items' \in Seq(OnScreen)
      BY <1>3, Zenon DEF AbortedFrame, ErrorFrame, ErrorWithoutSession, ShowError
    <2>6. /\ StreamEnds(a) => items' \in Seq(OnScreen)
          /\ Synced(a) => items' \in Seq(OnScreen)
      BY <1>2, <1>3 DEF StreamEnds, Synced, Closes, CleanUp
    <2>7. StartFrame(a) => items' \in Seq(OnScreen)
      BY DEF StartFrame
    <2> QED
      BY <2>1, <2>2, <2>3, <2>4, <2>5, <2>6, <2>7
  <1> QED
    BY <1>5, <1>6, <1>7, <1>8, Zenon DEF StoreNext

(* Every step keeps the types. *)
LEMMA StoreTypesNext ==
    ASSUME StoreTypes, StoreNext
    PROVE  StoreTypes'
  <1>0. items' \in Seq(OnScreen)
    BY ScreenTypes
  <1>1. CASE NewSession \/ (\E chat \in Chats : SelectSession(chat))
    <2>1. historySeq \in Nat /\ MaxViews \in Nat
      BY ChatStoreAssumption DEF StoreTypes
    <2>2. /\ historySeq' = historySeq + 1 /\ historySeq < MaxViews
          /\ currentSessionId' \in Chats \cup {Null}
          /\ loadingMessages' \in BOOLEAN
          /\ UNCHANGED <<streaming, status, abortController, reader, askedIn, cut, stops, switched>>
      BY <1>1 DEF NewSession, SelectSession, View
    <2>3. historySeq' \in 1..MaxViews
      BY <2>1, <2>2
    <2>4. \A chat \in Chats : [request |-> historySeq', chat |-> chat, canceled |-> FALSE] \in
            [request : 1..MaxViews, chat : Chats, canceled : BOOLEAN]
      BY <2>3
    <2>5. loads' \subseteq [request : 1..MaxViews, chat : Chats, canceled : BOOLEAN]
      <3>1. loads \subseteq [request : 1..MaxViews, chat : Chats, canceled : BOOLEAN]
        BY DEF StoreTypes
      <3>2. loads' = loads \/ \E chat \in Chats :
              loads' = loads \cup {[request |-> historySeq', chat |-> chat, canceled |-> FALSE]}
        BY <1>1, Zenon DEF NewSession, SelectSession
      <3> QED
        BY <2>4, <3>1, <3>2
    <2> QED
      BY <1>0, <2>2, <2>3, <2>5 DEF StoreTypes
  <1>2. ASSUME NEW load \in loads, HistoryReturns(load) PROVE StoreTypes'
    BY <1>0, <1>2 DEF StoreTypes, HistoryReturns
  <1>3. CASE PressStop \/ StopReturns
    <2>1. stops \in Nat /\ stops <= MaxStops /\ MaxStops \in Nat
      BY ChatStoreAssumption DEF StoreTypes
    <2>2. stops' = stops \/ (stops < MaxStops /\ stops' = stops + 1)
            \/ (stops > 0 /\ stops' = stops - 1)
      BY <1>3 DEF PressStop, StopReturns
    <2>3. stops' \in 0..MaxStops
      BY <2>1, <2>2
    <2>4. /\ UNCHANGED <<currentSessionId, loadingMessages, historySeq, abortController, reader,
                         askedIn, loads, switched>>
          /\ cut' = cut \/ cut' = cut \cup ({abortController} \ {Null})
          /\ streaming' \in {streaming, FALSE}
          /\ status' \in {status, "aborted"}
      BY <1>3, Zenon DEF PressStop, StopReturns, StopNow
    <2>5. cut' \subseteq Asks
      BY <2>4 DEF StoreTypes
    <2> QED
      BY <1>0, <2>3, <2>4, <2>5 DEF StoreTypes
  <1>4. CASE ClearAccount
    <2>1. \A load \in loads : [load EXCEPT !.canceled = TRUE] \in
            [request : 1..MaxViews, chat : Chats, canceled : BOOLEAN]
      BY DEF StoreTypes
    <2> QED
      <3>1. /\ currentSessionId' = Null /\ streaming' = FALSE /\ status' = "idle"
            /\ loadingMessages' = FALSE /\ historySeq' = 0 /\ abortController' = Null
            /\ UNCHANGED <<reader, askedIn, stops>>
            /\ cut' = cut \cup ({abortController} \ {Null})
            /\ loads' = {[load EXCEPT !.canceled = TRUE] : load \in loads}
            /\ switched' \in {"idle", "loading"}
        BY <1>4 DEF ClearAccount
      <3>2. cut' \subseteq Asks
        BY <3>1 DEF StoreTypes
      <3>3. loads' \subseteq [request : 1..MaxViews, chat : Chats, canceled : BOOLEAN]
        BY <2>1, <3>1
      <3>4. historySeq' \in 0..MaxViews
        BY <3>1, ChatStoreAssumption
      <3> QED
        BY <1>0, <3>1, <3>2, <3>3, <3>4 DEF StoreTypes
  <1>5. ASSUME NEW a \in Asks, NEW screen, BeginStream(a, screen) PROVE StoreTypes'
    BY <1>0, <1>5 DEF StoreTypes, BeginStream
  <1>6. ASSUME NEW a \in Asks,
               StartFrame(a) \/ ChunkFrame(a) \/ DoneFrame(a) \/ AbortedFrame(a)
                 \/ ErrorFrame(a) \/ ErrorWithoutSession(a)
        PROVE  StoreTypes'
    <2>1. /\ UNCHANGED <<streaming, loadingMessages, historySeq, abortController, askedIn, cut,
                         loads, stops, switched>>
          /\ currentSessionId' \in {currentSessionId, a, askedIn[a]}
      BY <1>6 DEF StartFrame, ChunkFrame, DoneFrame, AbortedFrame, ErrorFrame,
                  ErrorWithoutSession, Frame, ShowError
    <2>2. reader' = reader \/ reader' = [reader EXCEPT ![a] = "told"]
      BY <1>6 DEF StartFrame, ChunkFrame, DoneFrame, AbortedFrame, ErrorFrame,
                  ErrorWithoutSession, Frame, ShowError, LastFrame
    <2>3. status' = status \/ status' \in {"done", "aborted", "error"}
      BY <1>6 DEF StartFrame, ChunkFrame, DoneFrame, AbortedFrame, ErrorFrame,
                  ErrorWithoutSession, Frame, ShowError, LastFrame
    <2> QED
      BY <1>0, <2>1, <2>2, <2>3 DEF StoreTypes
  <1>7. ASSUME NEW a \in Asks, StreamEnds(a) \/ Synced(a) PROVE StoreTypes'
    <2>1. /\ UNCHANGED <<currentSessionId, loadingMessages, historySeq, loads, stops, switched>>
          /\ reader' \in {[reader EXCEPT ![a] = "syncing"], [reader EXCEPT ![a] = "over"]}
          /\ askedIn' \in {askedIn, [askedIn EXCEPT ![a] = Null]}
          /\ cut' \in {cut, cut \ {a}}
          /\ streaming' \in {streaming, FALSE}
          /\ status' \in {status, "aborted"}
          /\ abortController' \in {abortController, Null}
      BY <1>7, Zenon DEF StreamEnds, Synced, Closes, CleanUp
    <2>2. /\ reader' \in [Asks -> {"new", "reading", "told", "syncing", "over"}]
          /\ askedIn' \in [Asks -> Asks \cup Chats \cup {Null}]
          /\ cut' \subseteq Asks
      BY <2>1 DEF StoreTypes
    <2> QED
      BY <1>0, <2>1, <2>2 DEF StoreTypes
  <1> QED
    BY <1>1, <1>2, <1>3, <1>4, <1>5, <1>6, <1>7, Zenon DEF StoreNext, Ask, RetryLast

-----------------------------------------------------------------------------
(* The order of the calls *)

(* A call that begins is new, and the next in order. *)
LEMMA NextCall ==
    ASSUME StoreTypes, Begun, NEW a \in Asks, NEW screen, BeginStream(a, screen)
    PROVE  reader[a] = "new" /\ Begun'
  <1>1. PICK n \in 0..MaxAsks : \A b \in Asks : reader[b] # "new" <=> b <= n
    BY DEF Begun
  <1>2. MaxAsks \in Nat
    BY ChatStoreAssumption
  <1>3. {b \in Asks : reader[b] # "new"} = 1..n
    BY <1>1, <1>2 DEF Asks
  <1>4. Cardinality(1..n) = n
    <2>1. 1 \in Int /\ n \in Int /\ (1 <= n \/ n = 0)
      BY <1>2
    <2>2. Cardinality(1..n) = IF 1 > n THEN 0 ELSE n - 1 + 1
      BY <2>1, FS_Interval
    <2> QED
      BY <2>1, <2>2
  <1>5. a = n + 1
    BY <1>3, <1>4 DEF BeginStream
  <1>6. a \in 1..MaxAsks
    BY DEF Asks
  <1>7. reader[a] = "new"
    BY <1>1, <1>5, <1>2
  <1>8. \A b \in Asks : reader'[b] = IF b = a THEN "reading" ELSE reader[b]
    BY DEF StoreTypes, BeginStream
  <1>9. \A b \in Asks : reader'[b] # "new" <=> b <= n + 1
    BY <1>1, <1>2, <1>5, <1>8 DEF Asks
  <1>10. n + 1 \in 0..MaxAsks
    BY <1>2, <1>5, <1>6
  <1> QED
    BY <1>7, <1>9, <1>10 DEF Begun

(* No other step makes a call new or not new. *)
LEMMA OrderKept ==
    ASSUME StoreTypes, Begun, Unasked,
           \A b \in Asks : reader'[b] = "new" <=> reader[b] = "new",
           abortController' \in {abortController, Null},
           cut' \subseteq cut \cup ({abortController} \ {Null})
    PROVE  Begun' /\ Unasked'
  <1>1. Begun'
    BY DEF Begun
  <1>2. Unasked'
    BY ChatStoreAssumption DEF Unasked
  <1> QED
    BY <1>1, <1>2

(* Every step keeps the order. *)
LEMMA OrderNext ==
    ASSUME StoreTypes, Begun, Unasked, StoreNext
    PROVE  Begun' /\ Unasked'
  <1>1. CASE NewSession \/ (\E chat \in Chats : SelectSession(chat))
               \/ (\E load \in loads : HistoryReturns(load))
               \/ PressStop \/ StopReturns \/ ClearAccount
    <2>1. /\ reader' = reader
          /\ abortController' \in {abortController, Null}
          /\ cut' \subseteq cut \cup ({abortController} \ {Null})
      BY <1>1 DEF NewSession, SelectSession, View, HistoryReturns, PressStop, StopReturns,
                  StopNow, ClearAccount
    <2> QED
      BY <2>1, OrderKept
  <1>2. ASSUME NEW a \in Asks, NEW screen, BeginStream(a, screen) PROVE Begun' /\ Unasked'
    <2>1. reader[a] = "new" /\ Begun'
      BY <1>2, NextCall
    <2>2. reader' = [reader EXCEPT ![a] = "reading"] /\ cut' = cut /\ abortController' = a
      BY <1>2 DEF BeginStream
    <2>3. Unasked'
      BY <2>2 DEF Unasked, StoreTypes
    <2> QED
      BY <2>1, <2>3
  <1>3. ASSUME NEW a \in Asks,
               StartFrame(a) \/ ChunkFrame(a) \/ DoneFrame(a) \/ AbortedFrame(a)
                 \/ ErrorFrame(a) \/ ErrorWithoutSession(a)
        PROVE  Begun' /\ Unasked'
    <2>1. /\ abortController' = abortController /\ cut' = cut
          /\ reader[a] = "reading"
          /\ reader' = reader \/ reader' = [reader EXCEPT ![a] = "told"]
      BY <1>3 DEF StartFrame, ChunkFrame, DoneFrame, AbortedFrame, ErrorFrame,
                  ErrorWithoutSession, Frame, ShowError, LastFrame, ReadsFrames
    <2>2. \A b \in Asks : reader'[b] = "new" <=> reader[b] = "new"
      BY <2>1 DEF StoreTypes
    <2> QED
      BY <2>1, <2>2, OrderKept
  <1>4. ASSUME NEW a \in Asks, StreamEnds(a) \/ Synced(a) PROVE Begun' /\ Unasked'
    <2>1. /\ reader[a] \in {"reading", "told", "syncing"}
          /\ reader' \in {[reader EXCEPT ![a] = "syncing"], [reader EXCEPT ![a] = "over"]}
          /\ cut' \in {cut, cut \ {a}}
          /\ abortController' \in {abortController, Null}
      BY <1>4, Zenon DEF StreamEnds, Synced, Closes, CleanUp
    <2>2. \A b \in Asks : reader'[b] = "new" <=> reader[b] = "new"
      BY <2>1 DEF StoreTypes
    <2> QED
      BY <2>1, <2>2, OrderKept
  <1> QED
    BY <1>1, <1>2, <1>3, <1>4, Zenon DEF StoreNext, Ask, RetryLast

-----------------------------------------------------------------------------
(* The screen and the streams *)

(* The last answer is on the screen. *)
LEMMA LastPlace ==
    ASSUME StoreTypes, LastItem("answer", items) # 0
    PROVE  LastItem("answer", items) \in DOMAIN items /\ items[LastItem("answer", items)].type = "answer"
  BY LastKnown DEF StoreTypes, Types

(* Who is read keeps its answer when the screen changes by texts only. *)
LEMMA AnswerStays ==
    ASSUME StoreTypes, AnswerShown, Like(items, items'),
           \A a \in Asks : ReadsFrames(a)' => ReadsFrames(a)
    PROVE  AnswerShown'
  <1>1. LastItem("answer", items') = LastItem("answer", items)
    BY LikeLast, Zenon DEF StoreTypes, Types
  <1>2. SUFFICES ASSUME NEW a \in Asks, ReadsFrames(a)'
                 PROVE  /\ LastItem("answer", items') # 0
                        /\ items'[LastItem("answer", items')].of = a
    BY DEF AnswerShown
  <1>3. LastItem("answer", items) # 0 /\ items[LastItem("answer", items)].of = a
    BY <1>2 DEF AnswerShown
  <1> QED
    BY <1>1, <1>3, LastPlace DEF Like

(* When the last answer is quiet, nothing is being written. *)
LEMMA QuietKeeps ==
    ASSUME StoreTypes, OwnItems, Writing, items' = Quiet(items),
           \A i \in DOMAIN items : items[i].of \in Chats => items[i].of = currentSessionId'
    PROVE  Like(items, items') /\ OwnItems' /\ Writing'
  <1>1. /\ Like(items, items')
        /\ \A i \in DOMAIN items : /\ items'[i].parts = items[i].parts
                                   /\ items'[i].streaming =>
                                        items[i].streaming /\ i # LastItem("answer", items)
    BY Quieted DEF StoreTypes
  <1>2. DOMAIN items' = DOMAIN items /\ \A i \in DOMAIN items :
          items'[i].type = items[i].type /\ items'[i].of = items[i].of
    BY <1>1 DEF Like
  <1>3. OwnItems'
    BY <1>1, <1>2 DEF OwnItems
  <1>4. \A i \in DOMAIN items' : ~(items'[i].type = "answer" /\ items'[i].streaming)
    BY <1>1, <1>2 DEF Writing
  <1>5. Writing'
    BY <1>4 DEF Writing
  <1> QED
    BY <1>1, <1>3, <1>5

(* A screen that stays. *)
LEMMA ScreenKeeps ==
    ASSUME StoreTypes, OwnItems, Writing, items' = items,
           \A i \in DOMAIN items : items[i].of \in Chats => items[i].of = currentSessionId',
           status' = status,
           \A a \in Asks : ReadsFrames(a) => ReadsFrames(a)'
    PROVE  Like(items, items') /\ OwnItems' /\ Writing'
  <1>1. Like(items, items')
    BY DEF Like, StoreTypes
  <1>2. OwnItems'
    BY DEF OwnItems
  <1>3. Writing'
    BY DEF Writing
  <1> QED
    BY <1>1, <1>2, <1>3

-----------------------------------------------------------------------------
(* The steps *)

(* Another session is opened: nothing is being read. *)
LEMMA ViewsRight ==
    ASSUME StoreTypes, StoreRight, NewSession \/ \E chat \in Chats : SelectSession(chat)
    PROVE  StoreRight'
  <1>1. /\ ~streaming /\ historySeq' = historySeq + 1 /\ items' = <<>>
        /\ UNCHANGED <<streaming, abortController, reader, askedIn, cut>>
    BY DEF NewSession, SelectSession, View
  <1>2. \A a \in Asks : ~(reader[a] \in {"reading", "told"} /\ a \notin cut)
    BY <1>1 DEF StoreRight, Stoppable
  <1>3. Stoppable' /\ AnswerShown' /\ SessionKept'
    BY <1>1, <1>2 DEF Stoppable, AnswerShown, SessionKept, ReadsFrames
  <1>4. OwnItems' /\ Writing'
    BY <1>1 DEF OwnItems, Writing
  <1>5. LoadsAwaited'
    <2>1. historySeq \in Nat /\ \A load \in loads : load.request \in Nat /\ load.request <= historySeq
      BY ChatStoreAssumption DEF StoreTypes, StoreRight, LoadsAwaited
    <2>2. \A load \in loads : load.request # historySeq + 1 /\ load.request <= historySeq + 1
      BY <2>1
    <2>3. \A load, other \in loads : other.request = load.request => other = load
      BY DEF StoreRight, LoadsAwaited
    <2>4. CASE NewSession
      BY <1>1, <2>2, <2>3, <2>4 DEF NewSession, LoadsAwaited
    <2>5. ASSUME NEW chat \in Chats, SelectSession(chat) PROVE LoadsAwaited'
      <3> DEFINE new == [request |-> historySeq + 1, chat |-> chat, canceled |-> FALSE]
      <3>1. loads' = loads \cup {new} /\ loadingMessages' = TRUE
        BY <1>1, <2>5 DEF SelectSession
      <3>2. new.request = historySeq + 1
        OBVIOUS
      <3> HIDE DEF new
      <3>3. historySeq + 1 <= historySeq + 1
        BY <2>1
      <3> QED
        BY <1>1, <2>2, <2>3, <3>1, <3>2, <3>3 DEF LoadsAwaited
    <2> QED
      BY <2>4, <2>5
  <1> QED
    BY <1>3, <1>4, <1>5 DEF StoreRight

(* A history comes: it is shown in its session, when nothing was asked. *)
LEMMA HistoryRight ==
    ASSUME StoreTypes, StoreRight, NEW load \in loads, HistoryReturns(load)
    PROVE  StoreRight'
  <1>1. /\ UNCHANGED <<currentSessionId, streaming, status, historySeq, abortController, reader,
                       askedIn, cut>>
        /\ loads' = loads \ {load}
        /\ loadingMessages' = (loadingMessages /\ load.request # historySeq)
    BY DEF HistoryReturns
  <1>2. LoadsAwaited'
    BY <1>1 DEF StoreRight, LoadsAwaited
  <1>3. Stoppable' /\ SessionKept'
    BY <1>1 DEF StoreRight, Stoppable, SessionKept, ReadsFrames
  <1>4. CASE items' = items
    <2>1. \A a \in Asks : ReadsFrames(a) <=> ReadsFrames(a)'
      BY <1>1 DEF ReadsFrames
    <2>2. Like(items, items') /\ OwnItems' /\ Writing'
      BY <1>1, <1>4, <2>1, ScreenKeeps DEF StoreRight, OwnItems
    <2>3. AnswerShown'
      BY <2>1, <2>2, AnswerStays DEF StoreRight
    <2> QED
      BY <1>2, <1>3, <2>2, <2>3 DEF StoreRight
  <1>5. CASE load.request = historySeq /\ load.chat = currentSessionId /\ items' = Rebuilt(load.chat)
    <2>1. ~streaming
      BY <1>5 DEF StoreRight, LoadsAwaited
    <2>2. \A a \in Asks : ~ReadsFrames(a)
      BY <2>1 DEF StoreRight, Stoppable, ReadsFrames
    <2>3. AnswerShown'
      BY <1>1, <2>2 DEF AnswerShown, ReadsFrames
    <2>4. load.chat \in Chats
      BY DEF StoreTypes
    <2>5. /\ DOMAIN items' = 1..2
          /\ items'[1] = UserItem(load.chat)
          /\ items'[2] = Item("answer", load.chat, {load.chat}, FALSE)
      BY <1>5 DEF Rebuilt
    <2>6. \A i \in DOMAIN items' : i = 1 \/ i = 2
      BY <2>5
    <2>7. OwnItems' /\ Writing'
      BY <1>1, <1>5, <2>5, <2>6 DEF OwnItems, Writing, UserItem, Item
    <2> QED
      BY <1>2, <1>3, <2>3, <2>7 DEF StoreRight
  <1> QED
    BY <1>4, <1>5 DEF HistoryReturns

(* A stream begins, behind what stays on the screen. *)
LEMMA BeginRight ==
    ASSUME StoreTypes, Begun, Unasked, StoreRight, CanAsk, NEW a \in Asks,
           NEW screen \in Seq(OnScreen), BeginStream(a, screen),
           \A i \in DOMAIN screen :
             screen[i] = UserItem(a) \/ (i \in DOMAIN items /\ screen[i] = items[i])
    PROVE  StoreRight'
  <1>1. /\ items' = Append(screen, EmptyAnswer(a)) /\ streaming' = TRUE /\ status' = "streaming"
        /\ abortController' = a
        /\ reader' = [reader EXCEPT ![a] = "reading"]
        /\ askedIn' = [askedIn EXCEPT ![a] = currentSessionId]
        /\ UNCHANGED <<currentSessionId, loadingMessages, historySeq, cut, loads, stops, switched>>
    BY DEF BeginStream
  <1>2. reader[a] = "new" /\ a \notin cut
    BY NextCall, Zenon DEF Unasked
  <1>3. ~streaming /\ ~loadingMessages
    BY DEF CanAsk
  <1>4. \A b \in Asks : ~(reader[b] \in {"reading", "told"} /\ b \notin cut)
    BY <1>3 DEF StoreRight, Stoppable
  <1>5. \A b \in Asks : reader'[b] = (IF b = a THEN "reading" ELSE reader[b])
                        /\ askedIn'[b] = (IF b = a THEN currentSessionId ELSE askedIn[b])
    BY <1>1 DEF StoreTypes
  <1>6. \A b \in Asks : reader'[b] \in {"reading", "told"} /\ b \notin cut' => b = a
    BY <1>1, <1>4, <1>5
  <1>7. EmptyAnswer(a) \in OnScreen /\ EmptyAnswer(a).type = "answer" /\ EmptyAnswer(a).of = a
          /\ EmptyAnswer(a).parts = {}
    BY ItemTypes
  <1>8. /\ DOMAIN items' = DOMAIN screen \cup {Len(screen) + 1}
        /\ items'[Len(screen) + 1] = EmptyAnswer(a)
        /\ \A i \in DOMAIN screen : items'[i] = screen[i]
        /\ LastItem("answer", items') = Len(screen) + 1
    BY <1>1, <1>7, Added
  <1>9. Stoppable'
    BY <1>1, <1>6 DEF Stoppable
  <1>10. AnswerShown'
    <2>1. Len(screen) + 1 # 0
      OBVIOUS
    <2>2. \A b \in Asks : ReadsFrames(b)' => b = a
      BY <1>6 DEF ReadsFrames
    <2> QED
      BY <1>7, <1>8, <2>1, <2>2 DEF AnswerShown
  <1>11. SessionKept'
    BY <1>1, <1>5, <1>6 DEF SessionKept, ReadsFrames
  <1>12. LoadsAwaited'
    BY <1>1, <1>3 DEF StoreRight, LoadsAwaited
  <1>13. \A i \in DOMAIN items : ~(items[i].type = "answer" /\ items[i].streaming)
    BY <1>4 DEF StoreRight, Writing, ReadsFrames
  <1>14. UserItem(a).type = "user" /\ UserItem(a).of = a /\ a \notin Chats
    BY ItemTypes, ChatStoreAssumption
  <1>15. OwnItems'
    BY <1>1, <1>7, <1>8, <1>14 DEF StoreRight, OwnItems
  <1>16. Writing'
    <2>1. \A i \in DOMAIN items' : items'[i].type = "answer" /\ items'[i].streaming =>
            i = Len(screen) + 1
      BY <1>8, <1>13, <1>14
    <2>2. ReadsFrames(a)'
      BY <1>1, <1>2, <1>5 DEF ReadsFrames
    <2> QED
      BY <1>1, <1>7, <1>8, <2>1, <2>2 DEF Writing
  <1> QED
    BY <1>9, <1>10, <1>11, <1>12, <1>15, <1>16 DEF StoreRight

(* A question is asked, or asked again. *)
LEMMA AsksRight ==
    ASSUME StoreTypes, Begun, Unasked, StoreRight, NEW a \in Asks, Ask(a) \/ RetryLast(a)
    PROVE  StoreRight'
  <1>1. CASE Ask(a)
    <2>1. UserItem(a) \in OnScreen
      BY ItemTypes
    <2>2. /\ Append(items, UserItem(a)) \in Seq(OnScreen)
          /\ \A i \in DOMAIN Append(items, UserItem(a)) :
               Append(items, UserItem(a))[i] = UserItem(a)
                 \/ (i \in DOMAIN items /\ Append(items, UserItem(a))[i] = items[i])
      BY <2>1, Added DEF StoreTypes
    <2> QED
      BY <1>1, <2>2, BeginRight, Zenon DEF Ask
  <1>2. CASE RetryLast(a)
    BY <1>2, KeptTypes, BeginRight, Zenon DEF RetryLast
  <1> QED
    BY <1>1, <1>2

(* A frame names the session in which its stream was asked: no history of    *)
(* another session is on the screen, and nobody else is read.                *)
LEMMA FrameSession ==
    ASSUME StoreTypes, StoreRight, NEW a \in Asks, Frame(a),
           \A b \in Asks : ReadsFrames(b)' => ReadsFrames(b)
    PROVE  /\ \A i \in DOMAIN items : items[i].of \in Chats => items[i].of = currentSessionId'
           /\ \A b \in Asks : ReadsFrames(b) => b = a
           /\ AnswerShown => /\ LastItem("answer", items) \in DOMAIN items
                             /\ items[LastItem("answer", items)].of = a
           /\ SessionKept'
           /\ LoadsAwaited'
  <1>1. /\ ReadsFrames(a)
        /\ currentSessionId' = IF askedIn[a] = Null THEN a ELSE askedIn[a]
        /\ UNCHANGED <<streaming, loadingMessages, historySeq, abortController, askedIn, cut,
                       loads, stops, switched>>
    BY DEF Frame
  <1>2. currentSessionId = askedIn[a] \/ (askedIn[a] = Null /\ currentSessionId = a)
    BY <1>1 DEF StoreRight, SessionKept
  <1>3. \A i \in DOMAIN items : items[i].of \in Chats => items[i].of = currentSessionId
    BY DEF StoreRight, OwnItems
  <1>4. \A i \in DOMAIN items : items[i].of \in Chats => items[i].of = currentSessionId'
    BY <1>1, <1>2, <1>3, ChatStoreAssumption
  <1>5. \A b \in Asks : ReadsFrames(b) => b = a
    BY <1>1 DEF StoreRight, Stoppable, ReadsFrames
  <1>6. /\ LastItem("answer", items) \in DOMAIN items
        /\ items[LastItem("answer", items)].of = a
    BY <1>1, LastPlace DEF StoreRight, AnswerShown
  <1>7. SessionKept'
    BY <1>1, <1>5 DEF SessionKept
  <1>8. LoadsAwaited'
    BY <1>1 DEF StoreRight, LoadsAwaited
  <1> QED
    BY <1>4, <1>5, <1>6, <1>7, <1>8

(* A frame writes to its own answer. *)
LEMMA FramesRight ==
    ASSUME StoreTypes, StoreRight, NEW a \in Asks,
           StartFrame(a) \/ ChunkFrame(a) \/ DoneFrame(a) \/ AbortedFrame(a) \/ ErrorFrame(a)
    PROVE  StoreRight'
  <1> DEFINE k == LastItem("answer", items)
  <1>1. /\ Frame(a)
        /\ reader[a] = "reading"
        /\ cut' = cut /\ streaming' = streaming /\ abortController' = abortController
        /\ reader' = reader \/ reader' = [reader EXCEPT ![a] = "told"]
    BY DEF StartFrame, ChunkFrame, DoneFrame, AbortedFrame, ErrorFrame, ShowError, LastFrame,
           Frame, ReadsFrames
  <1>2. \A b \in Asks : ReadsFrames(b)' => ReadsFrames(b)
    BY <1>1 DEF ReadsFrames, StoreTypes
  <1>3. /\ \A i \in DOMAIN items : items[i].of \in Chats => items[i].of = currentSessionId'
        /\ \A b \in Asks : ReadsFrames(b) => b = a
        /\ k \in DOMAIN items /\ items[k].of = a
        /\ SessionKept'
        /\ LoadsAwaited'
    BY <1>1, <1>2, FrameSession DEF StoreRight
  <1>4. items \in Seq(OnScreen) /\ k # 0 /\ AnswerShown /\ OwnItems /\ Writing
    <2>1. k # 0
      BY <1>3 DEF StoreTypes
    <2> QED
      BY <2>1 DEF StoreTypes, StoreRight
  <1>5. Stoppable'
    BY <1>1 DEF StoreRight, Stoppable, StoreTypes
  <1>6. SUFFICES Like(items, items') /\ OwnItems' /\ Writing'
    BY <1>2, <1>3, <1>4, <1>5, <1>6, AnswerStays DEF StoreRight
  <1>7. CASE StartFrame(a)
    <2>1. items' = items /\ status' = status /\ reader' = reader
      BY <1>7 DEF StartFrame
    <2>2. \A b \in Asks : ReadsFrames(b) => ReadsFrames(b)'
      BY <1>1, <2>1 DEF ReadsFrames
    <2> QED
      BY <1>3, <1>4, <2>1, <2>2, ScreenKeeps
  <1>8. CASE AbortedFrame(a) \/ ErrorFrame(a)
    <2>1. items' = Quiet(items)
      BY <1>8 DEF AbortedFrame, ErrorFrame, ShowError
    <2> QED
      BY <1>3, <1>4, <2>1, QuietKeeps
  <1>9. CASE DoneFrame(a)
    <2>1. items' = [items EXCEPT ![k].parts = {a}, ![k].streaming = FALSE]
      BY <1>4, <1>9 DEF DoneFrame
    <2>2. /\ Like(items, items')
          /\ items'[k].parts = {a} /\ ~items'[k].streaming
          /\ \A i \in DOMAIN items \ {k} : items'[i] = items[i]
      BY <1>4, <2>1, DoneShown, Zenon
    <2> HIDE DEF k
    <2>3. OwnItems'
      BY <1>3, <1>4, <2>2 DEF OwnItems, Like
    <2>4. \A i \in DOMAIN items' : ~(items'[i].type = "answer" /\ items'[i].streaming)
      BY <1>4, <2>2 DEF Like, Writing, k
    <2>5. Writing'
      BY <2>4 DEF Writing
    <2> QED
      BY <2>2, <2>3, <2>5
  <1>10. CASE ChunkFrame(a)
    <2>1. /\ items' = [items EXCEPT ![k].parts = @ \cup {a}]
          /\ status' = status /\ reader' = reader
      BY <1>4, <1>10 DEF ChunkFrame
    <2>2. /\ Like(items, items')
          /\ items'[k].parts = items[k].parts \cup {a}
          /\ items'[k].streaming = items[k].streaming
          /\ \A i \in DOMAIN items \ {k} : items'[i] = items[i]
      BY <1>4, <2>1, ChunkShown, Zenon
    <2>3. LastItem("answer", items') = k
      BY <1>4, <2>2, LikeLast, Zenon DEF Types
    <2> HIDE DEF k
    <2>4. OwnItems'
      BY <1>3, <1>4, <2>2 DEF OwnItems, Like
    <2>5. \A b \in Asks : ReadsFrames(b)' <=> ReadsFrames(b)
      BY <1>1, <2>1 DEF ReadsFrames
    <2>6. Writing'
      BY <1>3, <1>4, <2>1, <2>2, <2>3, <2>5 DEF Writing, Like, k
    <2> QED
      BY <2>2, <2>4, <2>6
  <1> QED
    BY <1>7, <1>8, <1>9, <1>10

(* A request that is refused, or a connection that breaks. *)
LEMMA RefusalRight ==
    ASSUME StoreTypes, StoreRight, NEW a \in Asks, ErrorWithoutSession(a)
    PROVE  StoreRight'
  <1>1. /\ reader[a] = "reading" /\ reader' = [reader EXCEPT ![a] = "told"]
        /\ items' = Quiet(items)
        /\ UNCHANGED <<currentSessionId, streaming, loadingMessages, historySeq, abortController,
                       askedIn, cut, loads, stops, switched>>
    BY DEF ErrorWithoutSession, ShowError, LastFrame
  <1>2. \A b \in Asks : ReadsFrames(b)' => ReadsFrames(b)
    BY <1>1 DEF ReadsFrames, StoreTypes
  <1>3. Like(items, items') /\ OwnItems' /\ Writing'
    BY <1>1, QuietKeeps DEF StoreRight, OwnItems
  <1>4. AnswerShown'
    BY <1>2, <1>3, AnswerStays DEF StoreRight
  <1>5. Stoppable'
    BY <1>1 DEF StoreRight, Stoppable, StoreTypes
  <1>6. SessionKept'
    BY <1>1, <1>2 DEF StoreRight, SessionKept
  <1>7. LoadsAwaited'
    BY <1>1 DEF StoreRight, LoadsAwaited
  <1> QED
    BY <1>3, <1>4, <1>5, <1>6, <1>7 DEF StoreRight

(* A call is over: it cleans up only what is its own. *)
LEMMA ClosesRight ==
    ASSUME StoreTypes, StoreRight, NEW a \in Asks, Closes(a),
           reader[a] \in {"reading", "told", "syncing"},
           UNCHANGED <<currentSessionId, loadingMessages, historySeq, loads, stops, switched>>
    PROVE  StoreRight'
  <1>1. /\ reader' = [reader EXCEPT ![a] = "over"]
        /\ askedIn' = [askedIn EXCEPT ![a] = Null]
        /\ cut' = cut \ {a}
        /\ CleanUp(a)
    BY DEF Closes
  <1>2. \A b \in Asks :
          /\ reader'[b] = IF b = a THEN "over" ELSE reader[b]
          /\ b # a => askedIn'[b] = askedIn[b] /\ (b \in cut' <=> b \in cut)
    BY <1>1 DEF StoreTypes
  <1>3. \A b \in Asks : ReadsFrames(b)' <=> b # a /\ ReadsFrames(b)
    BY <1>2 DEF ReadsFrames
  <1>4. SessionKept'
    BY <1>2, <1>3 DEF StoreRight, SessionKept
  <1>5. streaming' => streaming
    BY <1>1 DEF CleanUp
  <1>6. LoadsAwaited'
    BY <1>5 DEF StoreRight, LoadsAwaited
  <1>7. Stoppable'
    BY <1>1, <1>2 DEF StoreRight, Stoppable, CleanUp
  <1>8. CASE items' = Quiet(items)
    <2>1. Like(items, items') /\ OwnItems' /\ Writing'
      BY <1>8, QuietKeeps DEF StoreRight, OwnItems
    <2>2. AnswerShown'
      BY <1>3, <2>1, AnswerStays DEF StoreRight
    <2> QED
      BY <1>4, <1>6, <1>7, <2>1, <2>2 DEF StoreRight
  <1>9. CASE items' = items /\ status' = status /\ (abortController = a => status # "streaming")
    <2>1. \A i \in DOMAIN items : items[i].type = "answer" /\ items[i].streaming =>
            items[i].of # a
      BY <1>9 DEF StoreRight, Writing, Stoppable, ReadsFrames
    <2>2. Like(items, items') /\ OwnItems'
      BY <1>9 DEF Like, StoreTypes, StoreRight, OwnItems
    <2>3. Writing'
      BY <1>3, <1>9, <2>1 DEF StoreRight, Writing
    <2>4. AnswerShown'
      BY <1>3, <2>2, AnswerStays DEF StoreRight
    <2> QED
      BY <1>4, <1>6, <1>7, <2>2, <2>3, <2>4 DEF StoreRight
  <1> QED
    BY <1>1, <1>8, <1>9 DEF CleanUp

(* A stream ends, or has got the id of its message. *)
LEMMA EndsRight ==
    ASSUME StoreTypes, StoreRight, NEW a \in Asks, StreamEnds(a) \/ Synced(a)
    PROVE  StoreRight'
  <1>1. UNCHANGED <<currentSessionId, loadingMessages, historySeq, loads, stops, switched>>
    BY DEF StreamEnds, Synced
  <1>2. CASE Closes(a) /\ reader[a] \in {"reading", "told", "syncing"}
    BY <1>1, <1>2, ClosesRight
  <1>3. CASE StreamEnds(a) /\ Syncs
    <2>1. /\ reader' = [reader EXCEPT ![a] = "syncing"]
          /\ UNCHANGED <<items, status, streaming, abortController, askedIn, cut>>
          /\ status = "done"
      BY <1>3 DEF StreamEnds, Syncs
    <2>2. \A b \in Asks : ReadsFrames(b)' => ReadsFrames(b) /\ b # a
      BY <2>1 DEF ReadsFrames, StoreTypes
    <2>3. Like(items, items') /\ OwnItems'
      BY <1>1, <2>1 DEF Like, StoreTypes, StoreRight, OwnItems
    <2>4. Writing'
      BY <2>1 DEF StoreRight, Writing
    <2>5. AnswerShown'
      BY <2>2, <2>3, AnswerStays DEF StoreRight
    <2>6. Stoppable'
      BY <2>1 DEF StoreRight, Stoppable, StoreTypes
    <2>7. SessionKept'
      BY <1>1, <2>1, <2>2 DEF StoreRight, SessionKept
    <2>8. LoadsAwaited'
      BY <1>1, <2>1 DEF StoreRight, LoadsAwaited
    <2> QED
      BY <2>3, <2>4, <2>5, <2>6, <2>7, <2>8 DEF StoreRight
  <1> QED
    BY <1>2, <1>3, Zenon DEF StreamEnds, Synced

(* The stop button: what is there is cut, and quiet. *)
LEMMA StopsRight ==
    ASSUME StoreTypes, StoreRight, PressStop \/ StopReturns
    PROVE  StoreRight'
  <1>1. UNCHANGED <<currentSessionId, loadingMessages, historySeq, abortController, reader,
                    askedIn, loads, switched>>
    BY DEF PressStop, StopReturns, StopNow
  <1>2. CASE StopNow
    <2>1. /\ cut' = cut \cup ({abortController} \ {Null})
          /\ items' = Quiet(items) /\ streaming' = FALSE
      BY <1>2 DEF StopNow
    <2>2. \A b \in Asks : ~(reader'[b] \in {"reading", "told"} /\ b \notin cut')
      BY <1>1, <2>1, ChatStoreAssumption DEF StoreRight, Stoppable
    <2>3. Stoppable' /\ AnswerShown' /\ SessionKept'
      BY <2>2 DEF Stoppable, AnswerShown, SessionKept, ReadsFrames
    <2>4. Like(items, items') /\ OwnItems' /\ Writing'
      BY <1>1, <2>1, QuietKeeps DEF StoreRight, OwnItems
    <2>5. LoadsAwaited'
      BY <1>1, <2>1 DEF StoreRight, LoadsAwaited
    <2> QED
      BY <2>3, <2>4, <2>5 DEF StoreRight
  <1>3. CASE UNCHANGED <<currentSessionId, items, streaming, status, loadingMessages,
                         historySeq, abortController, reader, askedIn, cut, loads, switched>>
    BY <1>3 DEF StoreRight, Stoppable, AnswerShown, OwnItems, Writing, SessionKept,
                LoadsAwaited, ReadsFrames
  <1> QED
    BY <1>2, <1>3 DEF PressStop, StopReturns

(* The account is left: nothing is on the screen, nothing is awaited. *)
LEMMA LeavingRight ==
    ASSUME StoreTypes, StoreRight, ClearAccount, switched' # "loading"
    PROVE  StoreRight'
  <1>1. /\ cut' = cut \cup ({abortController} \ {Null}) /\ reader' = reader
        /\ items' = <<>> /\ streaming' = FALSE
        /\ loads = {} /\ loads' = {[load EXCEPT !.canceled = TRUE] : load \in loads}
    BY DEF ClearAccount
  <1>2. \A b \in Asks : ~(reader'[b] \in {"reading", "told"} /\ b \notin cut')
    BY <1>1, ChatStoreAssumption DEF StoreRight, Stoppable
  <1>3. Stoppable' /\ AnswerShown' /\ SessionKept'
    BY <1>2 DEF Stoppable, AnswerShown, SessionKept, ReadsFrames
  <1>4. OwnItems' /\ Writing'
    BY <1>1 DEF OwnItems, Writing
  <1>5. LoadsAwaited'
    BY <1>1 DEF LoadsAwaited
  <1> QED
    BY <1>3, <1>4, <1>5 DEF StoreRight

-----------------------------------------------------------------------------
(* The theorems *)

(* The invariant holds at the beginning. *)
LEMMA StoreInvInit == StoreInit => StoreInv
  <1> SUFFICES ASSUME StoreInit PROVE StoreInv
    OBVIOUS
  <1>1. StoreTypes
    <2>1. <<>> \in Seq(OnScreen)
      OBVIOUS
    <2>2. 0 \in 0..MaxViews /\ 0 \in 0..MaxStops
      BY ChatStoreAssumption
    <2>3. /\ reader \in [Asks -> {"new", "reading", "told", "syncing", "over"}]
          /\ askedIn \in [Asks -> Asks \cup Chats \cup {Null}]
      BY DEF StoreInit
    <2> QED
      BY <2>1, <2>2, <2>3 DEF StoreInit, StoreTypes
  <1>2. Begun
    <2>1. 0 \in 0..MaxAsks
      BY ChatStoreAssumption
    <2>2. \A a \in Asks : reader[a] # "new" <=> a <= 0
      BY ChatStoreAssumption DEF StoreInit, Asks
    <2> QED
      BY <2>1, <2>2 DEF Begun
  <1>3. Unasked
    BY ChatStoreAssumption DEF StoreInit, Unasked
  <1>4. StoreRight
    BY DEF StoreInit, StoreRight, Stoppable, AnswerShown, OwnItems, Writing, SessionKept,
           LoadsAwaited, ReadsFrames
  <1> QED
    BY <1>1, <1>2, <1>3, <1>4 DEF StoreInv

(* And after every step. *)
LEMMA StoreInvNext ==
    ASSUME StoreInv, [StoreNext]_storeVars
    PROVE  StoreInv'
  <1>1. CASE UNCHANGED storeVars
    BY <1>1 DEF storeVars, StoreInv, StoreTypes, Begun, Unasked, StoreRight, Stoppable,
                AnswerShown, OwnItems, Writing, SessionKept, LoadsAwaited, ReadsFrames
  <1>2. CASE StoreNext
    <2>1. StoreTypes' /\ Begun' /\ Unasked'
      BY <1>2, StoreTypesNext, OrderNext DEF StoreInv
    <2>2. ASSUME switched' # "loading" PROVE StoreRight'
      <3>1. switched # "loading"
        BY <1>2, <2>2 DEF StoreNext, NewSession, SelectSession, View, HistoryReturns, Ask,
              RetryLast, BeginStream, StartFrame, ChunkFrame, DoneFrame, AbortedFrame, ErrorFrame,
              Frame, ErrorWithoutSession, StreamEnds, Synced, PressStop, StopReturns, StopNow,
              ClearAccount
      <3>2. StoreTypes /\ Begun /\ Unasked /\ StoreRight
        BY <3>1 DEF StoreInv
      <3> QED
        BY <1>2, <2>2, <3>2, ViewsRight, HistoryRight, AsksRight, FramesRight, RefusalRight,
           EndsRight, StopsRight, LeavingRight, Zenon DEF StoreNext
    <2> QED
      BY <2>1, <2>2 DEF StoreInv
  <1> QED
    BY <1>1, <1>2

(* The invariant says what the properties say of the items as a set. *)
LEMMA StoreInvHolds == StoreInv => StoreTypeOK /\ StoreTrue
  <1> SUFFICES ASSUME StoreInv PROVE StoreTypeOK /\ StoreTrue
    OBVIOUS
  <1>1. \A item \in ToSet(items) : \E i \in DOMAIN items : item = items[i]
    BY DEF ToSet
  <1>2. StoreTypeOK
    <2>1. ToSet(items) \subseteq OnScreen
      BY <1>1 DEF StoreInv, StoreTypes
    <2> QED
      BY <2>1 DEF StoreInv, StoreTypes, StoreTypeOK, OnScreen, Types
  <1>3. ASSUME switched # "loading" PROVE OwnTexts /\ OwnHistory /\ NoneHangs
    BY <1>1, <1>3 DEF StoreInv, StoreRight, OwnItems, Writing, ReadsFrames, OwnTexts,
                      OwnHistory, NoneHangs
  <1> QED
    BY <1>2, <1>3 DEF StoreInv, StoreRight, StoreTrue

(* The variables have their types, for every number of questions, histories  *)
(* and requests to stop.                                                     *)
THEOREM StoreTypeCorrect == StoreSpec => []StoreTypeOK
  <1>1. StoreInit => StoreInv
    BY StoreInvInit
  <1>2. StoreInv /\ [StoreNext]_storeVars => StoreInv'
    BY StoreInvNext
  <1>3. StoreInv => StoreTypeOK
    BY StoreInvHolds
  <1> QED
    BY <1>1, <1>2, <1>3, PTL DEF StoreSpec

(* A stream that is being read is the one the stop button cuts and has the   *)
(* last answer on the screen; no answer has text of another turn, no history *)
(* is shown in another session, and nothing is shown as being written that   *)
(* nobody writes: as long as no account was left while a history was loading.*)
THEOREM StoreTrueCorrect == StoreSpec => []StoreTrue
  <1>1. StoreInit => StoreInv
    BY StoreInvInit
  <1>2. StoreInv /\ [StoreNext]_storeVars => StoreInv'
    BY StoreInvNext
  <1>3. StoreInv => StoreTrue
    BY StoreInvHolds
  <1> QED
    BY <1>1, <1>2, <1>3, PTL DEF StoreSpec

-----------------------------------------------------------------------------
(* The stream of an answer *)

(* The start marker stands at a place of a text. *)
MarkerAt(string, i) ==
    /\ i \in 1..Len(string) /\ i + 2 \in 1..Len(string)
    /\ string[i] = "<" /\ string[i + 1] = "<" /\ string[i + 2] = "C"

(* The least of a set of numbers. *)
LEMMA LeastKnown ==
    ASSUME NEW S \in SUBSET Nat, S # {}
    PROVE  Min(S) \in S /\ \A i \in S : Min(S) <= i
  <1>1. PICK m \in S : \A y \in S : ~(<<y, m>> \in OpToRel(<, Nat))
    BY NatLessThanWellFounded, WFMin, Zenon
  <1>2. \A y \in S : ~(y < m)
    BY <1>1 DEF OpToRel
  <1>3. \A y \in S : m <= y
    BY <1>2
  <1> QED
    BY <1>3 DEF Min

(* What Find compares. *)
LEMMA MarkerCompared ==
    ASSUME NEW string \in Seq(STRING), NEW i \in 1..Len(string), i + 2 <= Len(string)
    PROVE  SubSeq(string, i, i + 2) = StartMarker <=> MarkerAt(string, i)
  <1> DEFINE part == SubSeq(string, i, i + 2)
  <1>1. /\ part \in Seq(STRING) /\ Len(part) = 3
        /\ part[1] = string[i] /\ part[2] = string[i + 1] /\ part[3] = string[i + 2]
    OBVIOUS
  <1> HIDE DEF part
  <1>2. part = <<part[1], part[2], part[3]>>
    BY <1>1
  <1>3. part = StartMarker <=> part[1] = "<" /\ part[2] = "<" /\ part[3] = "C"
    BY <1>2 DEF StartMarker
  <1>4. i \in 1..Len(string) /\ i + 2 \in 1..Len(string)
    OBVIOUS
  <1> QED
    BY <1>1, <1>3, <1>4 DEF MarkerAt, part

(* Find gives the first place of the marker, 0 when it stands nowhere. *)
LEMMA FindFirst ==
    ASSUME NEW string \in Seq(STRING)
    PROVE  /\ Find(StartMarker, string, 1) \in Nat
           /\ Find(StartMarker, string, 1) = 0 => \A i \in Nat : ~MarkerAt(string, i)
           /\ Find(StartMarker, string, 1) # 0 =>
                /\ MarkerAt(string, Find(StartMarker, string, 1))
                /\ \A i \in Nat : MarkerAt(string, i) => Find(StartMarker, string, 1) <= i
  <1> DEFINE places == {i \in Nat : MarkerAt(string, i)}
  <1>1. Len(StartMarker) = 3 /\ Len(string) \in Nat
    BY DEF StartMarker
  <1>2. {i \in 1..(Len(string) - Len(StartMarker) + 1) :
           SubSeq(string, i, i + Len(StartMarker) - 1) = StartMarker} = places
    <2>1. \A i \in 1..(Len(string) - 3 + 1) : i \in 1..Len(string) /\ i + 2 <= Len(string)
      BY <1>1
    <2>2. \A i \in 1..(Len(string) - 3 + 1) :
            SubSeq(string, i, i + 2) = StartMarker <=> MarkerAt(string, i)
      BY <2>1, MarkerCompared
    <2>3. \A i \in Nat : MarkerAt(string, i) => i \in 1..(Len(string) - 3 + 1)
      BY <1>1 DEF MarkerAt
    <2>4. \A i \in 1..(Len(string) - 3 + 1) : i \in Nat /\ i + 3 - 1 = i + 2
      BY <1>1
    <2> QED
      BY <1>1, <2>2, <2>3, <2>4
  <1>3. Find(StartMarker, string, 1) = IF places = {} THEN 0 ELSE Min(places)
    BY <1>2, Zenon DEF Find
  <1>4. places # {} => Min(places) \in places /\ \A i \in places : Min(places) <= i
    BY LeastKnown, Zenon
  <1>5. \A i \in places : i \in Nat /\ i # 0 /\ MarkerAt(string, i)
    BY DEF MarkerAt
  <1>6. \A i \in Nat : MarkerAt(string, i) => i \in places
    OBVIOUS
  <1> HIDE DEF places
  <1> QED
    BY <1>3, <1>4, <1>5, <1>6

(* A first place is what Find gives. *)
LEMMA FindIs ==
    ASSUME NEW string \in Seq(STRING), NEW m \in Nat, MarkerAt(string, m),
           \A i \in Nat : MarkerAt(string, i) => m <= i
    PROVE  Find(StartMarker, string, 1) = m /\ m # 0
  <1>1. /\ Find(StartMarker, string, 1) \in Nat
        /\ Find(StartMarker, string, 1) # 0
        /\ Find(StartMarker, string, 1) <= m
        /\ MarkerAt(string, Find(StartMarker, string, 1))
    BY FindFirst
  <1>2. m <= Find(StartMarker, string, 1)
    BY <1>1
  <1> QED
    BY <1>1, <1>2

(* A text without a marker. *)
LEMMA FindNone ==
    ASSUME NEW string \in Seq(STRING), \A i \in Nat : ~MarkerAt(string, i)
    PROVE  Find(StartMarker, string, 1) = 0
  BY FindFirst

(* What the splitter has been fed, and where it stands: nothing of a marker   *)
(* is sent, because what may be the beginning of one is held back.            *)
Heard == SubSeq(text, 1, heard)

Both(first, second) == first \o second
Beginning(whole, n) == SubSeq(whole, 1, n)
Remainder(whole, n) == SubSeq(whole, n + 1, Len(whole))

SplitOpen ==
    /\ Both(shown, pending) = Heard
    /\ \A i \in Nat : ~MarkerAt(Heard, i)

SplitHidden ==
    /\ pending = <<>>
    /\ Find(StartMarker, Heard, 1) # 0
    /\ shown = Beginning(Heard, Find(StartMarker, Heard, 1) - 1)

SplitInv ==
    /\ step \in {"asked", "found", "writing", "answered", "failed"}
    /\ text \in Seq(STRING) /\ heard \in 0..Len(text)
    /\ pending \in Seq(STRING) /\ shown \in Seq(STRING) /\ hidden \in BOOLEAN
    /\ IF hidden THEN SplitHidden ELSE SplitOpen
    /\ step \in {"asked", "found"} => heard = 0 /\ pending = <<>> /\ shown = <<>> /\ ~hidden
    /\ step = "writing" /\ ~hidden => Len(pending) = 2 \/ (shown = <<>> /\ Len(pending) <= 2)
    /\ step = "answered" => evidence = <<>> \/ pending = <<>>

(* What has been heard grows by the delta. *)
LEMMA HeardGrows ==
    ASSUME NEW string \in Seq(STRING), NEW n \in 0..Len(string), NEW next \in (n + 1)..Len(string)
    PROVE  /\ SubSeq(string, 1, n) \in Seq(STRING) /\ Len(SubSeq(string, 1, n)) = n
           /\ SubSeq(string, n + 1, next) \in Seq(STRING)
           /\ Len(SubSeq(string, n + 1, next)) = next - n
           /\ SubSeq(string, 1, next) = SubSeq(string, 1, n) \o SubSeq(string, n + 1, next)
  OBVIOUS

(* The texts of a concatenation. *)
LEMMA TextsJoined ==
    ASSUME NEW s \in Seq(STRING), NEW t \in Seq(STRING)
    PROVE  /\ s \o t \in Seq(STRING) /\ Len(s \o t) = Len(s) + Len(t)
           /\ \A i \in 1..Len(s) : (s \o t)[i] = s[i]
           /\ \A i \in 1..Len(t) : (s \o t)[Len(s) + i] = t[i]
  OBVIOUS

(* A marker within the first part is a marker of the whole, and within the   *)
(* second part one of the whole further on.                                  *)
LEMMA MarkerJoined ==
    ASSUME NEW s \in Seq(STRING), NEW t \in Seq(STRING), NEW i \in Nat
    PROVE  /\ MarkerAt(s, i) => MarkerAt(s \o t, i)
           /\ i + 2 <= Len(s) => (MarkerAt(s \o t, i) <=> MarkerAt(s, i))
           /\ i # 0 => (MarkerAt(s \o t, Len(s) + i) <=> MarkerAt(t, i))
  <1>1. /\ s \o t \in Seq(STRING) /\ Len(s \o t) = Len(s) + Len(t)
        /\ \A j \in 1..Len(s) : (s \o t)[j] = s[j]
        /\ \A j \in 1..Len(t) : (s \o t)[Len(s) + j] = t[j]
    BY TextsJoined
  <1>2. Len(s) \in Nat /\ Len(t) \in Nat
    OBVIOUS
  <1> DEFINE whole == s \o t
  <1> HIDE DEF whole
  <1>3. /\ Len(whole) = Len(s) + Len(t)
        /\ \A j \in 1..Len(s) : whole[j] = s[j]
        /\ \A j \in 1..Len(t) : whole[Len(s) + j] = t[j]
    BY <1>1 DEF whole
  <1>4. i + 2 <= Len(s) => (MarkerAt(whole, i) <=> MarkerAt(s, i))
    <2> SUFFICES ASSUME i + 2 <= Len(s) PROVE MarkerAt(whole, i) <=> MarkerAt(s, i)
      OBVIOUS
    <2>1. CASE i = 0
      BY <2>1 DEF MarkerAt
    <2>2. CASE i # 0
      <3>1. i \in 1..Len(s) /\ i + 1 \in 1..Len(s) /\ i + 2 \in 1..Len(s)
        BY <1>2, <2>2
      <3>2. i \in 1..Len(whole) /\ i + 2 \in 1..Len(whole)
        BY <1>2, <1>3, <3>1
      <3> QED
        BY <1>3, <3>1, <3>2 DEF MarkerAt
    <2> QED
      BY <2>1, <2>2
  <1>5. MarkerAt(s, i) => MarkerAt(whole, i)
    BY <1>2, <1>4 DEF MarkerAt
  <1>6. i # 0 => (MarkerAt(whole, Len(s) + i) <=> MarkerAt(t, i))
    <2> SUFFICES ASSUME i # 0 PROVE MarkerAt(whole, Len(s) + i) <=> MarkerAt(t, i)
      OBVIOUS
    <2>1. CASE i + 2 > Len(t)
      BY <1>2, <1>3, <2>1 DEF MarkerAt
    <2>2. CASE i + 2 <= Len(t)
      <3>1. i \in 1..Len(t) /\ i + 1 \in 1..Len(t) /\ i + 2 \in 1..Len(t)
        BY <1>2, <2>2
      <3>2. /\ whole[Len(s) + i] = t[i] /\ whole[Len(s) + i + 1] = t[i + 1]
            /\ whole[Len(s) + i + 2] = t[i + 2]
        <4>1. /\ whole[Len(s) + (i + 1)] = t[i + 1] /\ whole[Len(s) + (i + 2)] = t[i + 2]
              /\ whole[Len(s) + i] = t[i]
          BY <1>3, <3>1
        <4>2. Len(s) + (i + 1) = Len(s) + i + 1 /\ Len(s) + (i + 2) = Len(s) + i + 2
          BY <1>2
        <4> QED
          BY <4>1, <4>2
      <3>3. Len(s) + i \in 1..Len(whole) /\ Len(s) + i + 2 \in 1..Len(whole)
        BY <1>2, <1>3, <3>1
      <3> QED
        BY <3>1, <3>2, <3>3 DEF MarkerAt
    <2> QED
      BY <1>2, <2>1, <2>2
  <1> QED
    BY <1>4, <1>5, <1>6 DEF whole

(* A delta behind the beginning of the block changes nothing of it. *)
LEMMA HiddenFed ==
    ASSUME NEW raw \in Seq(STRING), NEW delta \in Seq(STRING),
           Find(StartMarker, raw, 1) # 0
    PROVE  LET m == Find(StartMarker, raw, 1)
           IN /\ Find(StartMarker, raw \o delta, 1) = m
              /\ SubSeq(raw \o delta, 1, m - 1) = SubSeq(raw, 1, m - 1)
  <1> DEFINE m == Find(StartMarker, raw, 1)
             whole == raw \o delta
  <1>1. m \in Nat /\ MarkerAt(raw, m) /\ \A i \in Nat : MarkerAt(raw, i) => m <= i
    BY FindFirst
  <1>2. m \in 1..Len(raw) /\ m + 2 <= Len(raw)
    BY <1>1 DEF MarkerAt
  <1>3. /\ whole \in Seq(STRING) /\ Len(whole) = Len(raw) + Len(delta)
        /\ \A i \in 1..Len(raw) : whole[i] = raw[i]
    BY TextsJoined
  <1>4. MarkerAt(whole, m)
    BY <1>1, MarkerJoined
  <1>5. \A i \in Nat : i + 2 <= Len(raw) => (MarkerAt(whole, i) <=> MarkerAt(raw, i))
    BY MarkerJoined
  <1> HIDE DEF m, whole
  <1>6. \A i \in Nat : MarkerAt(whole, i) => m <= i
    BY <1>1, <1>2, <1>5
  <1>7. Find(StartMarker, whole, 1) = m
    BY <1>1, <1>3, <1>4, <1>6, FindIs
  <1>8. SubSeq(whole, 1, m - 1) = SubSeq(raw, 1, m - 1)
    BY <1>2, <1>3
  <1> QED
    BY <1>7, <1>8 DEF m, whole

(* Before it: a marker of all that was heard stands in what was held back    *)
(* and the delta.                                                            *)
LEMMA OpenFed ==
    ASSUME NEW sent \in Seq(STRING), NEW kept \in Seq(STRING), NEW delta \in Seq(STRING),
           \A i \in Nat : ~MarkerAt(sent \o kept, i),
           Len(kept) = 2 \/ sent = <<>>
    PROVE  /\ (sent \o kept) \o delta = sent \o (kept \o delta)
           /\ \A j \in Nat : MarkerAt(sent \o (kept \o delta), j) =>
                \E i \in Nat : i # 0 /\ j = Len(sent) + i /\ MarkerAt(kept \o delta, i)
  <1> DEFINE held == kept \o delta
             whole == sent \o held
  <1>1. (sent \o kept) \o delta = whole
    OBVIOUS
  <1>2. held \in Seq(STRING) /\ Len(sent) \in Nat /\ Len(kept) \in Nat
    OBVIOUS
  <1>3. Len(sent \o kept) = Len(sent) + Len(kept)
    OBVIOUS
  <1>4. sent \o kept \in Seq(STRING)
    OBVIOUS
  <1>5. \A j \in Nat : j + 2 <= Len(sent) + Len(kept) => ~MarkerAt(whole, j)
    <2>1. \A j \in Nat : j + 2 <= Len(sent \o kept) =>
            (MarkerAt((sent \o kept) \o delta, j) <=> MarkerAt(sent \o kept, j))
      BY <1>4, MarkerJoined
    <2> HIDE DEF whole, held
    <2> QED
      BY <1>1, <1>3, <2>1
  <1>6. \A i \in Nat : i # 0 => (MarkerAt(whole, Len(sent) + i) <=> MarkerAt(held, i))
    BY <1>2, MarkerJoined
  <1> HIDE DEF whole, held
  <1>7. ASSUME NEW j \in Nat, MarkerAt(whole, j)
        PROVE  \E i \in Nat : i # 0 /\ j = Len(sent) + i /\ MarkerAt(held, i)
    <2>1. j # 0
      BY <1>7 DEF MarkerAt
    <2>2. j > Len(sent)
      <3>1. CASE sent = <<>>
        BY <2>1, <3>1
      <3>2. CASE Len(kept) = 2
        BY <1>2, <1>5, <1>7, <3>2
      <3> QED
        BY <3>1, <3>2
    <2>3. j - Len(sent) \in Nat /\ j - Len(sent) # 0 /\ j = Len(sent) + (j - Len(sent))
      BY <1>2, <2>2
    <2>4. MarkerAt(held, j - Len(sent))
      BY <1>6, <1>7, <2>3
    <2> QED
      BY <2>3, <2>4
  <1> QED
    BY <1>1, <1>7 DEF whole, held

(* How texts are joined does not matter. *)
LEMMA Associates ==
    ASSUME NEW s \in Seq(STRING), NEW t \in Seq(STRING), NEW u \in Seq(STRING)
    PROVE  (s \o t) \o u = s \o (t \o u)
  OBVIOUS

(* The beginning of a text, put behind another text, and the rest behind that. *)
LEMMA Parted ==
    ASSUME NEW s \in Seq(STRING), NEW t \in Seq(STRING), NEW n \in 0..Len(t)
    PROVE  /\ Both(s, Beginning(t, n)) \in Seq(STRING)
           /\ Remainder(t, n) \in Seq(STRING)
           /\ Len(Remainder(t, n)) = Len(t) - n
           /\ Both(s, Beginning(t, n)) = Beginning(Both(s, t), Len(s) + n)
           /\ Both(Both(s, Beginning(t, n)), Remainder(t, n)) = Both(s, t)
           /\ n = 0 => Both(s, Beginning(t, n)) = s
  <1> DEFINE p == SubSeq(t, 1, n)
             q == SubSeq(t, n + 1, Len(t))
  <1>1. p \in Seq(STRING) /\ q \in Seq(STRING) /\ Len(q) = Len(t) - n
    OBVIOUS
  <1>2. s \o p \in Seq(STRING)
    BY <1>1, TextsJoined
  <1>3. s \o p = SubSeq(s \o t, 1, Len(s) + n)
    OBVIOUS
  <1>4. p \o q = t
    <2>1. /\ 1 \in 1..Len(t) + 1 /\ n \in 1 - 1..Len(t) /\ Len(t) \in n..Len(t)
      OBVIOUS
    <2>2. SubSeq(t, 1, n) \o SubSeq(t, n + 1, Len(t)) = SubSeq(t, 1, Len(t))
      BY <2>1, ConcatAdjacentSubSeq, Zenon
    <2> QED
      BY <2>2, SubSeqFull, Zenon
  <1>5. (s \o p) \o q = s \o t
    <2> HIDE DEF p, q
    <2>1. (s \o p) \o q = s \o (p \o q)
      BY <1>1, Associates
    <2> QED
      BY <1>4, <2>1
  <1>6. n = 0 => s \o p = s
    <2>1. SubSeq(t, 1, 0) = <<>> /\ s \o <<>> = s
      OBVIOUS
    <2> QED
      BY <2>1, Zenon
  <1> QED
    BY <1>1, <1>2, <1>3, <1>5, <1>6, Zenon DEF Both, Beginning, Remainder

(* A delta is read: what cannot be the beginning of a marker is sent.        *)
LEMMA FeedSplits ==
    ASSUME SplitInv, step = "writing", ~hidden,
           NEW delta \in Seq(STRING), Len(delta) > 0, Heard \in Seq(STRING),
           Heard' = Heard \o delta, Feed(delta)
    PROVE  /\ pending' \in Seq(STRING) /\ shown' \in Seq(STRING) /\ hidden' \in BOOLEAN
           /\ IF hidden' THEN SplitHidden' ELSE SplitOpen'
           /\ ~hidden' => Len(pending') = 2 \/ (shown' = <<>> /\ Len(pending') <= 2)
  <1> DEFINE held == pending \o delta
             marker == Find(StartMarker, held, 1)
             free == IF Len(held) > 2 THEN Len(held) - 2 ELSE 0
  <1>1. /\ pending \in Seq(STRING) /\ shown \in Seq(STRING)
        /\ shown \o pending = Heard
        /\ \A i \in Nat : ~MarkerAt(Heard, i)
        /\ Len(pending) = 2 \/ (shown = <<>> /\ Len(pending) <= 2)
    BY DEF SplitInv, SplitOpen, Both
  <1>2. held \in Seq(STRING) /\ Len(held) = Len(pending) + Len(delta) /\ Len(shown) \in Nat
          /\ Len(pending) \in Nat /\ Len(delta) \in Nat
    BY <1>1, TextsJoined
  <1>3. /\ Heard' = shown \o held
        /\ \A j \in Nat : MarkerAt(shown \o held, j) =>
             \E i \in Nat : i # 0 /\ j = Len(shown) + i /\ MarkerAt(held, i)
    <2>1. \A i \in Nat : ~MarkerAt(shown \o pending, i)
      BY <1>1
    <2>2. Len(pending) = 2 \/ shown = <<>>
      BY <1>1
    <2>3. /\ (shown \o pending) \o delta = shown \o held
          /\ \A j \in Nat : MarkerAt(shown \o held, j) =>
               \E i \in Nat : i # 0 /\ j = Len(shown) + i /\ MarkerAt(held, i)
      BY <1>1, <2>1, <2>2, OpenFed, Zenon
    <2> QED
      BY <1>1, <2>3
  <1>4. Holdback = 2
    BY DEF Holdback, StartMarker
  <1>5. IF marker # 0
        THEN /\ shown' = Both(shown, Beginning(held, marker - 1))
             /\ pending' = <<>> /\ hidden' = TRUE
        ELSE /\ shown' = Both(shown, Beginning(held, free))
             /\ pending' = Remainder(held, free)
             /\ hidden' = hidden
    BY <1>4, Zenon DEF Feed, Both, Beginning, Remainder
  <1>6. Heard' \in Seq(STRING) /\ Len(Heard') = Len(shown) + Len(held)
    BY <1>1, <1>2, <1>3, TextsJoined
  <1>7. Both(shown, held) = Heard'
    BY <1>3, Zenon DEF Both
  <1> HIDE DEF held
  <1>8. CASE marker # 0
    <2>1. /\ marker \in Nat /\ MarkerAt(held, marker)
          /\ \A i \in Nat : MarkerAt(held, i) => marker <= i
      BY <1>2, <1>8, FindFirst
    <2>2. MarkerAt(Heard', Len(shown) + marker)
      BY <1>1, <1>2, <1>3, <1>8, <2>1, MarkerJoined
    <2>3. \A j \in Nat : MarkerAt(Heard', j) => Len(shown) + marker <= j
      BY <1>2, <1>3, <2>1
    <2>4. Find(StartMarker, Heard', 1) = Len(shown) + marker /\ Len(shown) + marker # 0
      <3>1. Len(shown) + marker \in Nat
        BY <1>2, <2>1
      <3> QED
        BY <1>6, <2>2, <2>3, <3>1, FindIs
    <2>5. marker \in 1..Len(held)
      BY <2>1 DEF MarkerAt
    <2> HIDE DEF marker
    <2>6. marker - 1 \in 0..Len(held) /\ Len(shown) + (marker - 1) = Len(shown) + marker - 1
      BY <1>2, <2>5
    <2>7. /\ shown' = Beginning(Heard', Find(StartMarker, Heard', 1) - 1)
          /\ shown' \in Seq(STRING)
      <3>1. shown \in Seq(STRING) /\ held \in Seq(STRING) /\ marker - 1 \in 0..Len(held)
        BY <1>1, <1>2, <2>6
      <3>2. shown' = Both(shown, Beginning(held, marker - 1))
        BY <1>5, <1>8
      <3>3. /\ shown' \in Seq(STRING)
            /\ shown' = Beginning(Heard', Len(shown) + (marker - 1))
        <4>1. /\ Both(shown, Beginning(held, marker - 1)) \in Seq(STRING)
              /\ Both(shown, Beginning(held, marker - 1))
                   = Beginning(Both(shown, held), Len(shown) + (marker - 1))
          BY <3>1, Parted, Zenon
        <4> QED
          BY <1>7, <3>2, <4>1
      <3>4. Find(StartMarker, Heard', 1) - 1 = Len(shown) + (marker - 1)
        BY <1>2, <2>4, <2>5
      <3> QED
        BY <3>3, <3>4, Zenon
    <2>8. pending' = <<>> /\ hidden' = TRUE
      BY <1>5, <1>8
    <2>9. SplitHidden'
      BY <2>4, <2>7, <2>8, Zenon DEF SplitHidden
    <2>10. pending' \in Seq(STRING)
      BY <2>8
    <2> QED
      BY <2>7, <2>8, <2>9, <2>10
  <1>9. CASE marker = 0
    <2>1. \A i \in Nat : ~MarkerAt(held, i)
      BY <1>2, <1>9, FindFirst
    <2>2. \A j \in Nat : ~MarkerAt(Heard', j)
      BY <1>3, <2>1
    <2> HIDE DEF marker
    <2>3. /\ free \in 0..Len(held)
          /\ free = 0 => Len(held) <= 2
          /\ free # 0 => Len(held) - free = 2
      BY <1>2
    <2> HIDE DEF free
    <2>4. shown' = Both(shown, Beginning(held, free))
      BY <1>5, <1>9 DEF marker
    <2>5. pending' = Remainder(held, free) /\ hidden' = FALSE
      BY <1>5, <1>9 DEF marker
    <2>6. /\ pending' \in Seq(STRING) /\ Len(pending') = Len(held) - free
          /\ shown' \in Seq(STRING) /\ Both(shown', pending') = Heard'
          /\ free = 0 => shown' = shown
      <3>1. shown \in Seq(STRING) /\ held \in Seq(STRING) /\ free \in 0..Len(held)
        BY <1>1, <1>2, <2>3
      <3>2. shown' \in Seq(STRING) /\ (free = 0 => shown' = shown)
        BY <2>4, <3>1, Parted, Zenon
      <3>3. /\ pending' \in Seq(STRING) /\ Len(pending') = Len(held) - free
            /\ Both(shown', pending') = Heard'
        <4> DEFINE rest == Remainder(held, free)
        <4>1. /\ rest \in Seq(STRING) /\ Len(rest) = Len(held) - free
              /\ Both(Both(shown, Beginning(held, free)), rest) = Both(shown, held)
          BY <3>1, Parted, Zenon
        <4>2. pending' = rest
          BY <2>5
        <4> HIDE DEF rest
        <4> QED
          BY <1>7, <2>4, <4>1, <4>2, Zenon
      <3> QED
        BY <3>2, <3>3
    <2>7. SplitOpen'
      BY <2>2, <2>6 DEF SplitOpen
    <2>8. Len(pending') = 2 \/ (shown' = <<>> /\ Len(pending') <= 2)
      <3>1. CASE free # 0
        BY <2>3, <2>6, <3>1
      <3>2. CASE free = 0
        <4>1. Len(pending') = Len(held) /\ Len(held) <= 2
          BY <1>2, <2>3, <2>6, <3>2
        <4>2. shown' = shown
          BY <2>6, <3>2
        <4> QED
          BY <1>1, <1>2, <4>1, <4>2
      <3> QED
        BY <3>1, <3>2
    <2> QED
      BY <2>5, <2>6, <2>7, <2>8
  <1> QED
    BY <1>8, <1>9

(* The splitter's invariant at the beginning. *)
LEMMA SplitInit == AnsweringInit => SplitInv
  <1> SUFFICES ASSUME AnsweringInit PROVE SplitInv
    OBVIOUS
  <1>1. /\ step = "asked" /\ evidence = <<>> /\ text = <<>> /\ heard = 0 /\ pending = <<>>
        /\ hidden = FALSE /\ shown = <<>>
    BY DEF AnsweringInit
  <1>2. <<>> \in Seq(STRING) /\ 0 \in 0..Len(<<>>)
    OBVIOUS
  <1>3. Heard = <<>>
    BY <1>1 DEF Heard
  <1>4. \A i \in Nat : ~MarkerAt(<<>>, i)
    BY DEF MarkerAt
  <1>5. Both(<<>>, <<>>) = <<>>
    BY DEF Both
  <1>6. SplitOpen
    BY <1>1, <1>3, <1>4, <1>5 DEF SplitOpen
  <1> QED
    BY <1>1, <1>2, <1>6 DEF SplitInv

(* A delta of the model. *)
LEMMA DeltaSplits ==
    ASSUME SplitInv, Delta
    PROVE  SplitInv'
  <1>1. PICK next \in (heard + 1)..Len(text) :
          heard' = next /\ Feed(SubSeq(text, heard + 1, next))
    BY DEF Delta
  <1>2. step = "writing" /\ step' = step /\ text' = text /\ evidence' = evidence
    BY DEF Delta
  <1> DEFINE delta == SubSeq(text, heard + 1, next)
  <1>3. text \in Seq(STRING) /\ heard \in 0..Len(text)
    BY DEF SplitInv
  <1>4. /\ Heard \in Seq(STRING) /\ delta \in Seq(STRING) /\ Len(delta) = next - heard
        /\ Heard' = Heard \o delta
    BY <1>1, <1>2, <1>3, HeardGrows, Zenon DEF Heard
  <1>5. Len(delta) > 0 /\ heard' \in 0..Len(text)
    BY <1>1, <1>3, <1>4
  <1>6. Feed(delta)
    BY <1>1
  <1> HIDE DEF delta
  <1>7. CASE hidden
    <2>1. UNCHANGED <<pending, hidden, shown>>
      BY <1>6, <1>7 DEF Feed
    <2>2. SplitHidden
      BY <1>7 DEF SplitInv
    <2>3. /\ Find(StartMarker, Heard', 1) = Find(StartMarker, Heard, 1)
          /\ SubSeq(Heard', 1, Find(StartMarker, Heard, 1) - 1)
               = SubSeq(Heard, 1, Find(StartMarker, Heard, 1) - 1)
      <3>1. Find(StartMarker, Heard, 1) # 0
        BY <2>2 DEF SplitHidden
      <3>2. /\ Find(StartMarker, Heard \o delta, 1) = Find(StartMarker, Heard, 1)
            /\ SubSeq(Heard \o delta, 1, Find(StartMarker, Heard, 1) - 1)
                 = SubSeq(Heard, 1, Find(StartMarker, Heard, 1) - 1)
        BY <1>4, <3>1, HiddenFed, Zenon
      <3> QED
        BY <1>4, <3>2, Zenon
    <2>4. SplitHidden'
      BY <2>1, <2>2, <2>3, Zenon DEF SplitHidden, Beginning
    <2> QED
      BY <1>2, <1>3, <1>5, <1>7, <2>1, <2>4 DEF SplitInv
  <1>8. CASE ~hidden
    <2>1. /\ pending' \in Seq(STRING) /\ shown' \in Seq(STRING) /\ hidden' \in BOOLEAN
          /\ IF hidden' THEN SplitHidden' ELSE SplitOpen'
          /\ ~hidden' => Len(pending') = 2 \/ (shown' = <<>> /\ Len(pending') <= 2)
      BY <1>2, <1>4, <1>5, <1>6, <1>8, FeedSplits
    <2> QED
      BY <1>2, <1>3, <1>5, <2>1 DEF SplitInv
  <1> QED
    BY <1>7, <1>8

(* The stream ends: what was held back is sent. *)
LEMMA FinishSplits ==
    ASSUME SplitInv, Finish
    PROVE  SplitInv'
  <1>1. /\ step = "writing" /\ step' = "answered" /\ shown' = shown \o pending
        /\ pending' = <<>> /\ text' = text /\ heard' = heard /\ hidden' = hidden
    BY DEF Finish
  <1>2. Heard' = Heard
    BY <1>1 DEF Heard
  <1>3. pending \in Seq(STRING) /\ shown \in Seq(STRING) /\ hidden \in BOOLEAN
    BY DEF SplitInv
  <1>4. shown' \in Seq(STRING) /\ pending' \in Seq(STRING)
    BY <1>1, <1>3
  <1>5. CASE hidden
    <2>1. SplitHidden
      BY <1>5 DEF SplitInv
    <2>2. shown' = shown
      BY <1>1, <1>3, <2>1 DEF SplitHidden
    <2>3. SplitHidden'
      BY <1>1, <1>2, <2>1, <2>2, Zenon DEF SplitHidden
    <2> QED
      BY <1>1, <1>4, <1>5, <2>3 DEF SplitInv
  <1>6. CASE ~hidden
    <2>1. SplitOpen
      BY <1>6 DEF SplitInv
    <2>2. Both(shown', pending') = shown'
      BY <1>1, <1>4 DEF Both
    <2>3. shown' = Heard
      BY <1>1, <2>1, Zenon DEF SplitOpen, Both
    <2>4. SplitOpen'
      BY <1>2, <2>1, <2>2, <2>3, Zenon DEF SplitOpen
    <2> QED
      BY <1>1, <1>4, <1>6, <2>4 DEF SplitInv
  <1> QED
    BY <1>5, <1>6

(* Before the model writes, nothing is heard. *)
LEMMA RerankSplits ==
    ASSUME SplitInv, Rerank
    PROVE  SplitInv'
  <1>1. /\ step = "found" /\ step' = "writing" /\ text' \in Seq(STRING)
        /\ UNCHANGED <<heard, pending, hidden, shown>>
    BY AnsweringAssumption DEF Rerank
  <1>2. heard = 0 /\ pending = <<>> /\ shown = <<>> /\ ~hidden /\ text \in Seq(STRING)
    BY <1>1 DEF SplitInv
  <1>3. Heard = <<>> /\ Heard' = <<>>
    BY <1>1, <1>2 DEF Heard
  <1>4. SplitOpen'
    BY <1>1, <1>2, <1>3 DEF SplitInv, SplitOpen
  <1>5. heard' \in 0..Len(text') /\ Len(pending') <= 2
    BY <1>1, <1>2
  <1> QED
    BY <1>1, <1>2, <1>4, <1>5 DEF SplitInv

(* Every step keeps it. *)
LEMMA SplitNext ==
    ASSUME SplitInv, [AnsweringNext]_answeringVars
    PROVE  SplitInv'
  <1>1. ASSUME UNCHANGED generation,
               step' \in {"found", "answered", "failed"},
               step' = "found" => step = "asked",
               step' = "answered" => evidence' = <<>>
        PROVE  SplitInv'
    <2>1. Heard' = Heard
      BY <1>1 DEF generation, Heard
    <2>2. (IF hidden THEN SplitHidden ELSE SplitOpen) => (IF hidden' THEN SplitHidden' ELSE SplitOpen')
      BY <1>1, <2>1, Zenon DEF generation, SplitHidden, SplitOpen
    <2> QED
      BY <1>1, <2>2 DEF SplitInv, generation
  <1>2. CASE Retrieve \/ NoEvidence \/ Fail
    <2>1. /\ UNCHANGED generation
          /\ step' \in {"found", "answered", "failed"}
          /\ step' = "found" => step = "asked"
      BY <1>2 DEF Retrieve, NoEvidence, Fail
    <2>2. step' = "answered" => evidence' = <<>>
      BY <1>2 DEF Retrieve, NoEvidence, Fail
    <2> QED
      BY <1>1, <2>1, <2>2, Zenon
  <1>3. CASE UNCHANGED answeringVars
    <2>1. Heard' = Heard
      BY <1>3 DEF answeringVars, Heard
    <2>2. (IF hidden THEN SplitHidden ELSE SplitOpen) => (IF hidden' THEN SplitHidden' ELSE SplitOpen')
      BY <1>3, <2>1, Zenon DEF answeringVars, SplitHidden, SplitOpen
    <2> QED
      BY <1>3, <2>2 DEF SplitInv, answeringVars
  <1> QED
    BY <1>2, <1>3, DeltaSplits, FinishSplits, RerankSplits DEF AnsweringNext

(* Once nothing is held back, the reader has what stands before the block. *)
LEMMA ShownBefore ==
    ASSUME SplitInv
    PROVE  /\ IsPrefix(shown, BeforeBlock(Heard))
           /\ pending = <<>> => shown = BeforeBlock(Heard)
  <1>1. /\ shown \in Seq(STRING) /\ pending \in Seq(STRING) /\ Heard \in Seq(STRING)
        /\ Len(Heard) = heard /\ heard \in Nat
    BY DEF SplitInv, Heard
  <1>2. CASE hidden
    <2>1. shown = BeforeBlock(Heard)
      BY <1>2, Zenon DEF SplitInv, SplitHidden, BeforeBlock, Beginning
    <2>2. IsPrefix(shown, shown)
      BY <1>1 DEF IsPrefix
    <2> QED
      BY <2>1, <2>2, Zenon
  <1>3. CASE ~hidden
    <2>1. SplitOpen
      BY <1>3 DEF SplitInv
    <2>2. BeforeBlock(Heard) = Heard
      BY <1>1, <2>1, FindNone, Zenon DEF SplitOpen, BeforeBlock
    <2>3. shown \o pending = Heard
      BY <2>1 DEF SplitOpen, Both
    <2>4. IsPrefix(shown, shown \o pending)
      BY <1>1 DEF IsPrefix
    <2>5. pending = <<>> => shown = Heard
      BY <1>1, <2>3
    <2> QED
      BY <2>2, <2>3, <2>4, <2>5, Zenon
  <1> QED
    BY <1>2, <1>3

(* The invariant says that the reader is sent what stands before the block. *)
LEMMA SplitAgrees == SplitInv => StreamAgrees
  <1> SUFFICES ASSUME SplitInv PROVE StreamAgrees
    OBVIOUS
  <1>1. step = "answered" /\ evidence # <<>> => pending = <<>>
    BY DEF SplitInv
  <1> QED
    BY <1>1, ShownBefore, Zenon DEF StreamAgrees, Heard

(* However a model's text is cut into deltas, the reader is sent what stands *)
(* before the citation block, nothing of the block, and all of it in the end *)
(* (StreamingCitationSplitter), for any texts.                               *)
THEOREM StreamAgreesCorrect == AnsweringSpec => []StreamAgrees
  <1>1. AnsweringInit => SplitInv
    BY SplitInit
  <1>2. SplitInv /\ [AnsweringNext]_answeringVars => SplitInv'
    BY SplitNext
  <1>3. SplitInv => StreamAgrees
    BY SplitAgrees
  <1> QED
    BY <1>1, <1>2, <1>3, PTL DEF AnsweringSpec

-----------------------------------------------------------------------------
(* The citation block *)

(* Find gives a place of the marker, and none is before it; 0 when none is.  *)
LEMMA FindPlace ==
    ASSUME NEW marker, Len(marker) = 3, NEW string \in Seq(STRING), NEW from \in Nat, from # 0
    PROVE  /\ Find(marker, string, from) \in Nat
           /\ Find(marker, string, from) # 0 =>
                /\ from <= Find(marker, string, from)
                /\ Find(marker, string, from) + 2 <= Len(string)
                /\ SubSeq(string, Find(marker, string, from), Find(marker, string, from) + 2)
                     = marker
           /\ \A i \in Nat : from <= i /\ i + 2 <= Len(string) /\ SubSeq(string, i, i + 2) = marker
                => Find(marker, string, from) # 0 /\ Find(marker, string, from) <= i
  <1> DEFINE places == {i \in from..(Len(string) - Len(marker) + 1) :
                          SubSeq(string, i, i + Len(marker) - 1) = marker}
             found == Find(marker, string, from)
             L == Len(string)
  <1>1. L \in Nat
    OBVIOUS
  <1>2. \A i : i \in places <=> /\ i \in Nat /\ from <= i /\ i + 2 <= L
                                /\ SubSeq(string, i, i + 2) = marker
    <2>1. \A i : i \in from..(L - 3 + 1) <=> i \in Nat /\ from <= i /\ i + 2 <= L
      <3> HIDE DEF L
      <3> QED
        BY <1>1
    <2>2. \A i \in Nat : i + 3 - 1 = i + 2
      OBVIOUS
    <2> QED
      BY <2>1, <2>2
  <1>3. found = IF places = {} THEN 0 ELSE Min(places)
    BY DEF Find
  <1> HIDE DEF places, found
  <1>4. places \in SUBSET Nat
    BY <1>2
  <1>5. places # {} => Min(places) \in places /\ \A i \in places : Min(places) <= i
    BY <1>4, MinOf
  <1>6. found # 0 => found \in places
    BY <1>3, <1>5
  <1>7. \A i \in places : found \in places /\ found <= i
    BY <1>3, <1>5
  <1>8. \A i \in places : i \in Nat /\ i # 0
    BY <1>2
  <1>9. found \in Nat
    BY <1>3, <1>5, <1>8
  <1> HIDE DEF L
  <1> QED
    BY <1>2, <1>6, <1>7, <1>8, <1>9 DEF found, L

(* It gives the place it starts from when a start marker stands there. *)
LEMMA FindHere ==
    ASSUME NEW string \in Seq(STRING), NEW p \in 1..Len(string)
    PROVE  Find(StartMarker, string, p) = p <=> MarkerAt(string, p)
  <1> DEFINE found == Find(StartMarker, string, p)
  <1>1. /\ found \in Nat
        /\ found # 0 => /\ p <= found /\ found + 2 <= Len(string)
                        /\ SubSeq(string, found, found + 2) = StartMarker
        /\ \A i \in Nat : p <= i /\ i + 2 <= Len(string)
                            /\ SubSeq(string, i, i + 2) = StartMarker
             => found # 0 /\ found <= i
    <2>1. Len(StartMarker) = 3 /\ p \in Nat /\ p # 0
      BY DEF StartMarker
    <2> QED
      BY <2>1, FindPlace, Zenon
  <1> HIDE DEF found
  <1>2. p + 2 <= Len(string) => (SubSeq(string, p, p + 2) = StartMarker <=> MarkerAt(string, p))
    BY MarkerCompared
  <1>3. MarkerAt(string, p) => p + 2 <= Len(string)
    BY DEF MarkerAt
  <1>4. found = p => MarkerAt(string, p)
    BY <1>1, <1>2
  <1>5. MarkerAt(string, p) => found = p
    BY <1>1, <1>2, <1>3
  <1> QED
    BY <1>4, <1>5 DEF found

(* The end marker behind a place. *)
EndFrom(raw, p) == Find(EndMarker, raw, p + Len(StartMarker))

(* It is behind the start marker, and when there is none, there is none later. *)
LEMMA EndBehind ==
    ASSUME NEW raw \in Seq(STRING), NEW p \in Nat
    PROVE  /\ EndFrom(raw, p) \in Nat
           /\ EndFrom(raw, p) # 0 => p + 3 <= EndFrom(raw, p) /\ EndFrom(raw, p) + 2 <= Len(raw)
           /\ \A q \in Nat : p <= q /\ EndFrom(raw, q) # 0 => EndFrom(raw, p) # 0
  <1>1. Len(StartMarker) = 3 /\ Len(EndMarker) = 3
    BY DEF StartMarker, EndMarker
  <1>2. ASSUME NEW r \in Nat
        PROVE  /\ EndFrom(raw, r) \in Nat
               /\ EndFrom(raw, r) # 0 =>
                    /\ r + 3 <= EndFrom(raw, r)
                    /\ EndFrom(raw, r) + 2 <= Len(raw)
                    /\ SubSeq(raw, EndFrom(raw, r), EndFrom(raw, r) + 2) = EndMarker
               /\ \A i \in Nat : r + 3 <= i /\ i + 2 <= Len(raw) /\ SubSeq(raw, i, i + 2) = EndMarker
                    => EndFrom(raw, r) # 0 /\ EndFrom(raw, r) <= i
    <2> DEFINE from == r + 3
               e == Find(EndMarker, raw, from)
    <2>1. EndFrom(raw, r) = e /\ from \in Nat /\ from # 0
      BY <1>1 DEF EndFrom
    <2> HIDE DEF from
    <2>2. /\ e \in Nat
          /\ e # 0 => /\ from <= e /\ e + 2 <= Len(raw)
                      /\ SubSeq(raw, e, e + 2) = EndMarker
          /\ \A i \in Nat : from <= i /\ i + 2 <= Len(raw) /\ SubSeq(raw, i, i + 2) = EndMarker
               => e # 0 /\ e <= i
      BY <1>1, <2>1, FindPlace
    <2> HIDE DEF e
    <2> QED
      BY <2>1, <2>2 DEF from
  <1>3. ASSUME NEW q \in Nat, p <= q, EndFrom(raw, q) # 0 PROVE EndFrom(raw, p) # 0
    <2>1. /\ EndFrom(raw, q) \in Nat /\ q + 3 <= EndFrom(raw, q) /\ EndFrom(raw, q) + 2 <= Len(raw)
          /\ SubSeq(raw, EndFrom(raw, q), EndFrom(raw, q) + 2) = EndMarker
      BY <1>2, <1>3
    <2>2. p + 3 <= EndFrom(raw, q)
      BY <1>3, <2>1
    <2> QED
      BY <1>2, <2>1, <2>2
  <1> QED
    BY <1>2, <1>3

(* Blocks, and how finditer goes on at a place. *)
Markings == [from : Nat, to : Nat]
FreeFrom(found) == IF found = <<>> THEN 1 ELSE found[Len(found)].to + 1
LookAt(raw, found, p) ==
    IF FreeFrom(found) <= p /\ Find(StartMarker, raw, p) = p /\ EndFrom(raw, p) # 0
    THEN Append(found, [from |-> p, to |-> EndFrom(raw, p) + Len(EndMarker) - 1])
    ELSE found
LookStep(raw) == [v \in Seq(Markings) \X (1..Len(raw)) |-> LookAt(raw, v[1], v[2])]

(* The citation blocks are what the path of these steps ends with. *)
LEMMA BlocksPath ==
    ASSUME NEW raw \in Seq(STRING)
    PROVE  \E f : /\ IsPath(f, LookStep(raw), <<>>, Seq(Markings), Len(raw))
                  /\ CitationBlocks(raw) = f[Len(raw)]
  <1> DEFINE N == Len(raw)
             V == Seq(Markings)
             g == LookStep(raw)
             list == [p \in DOMAIN raw |-> p]
  <1>1. N \in Nat /\ DOMAIN list = 1..N /\ \A k \in 1..N : list[k] = k
    OBVIOUS
  <1>2. ASSUME NEW found \in V, NEW p \in 1..N
        PROVE  LookAt(raw, found, p) \in V /\ g[<<found, p>>] = LookAt(raw, found, p)
    <2>1. EndFrom(raw, p) \in Nat /\ Len(EndMarker) = 3
      BY EndBehind DEF EndMarker
    <2>2. EndFrom(raw, p) # 0 =>
            [from |-> p, to |-> EndFrom(raw, p) + Len(EndMarker) - 1] \in Markings
      BY <2>1 DEF Markings
    <2>3. LookAt(raw, found, p) \in V
      BY <2>2 DEF LookAt
    <2> QED
      BY <2>3 DEF LookStep
  <1>3. IsStep(g, V, N)
    <2>1. g = [v \in V \X (1..N) |-> LookAt(raw, v[1], v[2])]
      BY DEF LookStep
    <2>2. \A v \in V \X (1..N) : LookAt(raw, v[1], v[2]) \in V
      <3> HIDE DEF V, N
      <3> QED
        BY <1>2
    <2> HIDE DEF V, g, N
    <2> QED
      BY <2>1, <2>2 DEF IsStep
  <1>4. <<>> \in V
    OBVIOUS
  <1> HIDE DEF N, V, g, list
  <1>5. PICK it : IsFold(it, g, <<>>, V, N)
    BY <1>1, <1>3, <1>4, FoldExists
  <1> DEFINE P == SUBSET (1..N)
             Fits(w) == w = [s \in P |-> IF s = {} THEN <<>>
                                         ELSE LookAt(raw, w[s \ {Max(s)}], list[Max(s)])]
             c == CHOOSE w : Fits(w)
  <1>6. Fits(it)
    <2>1. it = [s \in P |-> IF s = {} THEN <<>> ELSE g[<<it[s \ {Max(s)}], Max(s)>>]]
      BY <1>5 DEF IsFold
    <2>2. ASSUME NEW s \in P, s # {}
          PROVE  g[<<it[s \ {Max(s)}], Max(s)>>] = LookAt(raw, it[s \ {Max(s)}], list[Max(s)])
      <3>1. Max(s) \in 1..N /\ it[s \ {Max(s)}] \in V
        BY <1>1, <1>5, <2>2, FoldArguments
      <3> QED
        BY <1>1, <1>2, <3>1
    <2> HIDE DEF P
    <2> QED
      BY <2>1, <2>2
  <1>7. Fits(c)
    <2> HIDE DEF Fits
    <2> QED
      BY <1>6, Zenon
  <1>8. CitationBlocks(raw) = c[1..N]
    BY <1>1, Zenon DEF CitationBlocks, FoldLeft, MapThenFoldSet, LookAt, FreeFrom, EndFrom, list
  <1> HIDE DEF c
  <1>9. c[{}] = <<>>
    BY <1>7
  <1>10. ASSUME NEW k \in 1..N, c[1..(k - 1)] \in V PROVE c[1..k] = g[<<c[1..(k - 1)], k>>]
    <2>1. k \in Nat /\ k # 0 /\ 1..k \in P
      BY <1>1
    <2>2. Max(1..k) = k /\ (1..k) \ {k} = 1..(k - 1) /\ 1..k # {}
      BY <2>1, UpTo
    <2>3. c[1..k] = LookAt(raw, c[1..(k - 1)], k)
      <3>1. c[1..k] = LookAt(raw, c[(1..k) \ {Max(1..k)}], list[Max(1..k)])
        BY <1>7, <2>1, <2>2
      <3> QED
        BY <1>1, <2>2, <3>1
    <2> QED
      BY <1>2, <1>10, <2>3
  <1> HIDE DEF Fits, P
  <1>11. \E f : IsPath(f, g, <<>>, V, N) /\ c[1..N] = f[N]
    BY <1>1, <1>3, <1>4, <1>9, <1>10, FoldPath
  <1> QED
    BY <1>8, <1>11 DEF N, V, g

(* The blocks found up to a place: within the text, the first one at the first *)
(* start marker there is, the others behind it.                                *)
BlocksTo(raw, found, p) ==
    /\ \A i \in DOMAIN found :
         /\ MarkerAt(raw, found[i].from)
         /\ found[i].from + 5 <= found[i].to /\ found[i].to <= Len(raw)
         /\ found[1].to <= found[i].to
         /\ i # 1 => found[1].to < found[i].from
    /\ found = <<>> => \A q \in 1..p : MarkerAt(raw, q) => EndFrom(raw, q) = 0
    /\ found # <<>> => \A q \in Nat : MarkerAt(raw, q) => found[1].from <= q

(* Looking at one place more. *)
LEMMA LookKeeps ==
    ASSUME NEW raw \in Seq(STRING), NEW found \in Seq(Markings), NEW k \in Nat, k + 1 <= Len(raw),
           BlocksTo(raw, found, k)
    PROVE  BlocksTo(raw, LookAt(raw, found, k + 1), k + 1)
  <1> DEFINE p == k + 1
             after == LookAt(raw, found, p)
             e == EndFrom(raw, p)
             n == Len(found)
  <1>1. p \in 1..Len(raw) /\ p \in Nat /\ k < p /\ 1..p = (1..k) \cup {p} /\ Len(raw) \in Nat
    OBVIOUS
  <1>2. n \in Nat /\ DOMAIN found = 1..n /\ \A i \in 1..n : found[i] \in Markings
    OBVIOUS
  <1>3. \A i \in 1..n : found[i].from \in Nat /\ found[i].to \in Nat
    BY <1>2 DEF Markings
  <1>4. found = <<>> <=> n = 0
    OBVIOUS
  <1>5. /\ e \in Nat
        /\ e # 0 => p + 3 <= e /\ e + 2 <= Len(raw)
    BY <1>1, EndBehind
  <1>6. \A q \in 1..p : e # 0 => EndFrom(raw, q) # 0
    <2> SUFFICES ASSUME NEW q \in 1..p, e # 0 PROVE EndFrom(raw, q) # 0
      OBVIOUS
    <2>1. q \in Nat /\ q <= p
      BY <1>1
    <2> HIDE DEF p
    <2> QED
      BY <1>1, <2>1, EndBehind
  <1>7. Find(StartMarker, raw, p) = p <=> MarkerAt(raw, p)
    BY <1>1, FindHere
  <1>8. Len(EndMarker) = 3
    BY DEF EndMarker
  <1> DEFINE block == [from |-> p, to |-> e + 2]
             Here == FreeFrom(found) <= p /\ MarkerAt(raw, p) /\ e # 0
  <1>9. after = IF Here THEN Append(found, block) ELSE found
    <2>1. e + 3 - 1 = e + 2
      BY <1>5
    <2> QED
      BY <1>7, <1>8, <2>1 DEF LookAt
  <1>10. block \in Markings /\ block.from = p /\ block.to = e + 2
    <2> HIDE DEF p, e
    <2> QED
      BY <1>1, <1>5 DEF Markings
  <1>11. \A q \in Nat : MarkerAt(raw, q) => q # 0
    BY DEF MarkerAt
  <1> HIDE DEF p, after, e, n, block
  <1>12. CASE ~Here
    <2>1. after = found
      BY <1>9, <1>12
    <2>2. ASSUME found = <<>> PROVE \A q \in 1..p : MarkerAt(raw, q) => EndFrom(raw, q) = 0
      <3>1. \A q \in 1..k : MarkerAt(raw, q) => EndFrom(raw, q) = 0
        BY <2>2 DEF BlocksTo
      <3>2. FreeFrom(found) <= p
        BY <1>1, <2>2 DEF FreeFrom
      <3>3. MarkerAt(raw, p) => EndFrom(raw, p) = 0
        BY <1>12, <3>2 DEF e
      <3> QED
        BY <1>1, <3>1, <3>3
    <2> QED
      BY <2>1, <2>2 DEF BlocksTo, p, after
  <1>13. CASE Here
    <2>1. /\ after \in Seq(Markings) /\ DOMAIN after = 1..(n + 1) /\ after[n + 1] = block
          /\ \A i \in 1..n : after[i] = found[i]
      <3>1. after = Append(found, block)
        BY <1>9, <1>13
      <3> QED
        BY <1>10, <3>1 DEF n
    <2>2. after # <<>>
      <3>1. 1 \in DOMAIN after
        BY <1>2, <2>1
      <3> QED
        BY <3>1
    <2>3. p + 5 <= e + 2 /\ e + 2 <= Len(raw)
      <3>1. p \in Nat /\ e \in Nat /\ p + 3 <= e /\ e + 2 <= Len(raw)
        BY <1>1, <1>5, <1>13
      <3> HIDE DEF Here
      <3> QED
        BY <3>1
    <2>4. CASE n = 0
      <3>1. after[1] = block /\ DOMAIN after = {1}
        BY <2>1, <2>4
      <3>2. \A q \in 1..k : MarkerAt(raw, q) => EndFrom(raw, q) = 0
        BY <1>4, <2>4 DEF BlocksTo
      <3>3. ASSUME NEW q \in Nat, MarkerAt(raw, q) PROVE p <= q
        <4>1. SUFFICES ASSUME q < p PROVE FALSE
          BY <1>1
        <4>2. q \in 1..k /\ q \in 1..p
          BY <1>1, <1>11, <3>3, <4>1 DEF p
        <4> QED
          BY <1>6, <1>13, <3>2, <3>3, <4>2
      <3>4. BlocksTo(raw, after, p)
        <4>1. ASSUME NEW i \in DOMAIN after
              PROVE  /\ MarkerAt(raw, after[i].from)
                     /\ after[i].from + 5 <= after[i].to /\ after[i].to <= Len(raw)
                     /\ after[1].to <= after[i].to /\ i = 1
          <5>1. i = 1 /\ after[1].from = p /\ after[1].to = e + 2
            BY <1>10, <3>1
          <5>2. after[1].to <= after[1].to
            BY <1>5, <5>1
          <5> QED
            BY <1>13, <2>3, <5>1, <5>2
        <4>2. after[1].from = p
          BY <1>10, <3>1
        <4> QED
          BY <2>2, <3>3, <4>1, <4>2 DEF BlocksTo
      <3> QED
        BY <3>4 DEF p, after
    <2>5. CASE n # 0
      <3>1. 1 \in 1..n /\ n \in 1..n /\ after[1] = found[1] /\ found # <<>>
        BY <1>2, <1>4, <2>1, <2>5
      <3>2. found[n].to + 1 <= p
        BY <1>13, <3>1 DEF FreeFrom, n
      <3>3. found[1].to <= found[n].to
        BY <1>2, <3>1 DEF BlocksTo
      <3>4. found[1].to < p /\ found[1].to <= e + 2
        <4> DEFINE a == found[1].to
                   b == found[n].to
        <4>1. a \in Nat /\ b \in Nat /\ p \in Nat /\ e \in Nat
          BY <1>1, <1>3, <1>5, <3>1
        <4>2. b + 1 <= p /\ a <= b /\ p + 5 <= e + 2
          BY <2>3, <3>2, <3>3
        <4> HIDE DEF a, b, Here
        <4>3. a < p /\ a <= e + 2
          BY <4>1, <4>2
        <4> QED
          BY <4>3 DEF a
      <3>5. ASSUME NEW i \in DOMAIN after
            PROVE  /\ MarkerAt(raw, after[i].from)
                   /\ after[i].from + 5 <= after[i].to /\ after[i].to <= Len(raw)
                   /\ after[1].to <= after[i].to
                   /\ i # 1 => after[1].to < after[i].from
        <4>1. CASE i \in 1..n
          <5>1. after[i] = found[i] /\ i \in DOMAIN found
            BY <1>2, <2>1, <4>1
          <5> QED
            BY <3>1, <5>1 DEF BlocksTo
        <4>2. CASE i = n + 1
          <5>1. after[i].from = p /\ after[i].to = e + 2
            BY <1>10, <2>1, <4>2
          <5> QED
            BY <1>13, <2>3, <3>1, <3>4, <5>1
        <4> QED
          BY <1>2, <2>1, <4>1, <4>2
      <3>6. \A q \in Nat : MarkerAt(raw, q) => after[1].from <= q
        BY <3>1 DEF BlocksTo
      <3>7. BlocksTo(raw, after, p)
        BY <2>2, <3>5, <3>6 DEF BlocksTo
      <3> QED
        BY <3>7 DEF p, after
    <2> QED
      BY <2>4, <2>5
  <1> QED
    BY <1>12, <1>13

(* The blocks of a text. *)
LEMMA BlocksOf ==
    ASSUME NEW raw \in Seq(STRING)
    PROVE  CitationBlocks(raw) \in Seq(Markings) /\ BlocksTo(raw, CitationBlocks(raw), Len(raw))
  <1> DEFINE N == Len(raw)
  <1>1. PICK f : IsPath(f, LookStep(raw), <<>>, Seq(Markings), N) /\ CitationBlocks(raw) = f[N]
    BY BlocksPath
  <1>2. N \in Nat
    OBVIOUS
  <1>3. /\ f \in [0..N -> Seq(Markings)] /\ f[0] = <<>>
        /\ \A k \in 1..N : f[k] = LookStep(raw)[<<f[k - 1], k>>]
    BY <1>1 DEF IsPath
  <1>4. ASSUME NEW k \in Nat, k + 1 <= N
        PROVE  f[k] \in Seq(Markings) /\ f[k + 1] = LookAt(raw, f[k], k + 1)
    <2>1. k + 1 \in 1..N /\ (k + 1) - 1 = k /\ k \in 0..N
      BY <1>2, <1>4
    <2>2. f[k] \in Seq(Markings)
      BY <1>3, <2>1
    <2>3. f[k + 1] = LookStep(raw)[<<f[k], k + 1>>]
      <3>1. f[k + 1] = LookStep(raw)[<<f[(k + 1) - 1], k + 1>>]
        BY <1>3, <2>1
      <3> QED
        BY <2>1, <3>1
    <2> QED
      BY <2>1, <2>2, <2>3 DEF LookStep
  <1> DEFINE K == {k \in Nat : k <= N => BlocksTo(raw, f[k], k)}
  <1> HIDE DEF N
  <1>5. 0 \in K
    <2>1. DOMAIN <<>> = {}
      OBVIOUS
    <2>2. 1..0 = {}
      OBVIOUS
    <2>3. BlocksTo(raw, <<>>, 0)
      BY <2>1, <2>2 DEF BlocksTo
    <2> QED
      BY <1>3, <2>3
  <1>6. ASSUME NEW k \in Nat, k \in K PROVE k + 1 \in K
    <2>1. SUFFICES ASSUME k + 1 <= N PROVE BlocksTo(raw, f[k + 1], k + 1)
      OBVIOUS
    <2>2. k <= N
      BY <1>2, <2>1
    <2>3. BlocksTo(raw, f[k], k)
      BY <1>6, <2>2
    <2>4. f[k] \in Seq(Markings) /\ f[k + 1] = LookAt(raw, f[k], k + 1)
      BY <1>4, <2>1
    <2> HIDE DEF K
    <2> DEFINE found == f[k]
    <2>5. found \in Seq(Markings) /\ BlocksTo(raw, found, k)
      BY <2>3, <2>4
    <2> HIDE DEF found
    <2>6. BlocksTo(raw, LookAt(raw, found, k + 1), k + 1)
      BY <2>1, <2>5, LookKeeps DEF N
    <2> QED
      BY <2>4, <2>6 DEF found
  <1> HIDE DEF K
  <1>7. \A k \in Nat : k \in K
    BY <1>5, <1>6, SetInduction, Zenon
  <1>8. BlocksTo(raw, f[N], N) /\ f[N] \in Seq(Markings)
    BY <1>2, <1>3, <1>7 DEF K
  <1> QED
    BY <1>1, <1>8 DEF N

(* A text without a start marker has no block. *)
LEMMA NoBlocks ==
    ASSUME NEW raw \in Seq(STRING), \A i \in Nat : ~MarkerAt(raw, i)
    PROVE  CitationBlocks(raw) = <<>>
  <1> DEFINE blocks == CitationBlocks(raw)
  <1>1. blocks \in Seq(Markings) /\ BlocksTo(raw, blocks, Len(raw))
    BY BlocksOf
  <1> HIDE DEF blocks
  <1>2. ASSUME blocks # <<>> PROVE FALSE
    <2>1. 1 \in DOMAIN blocks
      BY <1>1, <1>2
    <2>2. blocks[1] \in Markings
      BY <1>1, <2>1
    <2>3. MarkerAt(raw, blocks[1].from) /\ blocks[1].from \in Nat
      BY <1>1, <2>1, <2>2 DEF BlocksTo, Markings
    <2> QED
      BY <2>3
  <1> QED
    BY <1>2 DEF blocks

-----------------------------------------------------------------------------
(* The text of the answer *)

(* A character of a block. *)
InBlock(raw, i) ==
    \E b \in DOMAIN CitationBlocks(raw) :
      CitationBlocks(raw)[b].from <= i /\ i <= CitationBlocks(raw)[b].to

(* The text in pieces, without its blocks. *)
Outside(raw) == [i \in DOMAIN raw |-> IF InBlock(raw, i) THEN <<>> ELSE <<raw[i]>>]
Prose(raw) == Strip(FlattenSeq(Outside(raw)))

(* What is outside is at most one word for each word. *)
LEMMA OutsideOf ==
    ASSUME NEW raw \in Seq(STRING), NEW S, Range(raw) \subseteq S
    PROVE  /\ Outside(raw) \in Seq(Seq(S)) /\ Len(Outside(raw)) = Len(raw)
           /\ \A i \in 1..Len(raw) :
                Outside(raw)[i] = IF InBlock(raw, i) THEN <<>> ELSE <<raw[i]>>
  <1> DEFINE N == Len(raw)
             Piece(i) == IF InBlock(raw, i) THEN <<>> ELSE <<raw[i]>>
  <1>1. N \in Nat /\ DOMAIN raw = 1..N /\ \A i \in 1..N : raw[i] \in S
    BY DEF Range
  <1>2. \A i \in 1..N : Piece(i) \in Seq(S)
    <2> SUFFICES ASSUME NEW i \in 1..N PROVE Piece(i) \in Seq(S)
      OBVIOUS
    <2>1. <<raw[i]>> \in Seq(S) /\ <<>> \in Seq(S)
      BY <1>1
    <2> QED
      BY <2>1
  <1>3. Outside(raw) = [i \in 1..N |-> Piece(i)]
    BY <1>1 DEF Outside
  <1> HIDE DEF Piece, N
  <1>4. Outside(raw) \in Seq(Seq(S)) /\ Len(Outside(raw)) = N
    BY <1>1, <1>2, <1>3
  <1>5. \A i \in 1..N : Outside(raw)[i] = Piece(i)
    BY <1>3
  <1> QED
    BY <1>4, <1>5 DEF Piece, N

(* The text has no words that the model did not write. *)
LEMMA CleanedOf ==
    ASSUME NEW raw \in Seq(STRING)
    PROVE  /\ Cleaned(raw) = Strip(Kept(Prose(raw), Range(Prose(raw)) \ Range(Fences)))
           /\ Cleaned(raw) \in Seq(Range(raw))
  <1> DEFINE S == Range(raw)
  <1>1. Cleaned(raw) = Strip(Kept(Prose(raw), Range(Prose(raw)) \ Range(Fences)))
    BY DEF Cleaned, Prose, Outside, InBlock
  <1>2. Outside(raw) \in Seq(Seq(S))
    BY OutsideOf
  <1> HIDE DEF S
  <1>3. FlattenSeq(Outside(raw)) \in Seq(S)
    BY <1>2, Flattened
  <1>4. Prose(raw) \in Seq(S)
    BY <1>3, StripOf DEF Prose
  <1>5. Kept(Prose(raw), Range(Prose(raw)) \ Range(Fences)) \in Seq(S)
    BY <1>4, KeptOf
  <1>6. Cleaned(raw) \in Seq(S)
    BY <1>1, <1>5, StripOf
  <1> QED
    BY <1>1, <1>6 DEF S

(* When nothing but white space stands behind the block, the text is the same *)
(* as without it.                                                             *)
LEMMA CleanedSame ==
    ASSUME NEW raw \in Seq(STRING), CitationBlocks(raw) # <<>>,
           Blank(SubSeq(raw, CitationBlocks(raw)[1].to + 1, Len(raw)))
    PROVE  Cleaned(raw) = Cleaned(BeforeBlock(raw))
  <1> DEFINE blocks == CitationBlocks(raw)
             L == Len(raw)
             from == blocks[1].from
             to == blocks[1].to
             n == from - 1
             head == SubSeq(raw, 1, n)
             tail == SubSeq(raw, to + 1, L)
  <1>1. blocks \in Seq(Markings) /\ BlocksTo(raw, blocks, L)
    BY BlocksOf
  <1>2. 1 \in DOMAIN blocks /\ L \in Nat
    BY <1>1
  <1>3. from \in Nat /\ to \in Nat
    <2>1. blocks[1] \in Markings
      BY <1>1, <1>2
    <2> QED
      BY <2>1 DEF Markings
  <1>4. /\ MarkerAt(raw, from) /\ from + 5 <= to /\ to <= L
        /\ \A q \in Nat : MarkerAt(raw, q) => from <= q
        /\ \A i \in DOMAIN blocks : i # 1 => to < blocks[i].from
        /\ \A i \in DOMAIN blocks : MarkerAt(raw, blocks[i].from) /\ blocks[i].from \in Nat
    <2>1. \A i \in DOMAIN blocks : blocks[i] \in Markings
      BY <1>1
    <2>2. \A i \in DOMAIN blocks : blocks[i].from \in Nat
      BY <2>1 DEF Markings
    <2> HIDE DEF blocks
    <2> QED
      BY <1>1, <1>2, <2>2 DEF BlocksTo
  <1>5. from # 0 /\ n \in Nat /\ n + 1 = from /\ n <= to /\ n <= L
    <2>1. MarkerAt(raw, from) /\ from + 5 <= to /\ to <= L
      BY <1>4
    <2> HIDE DEF from, to
    <2>2. from \in 1..L
      BY <2>1 DEF MarkerAt
    <2> HIDE DEF L
    <2> QED
      BY <1>2, <1>3, <2>1, <2>2
  <1>6. BeforeBlock(raw) = head
    <2>1. Find(StartMarker, raw, 1) = from
      BY <1>3, <1>4, FindIs
    <2> HIDE DEF from
    <2> QED
      BY <1>5, <2>1 DEF BeforeBlock
  <1>7. /\ head \in Seq(STRING) /\ Len(head) = n
        /\ \A i \in 1..n : head[i] = raw[i]
    <2> HIDE DEF n
    <2>1. /\ head \in Seq(STRING) /\ Len(head) = IF 1 <= n THEN n - 1 + 1 ELSE 0
          /\ \A i \in 1..Len(head) : head[i] = raw[1 + i - 1]
      BY <1>5, PartOf
    <2>2. Len(head) = n /\ \A i \in 1..n : 1 + i - 1 = i
      BY <1>5, <2>1
    <2> HIDE DEF head
    <2> QED
      BY <2>1, <2>2
  <1>8. /\ tail \in Seq(STRING) /\ Len(tail) = L - to
        /\ \A i \in 1..(L - to) : tail[i] = raw[to + i]
    <2> DEFINE a == to + 1
    <2>1. a \in Nat /\ a # 0 /\ L <= Len(raw) /\ (IF a <= L THEN (L - a) + 1 ELSE 0) = L - to
      BY <1>2, <1>3, <1>4
    <2>2. \A i \in 1..(L - to) : a + i - 1 = to + i
      BY <1>2, <1>3, <1>4
    <2> HIDE DEF a, L
    <2>3. /\ tail \in Seq(STRING) /\ Len(tail) = IF a <= L THEN L - a + 1 ELSE 0
          /\ \A i \in 1..Len(tail) : tail[i] = raw[a + i - 1]
      BY <1>2, <2>1, PartOf DEF a
    <2> HIDE DEF tail, to
    <2> QED
      BY <2>1, <2>2, <2>3
  <1>9. Blank(tail)
    OBVIOUS
  <1>10. \A i \in 1..L : InBlock(raw, i) <=> from <= i /\ i <= to
    <2> SUFFICES ASSUME NEW i \in 1..L PROVE InBlock(raw, i) <=> from <= i /\ i <= to
      OBVIOUS
    <2>1. from <= i /\ i <= to => InBlock(raw, i)
      BY <1>2 DEF InBlock
    <2>2. ASSUME InBlock(raw, i) PROVE from <= i /\ i <= to
      <3>1. PICK b \in DOMAIN blocks : blocks[b].from <= i /\ i <= blocks[b].to
        BY <2>2 DEF InBlock
      <3>2. CASE b = 1
        BY <3>1, <3>2
      <3>3. CASE b # 1
        <4> DEFINE p == blocks[b].from
        <4>1. p \in Nat /\ to < p /\ MarkerAt(raw, p)
          BY <1>4, <3>3
        <4>2. raw[p] = "<" /\ p \in 1..L
          BY <4>1 DEF MarkerAt
        <4> HIDE DEF p, blocks, from, L, tail
        <4>3. p - to \in 1..(L - to) /\ to + (p - to) = p
          BY <1>2, <1>3, <4>1, <4>2
        <4>4. tail[p - to] = "<"
          BY <1>8, <4>2, <4>3
        <4>5. tail[p - to] = "s"
          <5>1. DOMAIN tail = 1..(L - to)
            BY <1>8
          <5> QED
            BY <1>9, <4>3, <5>1 DEF Blank
        <4> QED
          BY <4>4, <4>5
      <3> QED
        BY <3>2, <3>3
    <2> QED
      BY <2>1, <2>2
  <1> DEFINE pieces == Outside(raw)
             first == SubSeq(pieces, 1, to)
             one == SubSeq(first, 1, n)
             two == SubSeq(first, n + 1, to)
             three == SubSeq(pieces, to + 1, L)
             Q == Seq(STRING)
  <1>11. /\ pieces \in Seq(Q) /\ Len(pieces) = L
         /\ \A i \in 1..L : pieces[i] = IF InBlock(raw, i) THEN <<>> ELSE <<raw[i]>>
    <2>1. Range(raw) \subseteq STRING
      BY DEF Range
    <2> QED
      BY <2>1, OutsideOf
  <1> HIDE DEF pieces, blocks, from, to, L, head, tail, n, Q
  <1>12. pieces = first \o three
    <2>1. SubSeq(pieces, 1, L) = pieces
      BY <1>11, WholePart
    <2>2. SubSeq(pieces, 1, L) = first \o three
      <3>1. /\ pieces \in Seq(Q) /\ to \in Nat /\ L \in Nat /\ to <= L /\ L <= Len(pieces)
        BY <1>2, <1>3, <1>4, <1>11
      <3> QED
        BY <3>1, PartsJoined
    <2> QED
      BY <2>1, <2>2
  <1>13. /\ first \in Seq(Q) /\ Len(first) = to
         /\ \A i \in 1..to : first[i] = pieces[i]
    <2>1. /\ first \in Seq(Q) /\ Len(first) = IF 1 <= to THEN to - 1 + 1 ELSE 0
          /\ \A i \in 1..Len(first) : first[i] = pieces[1 + i - 1]
      BY <1>3, <1>4, <1>11, PartOf
    <2>2. Len(first) = to /\ \A i \in 1..to : 1 + i - 1 = i
      BY <1>3, <2>1
    <2> HIDE DEF first
    <2> QED
      BY <2>1, <2>2
  <1>14. /\ three \in Seq(Q) /\ Len(three) = L - to
         /\ \A i \in 1..(L - to) : three[i] = pieces[to + i]
    <2> DEFINE a == to + 1
    <2>1. a \in Nat /\ a # 0 /\ L <= Len(pieces) /\ (IF a <= L THEN (L - a) + 1 ELSE 0) = L - to
      BY <1>2, <1>3, <1>4, <1>11
    <2>2. \A i \in 1..(L - to) : a + i - 1 = to + i
      BY <1>2, <1>3, <1>4
    <2> HIDE DEF a
    <2>3. /\ three \in Seq(Q) /\ Len(three) = IF a <= L THEN L - a + 1 ELSE 0
          /\ \A i \in 1..Len(three) : three[i] = pieces[a + i - 1]
      BY <1>2, <1>11, <2>1, PartOf DEF a
    <2> HIDE DEF three
    <2> QED
      BY <2>1, <2>2, <2>3
  <1> HIDE DEF first, three
  <1>15. first = one \o two
    <2>1. SubSeq(first, 1, to) = first
      BY <1>13, WholePart
    <2>2. SubSeq(first, 1, to) = one \o two
      BY <1>3, <1>5, <1>13, PartsJoined
    <2> QED
      BY <2>1, <2>2
  <1>16. /\ one \in Seq(Q) /\ Len(one) = n
         /\ \A i \in 1..n : one[i] = <<head[i]>>
    <2>1. /\ one \in Seq(Q) /\ Len(one) = IF 1 <= n THEN n - 1 + 1 ELSE 0
          /\ \A i \in 1..Len(one) : one[i] = first[1 + i - 1]
      BY <1>5, <1>13, PartOf
    <2>2. Len(one) = n /\ \A i \in 1..n : 1 + i - 1 = i
      BY <1>5, <2>1
    <2> HIDE DEF one
    <2>3. ASSUME NEW i \in 1..n PROVE one[i] = <<head[i]>>
      <3>1. i \in 1..to /\ i \in 1..L /\ ~(from <= i)
        BY <1>2, <1>3, <1>5
      <3>2. one[i] = first[i] /\ first[i] = pieces[i]
        BY <1>13, <2>1, <2>2, <3>1
      <3>3. pieces[i] = <<raw[i]>>
        BY <1>10, <1>11, <3>1
      <3> QED
        BY <1>7, <3>2, <3>3
    <2> QED
      BY <2>1, <2>2, <2>3
  <1>17. /\ two \in Seq(Q)
         /\ \A i \in 1..Len(two) : two[i] = <<>>
    <2> DEFINE a == n + 1
    <2>1. a \in Nat /\ a # 0 /\ to \in Nat /\ to <= Len(first) /\ a = from
      BY <1>3, <1>5, <1>13
    <2> HIDE DEF a
    <2>2. /\ two \in Seq(Q)
          /\ \A i \in 1..Len(two) : a + i - 1 \in 1..Len(first) /\ two[i] = first[a + i - 1]
      BY <1>13, <2>1, PartOf DEF a
    <2> HIDE DEF two
    <2>3. ASSUME NEW i \in 1..Len(two) PROVE two[i] = <<>>
      <3> DEFINE k == a + i - 1
      <3>1. k \in 1..to /\ two[i] = first[k]
        BY <1>13, <2>2
      <3>2. from <= k
        <4>1. Len(two) \in Nat
          BY <2>2
        <4> QED
          BY <1>3, <2>1, <4>1
      <3> HIDE DEF k
      <3>3. k \in 1..L /\ k <= to
        BY <1>2, <1>3, <1>4, <3>1
      <3>4. pieces[k] = <<>>
        BY <1>10, <1>11, <3>2, <3>3
      <3> QED
        BY <1>13, <3>1, <3>4
    <2> QED
      BY <2>2, <2>3
  <1>18. \A i \in 1..(L - to) : three[i] = <<tail[i]>>
    <2> SUFFICES ASSUME NEW i \in 1..(L - to) PROVE three[i] = <<tail[i]>>
      OBVIOUS
    <2>1. to + i \in 1..L /\ ~(to + i <= to)
      BY <1>2, <1>3, <1>4
    <2>2. pieces[to + i] = <<raw[to + i]>>
      BY <1>10, <1>11, <2>1
    <2> QED
      BY <1>8, <1>14, <2>2
  <1> HIDE DEF one, two
  <1>19. FlattenSeq(pieces) = head \o tail
    <2>1. FlattenSeq(one) = head
      BY <1>7, <1>16, SinglesJoined DEF Q
    <2>2. FlattenSeq(two) = <<>>
      BY <1>17, NothingJoined DEF Q
    <2>3. FlattenSeq(three) = tail
      BY <1>8, <1>14, <1>18, SinglesJoined DEF Q
    <2>4. FlattenSeq(one \o two) = FlattenSeq(one) \o FlattenSeq(two)
      BY <1>16, <1>17, FlattenJoined DEF Q
    <2>5. FlattenSeq(first \o three) = FlattenSeq(first) \o FlattenSeq(three)
      BY <1>13, <1>14, FlattenJoined DEF Q
    <2>6. head \o <<>> = head
      BY <1>7
    <2> QED
      BY <1>12, <1>15, <2>1, <2>2, <2>3, <2>4, <2>5, <2>6
  <1>20. Prose(raw) = Strip(head)
    <2>1. Strip(head \o tail) = Strip(head)
      BY <1>7, <1>8, <1>9, StripTail
    <2> QED
      BY <1>19, <2>1 DEF Prose, pieces
  <1>21. Prose(head) = Strip(head)
    <2>1. ASSUME NEW i \in Nat, MarkerAt(head, i) PROVE FALSE
      <3>1. /\ i \in 1..n /\ i + 2 \in 1..n
            /\ head[i] = "<" /\ head[i + 1] = "<" /\ head[i + 2] = "C"
        BY <1>7, <2>1 DEF MarkerAt
      <3>2. i + 1 \in 1..n /\ i \in 1..L /\ i + 2 \in 1..L /\ i < from
        BY <1>2, <1>5, <3>1
      <3>3. raw[i] = "<" /\ raw[i + 1] = "<" /\ raw[i + 2] = "C"
        BY <1>7, <3>1, <3>2
      <3>4. MarkerAt(raw, i)
        BY <3>2, <3>3 DEF MarkerAt, L
      <3> QED
        BY <1>3, <1>4, <3>2, <3>4
    <2>2. CitationBlocks(head) = <<>>
      BY <1>7, <2>1, NoBlocks
    <2>3. \A i : ~InBlock(head, i)
      BY <2>2 DEF InBlock
    <2>4. /\ Outside(head) \in Seq(Q) /\ Len(Outside(head)) = Len(head)
          /\ \A i \in 1..Len(head) : Outside(head)[i] = <<head[i]>>
      <3>1. Range(head) \subseteq STRING
        BY <1>7 DEF Range
      <3> QED
        BY <1>7, <2>3, <3>1, OutsideOf DEF Q
    <2>5. FlattenSeq(Outside(head)) = head
      BY <1>7, <2>4, SinglesJoined DEF Q
    <2> QED
      BY <2>5 DEF Prose
  <1>22. Cleaned(raw) = Cleaned(head)
    BY <1>7, <1>20, <1>21, CleanedOf
  <1> QED
    BY <1>6, <1>22

-----------------------------------------------------------------------------
(* The evidence *)

(* The chunks in scope, as the SQL rows have them. *)
SavedIn(scope) == {Candidate(c, "saved") : c \in scope}

(* Each of them is as it is saved. *)
LEMMA SavedAre ==
    ASSUME NEW scope, NEW v \in SavedIn(scope)
    PROVE  v.chunk \in scope /\ v = Candidate(v.chunk, "saved") /\ v.copy = "saved"
  BY DEF SavedIn, Candidate

(* A short list is a list. *)
LEMMA BoundedIn ==
    ASSUME NEW S, NEW n \in Nat, NEW list \in BoundedSeq(S, n)
    PROVE  list \in Seq(S)
  <1>1. PICK m \in 0..n : list \in [1..m -> S]
    BY DEF BoundedSeq, SeqOf
  <1> QED
    BY <1>1

(* A list has finitely many elements. *)
LEMMA RangeFinite ==
    ASSUME NEW S, NEW list \in Seq(S)
    PROVE  IsFiniteSet(Range(list))
  <1> DEFINE N == Len(list)
             T == Range(list)
  <1>1. N \in Nat /\ list \in [1..N -> S] /\ DOMAIN list = 1..N
    OBVIOUS
  <1>2. \A t \in T : \E i \in 1..N : list[i] = t
    BY <1>1 DEF Range
  <1>3. \A i \in 1..N : list[i] \in T
    BY <1>1 DEF Range
  <1> HIDE DEF N, T
  <1>4. list \in [1..N -> T]
    BY <1>1, <1>3
  <1>5. list \in Surjection(1..N, T)
    BY <1>2, <1>4 DEF Surjection
  <1>6. IsFiniteSet(1..N)
    BY <1>1, FS_Interval
  <1> QED
    BY <1>5, <1>6, FS_Surjection DEF T

(* Products and sums of numbers. *)
LEMMA Multiplied == ASSUME NEW a \in Nat, NEW b \in Nat PROVE a * b \in Nat
  OBVIOUS

(* The share of a rank is a number, whatever CandidateK is. *)
LEMMA ShareOf ==
    ASSUME NEW rank
    PROVE  Share(rank) \in Nat
  <1> DEFINE N == CandidateK
             list == [r \in 1..CandidateK |-> r]
             Times(product, r) == IF r = rank THEN product ELSE product * (RankConstant + r)
             g == [v \in Nat \X (1..N) |-> Times(v[1], v[2])]
  <1>1. N \in Nat /\ DOMAIN list = 1..N /\ \A k \in 1..N : list[k] = k
    BY AnsweringAssumption
  <1>2. ASSUME NEW product \in Nat, NEW r \in 1..N
        PROVE  Times(product, r) \in Nat /\ g[<<product, r>>] = Times(product, r)
    <2>1. RankConstant + r \in Nat
      BY <1>1, AnsweringAssumption
    <2>2. product * (RankConstant + r) \in Nat
      BY <2>1, Multiplied
    <2> QED
      BY <2>2
  <1>3. IsStep(g, Nat, N)
    <2>1. \A v \in Nat \X (1..N) : Times(v[1], v[2]) \in Nat
      <3> HIDE DEF Times, N
      <3> QED
        BY <1>2
    <2> HIDE DEF Times, N
    <2> QED
      BY <2>1 DEF IsStep
  <1> HIDE DEF N, g, list
  <1>4. PICK it : IsFold(it, g, 1, Nat, N)
    BY <1>1, <1>3, FoldExists
  <1> DEFINE P == SUBSET (1..N)
             Fits(w) == w = [s \in P |-> IF s = {} THEN 1
                                         ELSE Times(w[s \ {Max(s)}], list[Max(s)])]
             c == CHOOSE w : Fits(w)
  <1>5. Fits(it)
    <2>1. it = [s \in P |-> IF s = {} THEN 1 ELSE g[<<it[s \ {Max(s)}], Max(s)>>]]
      BY <1>4 DEF IsFold
    <2>2. ASSUME NEW s \in P, s # {}
          PROVE  g[<<it[s \ {Max(s)}], Max(s)>>] = Times(it[s \ {Max(s)}], list[Max(s)])
      <3>1. Max(s) \in 1..N /\ it[s \ {Max(s)}] \in Nat
        BY <1>1, <1>4, <2>2, FoldArguments
      <3> HIDE DEF Times
      <3> QED
        BY <1>1, <1>2, <3>1
    <2> HIDE DEF P, Times
    <2> QED
      BY <2>1, <2>2
  <1>6. Fits(c)
    <2> HIDE DEF Fits
    <2> QED
      BY <1>5, Zenon
  <1>7. Share(rank) = c[1..N]
    BY <1>1, Zenon DEF Share, FoldLeft, MapThenFoldSet, list, N
  <1> HIDE DEF c, Times
  <1>8. c[{}] = 1
    BY <1>6
  <1>9. ASSUME NEW k \in 1..N, c[1..(k - 1)] \in Nat PROVE c[1..k] = g[<<c[1..(k - 1)], k>>]
    <2>1. k \in Nat /\ k # 0 /\ 1..k \in P
      BY <1>1
    <2>2. Max(1..k) = k /\ (1..k) \ {k} = 1..(k - 1) /\ 1..k # {}
      BY <2>1, UpTo
    <2>3. c[1..k] = Times(c[1..(k - 1)], k)
      <3>1. c[1..k] = Times(c[(1..k) \ {Max(1..k)}], list[Max(1..k)])
        BY <1>6, <2>1, <2>2
      <3> QED
        BY <1>1, <2>2, <3>1
    <2> QED
      BY <1>2, <1>9, <2>3
  <1> HIDE DEF Fits, P
  <1>10. PICK f : IsPath(f, g, 1, Nat, N) /\ c[1..N] = f[N]
    <2> DEFINE V == Nat
               b == 1
    <2>1. /\ IsStep(g, V, N) /\ b \in V /\ c[{}] = b
          /\ \A k \in 1..N : c[1..(k - 1)] \in V => c[1..k] = g[<<c[1..(k - 1)], k>>]
      BY <1>3, <1>8, <1>9
    <2> HIDE DEF V, b
    <2>2. \E f : IsPath(f, g, b, V, N) /\ c[1..N] = f[N]
      BY <1>1, <2>1, FoldPath
    <2> QED
      BY <2>2 DEF V, b
  <1>11. f[N] \in Nat
    BY <1>1, <1>10 DEF IsPath
  <1> QED
    BY <1>7, <1>10, <1>11

(* And so is the score of a chunk. *)
LEMMA ScoreOf ==
    ASSUME NEW S, NEW lexical \in Seq(S), NEW dense \in Seq(S), NEW c
    PROVE  Score(lexical, dense, c) \in Nat
  <1>1. ASSUME NEW ranking \in Seq(S) PROVE Shares(ranking, c) \in Nat
    <2> DEFINE N == Len(ranking)
               list == [r \in DOMAIN ranking |-> IF ranking[r].chunk = c THEN Share(r) ELSE 0]
    <2>1. N \in Nat /\ DOMAIN ranking = 1..N
      OBVIOUS
    <2>2. \A r \in 1..N : (IF ranking[r].chunk = c THEN Share(r) ELSE 0) \in Nat
      BY ShareOf
    <2>3. list \in Seq(Nat)
      <3> HIDE DEF N
      <3> QED
        BY <2>1, <2>2
    <2>4. Shares(ranking, c) = SumOf(list)
      BY DEF Shares
    <2> HIDE DEF list
    <2>5. PICK f : IsSums(f, list) /\ SumOf(list) = f[Len(list)]
      BY <2>3, SumPath
    <2>6. f[Len(list)] \in Nat
      <3>1. f \in [0..Len(list) -> Nat]
        BY <2>5 DEF IsSums
      <3>2. Len(list) \in 0..Len(list)
        BY <2>3
      <3> QED
        BY <3>1, <3>2
    <2> QED
      BY <2>4, <2>5, <2>6
  <1>2. LexicalWeight \in Nat /\ DenseWeight \in Nat
    BY AnsweringAssumption
  <1>3. LexicalWeight * Shares(lexical, c) \in Nat /\ DenseWeight * Shares(dense, c) \in Nat
    BY <1>1, <1>2, Multiplied
  <1> HIDE DEF Shares
  <1> QED
    BY <1>3 DEF Score

(* Qdrant's points, taken as the rows have their chunks. *)
LEMMA ScopedOf ==
    ASSUME NEW scope, NEW S, NEW points \in Seq(S)
    PROVE  Scoped(points, scope) \in Seq(SavedIn(scope))
  <1> DEFINE good == {p \in Range(points) : p.chunk \in scope}
             inside == Kept(points, good)
  <1>1. Scoped(points, scope) = [i \in DOMAIN inside |-> Candidate(inside[i].chunk, "saved")]
    BY DEF Scoped
  <1>2. \A p \in good : Candidate(p.chunk, "saved") \in SavedIn(scope)
    BY DEF SavedIn
  <1> HIDE DEF good, inside
  <1>3. inside \in Seq(S) /\ \E at : IsKept(at, inside, points, good)
    BY KeptOf DEF inside
  <1>4. \A i \in 1..Len(inside) : inside[i] \in good
    BY <1>3 DEF IsKept
  <1>5. DOMAIN inside = 1..Len(inside) /\ Len(inside) \in Nat
    BY <1>3
  <1>6. \A i \in 1..Len(inside) : Candidate(inside[i].chunk, "saved") \in SavedIn(scope)
    BY <1>2, <1>4
  <1> HIDE DEF Candidate
  <1> QED
    BY <1>1, <1>5, <1>6

(* The beginning of a list in which nothing is twice. *)
LEMMA TopOf ==
    ASSUME NEW S, NEW list \in Seq(S), IsInjective(list), NEW k \in Nat
    PROVE  LET top == SubSeq(list, 1, Min({k, Len(list)}))
           IN top \in Seq(S) /\ IsInjective(top)
  <1> DEFINE m == Min({k, Len(list)})
             top == SubSeq(list, 1, m)
  <1>1. m \in Nat /\ m <= Len(list)
    <2>1. {k, Len(list)} \in SUBSET Nat /\ {k, Len(list)} # {}
      OBVIOUS
    <2>2. m \in {k, Len(list)} /\ \A i \in {k, Len(list)} : m <= i
      BY <2>1, MinOf
    <2> HIDE DEF m
    <2> QED
      BY <2>2
  <1> HIDE DEF m
  <1>2. /\ top \in Seq(S) /\ Len(top) = m
        /\ \A i \in 1..m : i \in 1..Len(list) /\ top[i] = list[i]
    BY <1>1
  <1> HIDE DEF top
  <1>3. DOMAIN top = 1..m /\ DOMAIN list = 1..Len(list)
    BY <1>2
  <1>4. IsInjective(top)
    BY <1>2, <1>3 DEF IsInjective
  <1> QED
    BY <1>2, <1>4 DEF top, m

(* Reciprocal rank fusion keeps candidates as they are, each chunk once. *)
LEMMA FuseOf ==
    ASSUME NEW scope \in SUBSET ChunkIds,
           NEW lexical \in Seq(SavedIn(scope)), NEW dense \in Seq(SavedIn(scope))
    PROVE  Fuse(lexical, dense) \in Seq(SavedIn(scope)) /\ IsInjective(Fuse(lexical, dense))
  <1> DEFINE S == SavedIn(scope)
             all == lexical \o dense
             First(c) == all[Min({i \in DOMAIN all : all[i].chunk = c})]
             fused == {First(all[i].chunk) : i \in DOMAIN all}
             Of(candidate) == Score(lexical, dense, candidate.chunk)
             ahead == {p \in fused \X fused :
                         \/ Of(p[1]) > Of(p[2])
                         \/ Of(p[1]) = Of(p[2]) /\ p[1].chunk < p[2].chunk}
             sorted == Ranked(fused, ahead)
  <1>1. Fuse(lexical, dense) = SubSeq(sorted, 1, Min({CandidateK, Len(sorted)}))
    BY DEF Fuse
  <1>2. all \in Seq(S)
    OBVIOUS
  <1>3. \A v \in S : Of(v) \in Nat
    BY ScoreOf
  <1>4. \A v \in S : v.chunk \in Nat /\ v = Candidate(v.chunk, "saved")
    <2>1. scope \subseteq Nat
      BY WordsAssumption DEF ChunkIds
    <2> QED
      BY <2>1, SavedAre
  <1> HIDE DEF all, S
  <1>5. ASSUME NEW i \in DOMAIN all PROVE First(all[i].chunk) = all[i]
    <2> DEFINE same == {k \in DOMAIN all : all[k].chunk = all[i].chunk}
    <2>1. same \in SUBSET Nat /\ same # {}
      <3>1. DOMAIN all \subseteq Nat
        BY <1>2
      <3> QED
        BY <3>1
    <2>2. Min(same) \in same
      BY <2>1, MinOf
    <2> DEFINE k == Min(same)
    <2>3. k \in DOMAIN all /\ all[k].chunk = all[i].chunk
      BY <2>2
    <2>4. First(all[i].chunk) = all[k]
      OBVIOUS
    <2> HIDE DEF k, same, First
    <2>5. all[k] \in S /\ all[i] \in S
      BY <1>2, <2>3
    <2> QED
      BY <1>4, <2>3, <2>4, <2>5
  <1> HIDE DEF First
  <1>6. fused = Range(all)
    BY <1>5 DEF Range
  <1>7. fused \subseteq S /\ IsFiniteSet(fused)
    <2>1. Range(all) \subseteq S
      BY <1>2 DEF Range
    <2>2. IsFiniteSet(Range(all))
      BY <1>2, RangeFinite
    <2> QED
      BY <1>6, <2>1, <2>2
  <1> HIDE DEF fused, Of
  <1>8. \A u, v \in fused : <<u, v>> \in ahead <=>
          \/ Of(u) > Of(v)
          \/ Of(u) = Of(v) /\ u.chunk < v.chunk
    OBVIOUS
  <1>9. \A v \in fused : Of(v) \in Nat /\ v.chunk \in Nat
    BY <1>3, <1>4, <1>7
  <1>10. \A u, v \in fused : u.chunk = v.chunk => u = v
    BY <1>4, <1>7
  <1> HIDE DEF ahead
  <1>11. \A v \in fused : <<v, v>> \notin ahead
    BY <1>8, <1>9
  <1>12. \A u, v, w \in fused :
           <<u, v>> \in ahead /\ <<v, w>> \in ahead => <<u, w>> \in ahead
    BY <1>8, <1>9
  <1>13. \A u, v \in fused : u # v => <<u, v>> \in ahead \/ <<v, u>> \in ahead
    BY <1>8, <1>9, <1>10
  <1>14. /\ sorted \in Seq(fused) /\ Len(sorted) = Cardinality(fused)
         /\ \A i, j \in 1..Cardinality(fused) : sorted[i] = sorted[j] => i = j
    BY <1>7, <1>11, <1>12, <1>13, RankedOf
  <1> HIDE DEF sorted
  <1>15. sorted \in Seq(S) /\ IsInjective(sorted)
    <2>1. DOMAIN sorted = 1..Cardinality(fused)
      BY <1>14
    <2>2. IsInjective(sorted)
      BY <1>14, <2>1 DEF IsInjective
    <2>3. sorted \in Seq(S)
      BY <1>7, <1>14
    <2> QED
      BY <2>2, <2>3
  <1>16. CandidateK \in Nat
    BY AnsweringAssumption
  <1> QED
    BY <1>1, <1>15, <1>16, TopOf DEF S

(* What the evidence is at every time: chunks in scope, each once, as SQL has *)
(* them.                                                                      *)
EvidenceRight ==
    /\ inScope \in SUBSET ChunkIds
    /\ evidence \in Seq(SavedIn(inScope))
    /\ IsInjective(evidence)

(* The reranker's rows only choose among it. *)
LEMMA RerankedOf ==
    ASSUME EvidenceRight, NEW rows \in RerankRows, RowsValid(rows)
    PROVE  Reranked(rows) \in Seq(SavedIn(inScope)) /\ IsInjective(Reranked(rows))
  <1> DEFINE Line == [index : 1..(Len(evidence) + 1), score : 1..2]
             S == SavedIn(inScope)
             scored == Range(rows)
             ahead == {p \in scored \X scored :
                         \/ p[1].score > p[2].score
                         \/ /\ p[1].score = p[2].score
                            /\ evidence[p[1].index].chunk < evidence[p[2].index].chunk}
             sorted == Ranked(scored, ahead)
             At(v) == evidence[v.index].chunk
  <1>1. evidence \in Seq(S) /\ IsInjective(evidence) /\ Len(evidence) \in Nat
    BY DEF EvidenceRight
  <1>2. Reranked(rows) = [i \in 1..Min({AnswerK, Len(sorted)}) |-> evidence[sorted[i].index]]
    BY DEF Reranked
  <1>3. rows \in Seq(Line)
    <2> HIDE DEF Line
    <2> QED
      BY <1>1, BoundedIn DEF RerankRows, Line
  <1>4. \A v \in S : v.chunk \in Nat /\ v = Candidate(v.chunk, "saved")
    <2>1. inScope \subseteq Nat
      BY WordsAssumption DEF ChunkIds, EvidenceRight
    <2> QED
      BY <2>1, SavedAre
  <1> HIDE DEF S, Line
  <1>5. IsFiniteSet(scored) /\ scored \subseteq Line
    <2>1. Range(rows) \subseteq Line
      BY <1>3 DEF Range
    <2> QED
      BY <1>3, <2>1, RangeFinite
  <1>6. \A v \in scored : v.index \in DOMAIN evidence /\ v.score \in Nat
    <2>1. \A v \in scored : v.score \in Nat
      BY <1>5 DEF Line
    <2>2. \A v \in scored : v.index \in DOMAIN evidence
      BY DEF Range, RowsValid
    <2> QED
      BY <2>1, <2>2
  <1>7. \A u, v \in scored : u.index = v.index => u = v
    BY DEF Range, RowsValid
  <1>8. \A v \in scored : At(v) \in Nat /\ evidence[v.index] \in S
    BY <1>1, <1>4, <1>6
  <1>9. \A u, v \in scored : At(u) = At(v) => u = v
    <2> SUFFICES ASSUME NEW u \in scored, NEW v \in scored, At(u) = At(v) PROVE u = v
      OBVIOUS
    <2>1. evidence[u.index] = evidence[v.index]
      BY <1>4, <1>8
    <2>2. u.index = v.index
      BY <1>1, <1>6, <2>1 DEF IsInjective
    <2> QED
      BY <1>7, <2>2
  <1>10. \A u, v \in scored : <<u, v>> \in ahead <=>
           \/ u.score > v.score
           \/ u.score = v.score /\ At(u) < At(v)
    OBVIOUS
  <1> HIDE DEF ahead, scored, At
  <1>11. \A v \in scored : <<v, v>> \notin ahead
    BY <1>6, <1>8, <1>10
  <1>12. \A u, v, w \in scored :
           <<u, v>> \in ahead /\ <<v, w>> \in ahead => <<u, w>> \in ahead
    BY <1>6, <1>8, <1>10
  <1>13. \A u, v \in scored : u # v => <<u, v>> \in ahead \/ <<v, u>> \in ahead
    BY <1>6, <1>8, <1>9, <1>10
  <1>14. /\ sorted \in Seq(scored) /\ Len(sorted) = Cardinality(scored)
         /\ \A i, j \in 1..Cardinality(scored) : sorted[i] = sorted[j] => i = j
    BY <1>5, <1>11, <1>12, <1>13, RankedOf
  <1> DEFINE m == Min({AnswerK, Len(sorted)})
  <1>15. m \in Nat /\ m <= Len(sorted)
    <2>1. AnswerK \in Nat /\ Len(sorted) \in Nat
      BY <1>14, AnsweringAssumption
    <2>2. {AnswerK, Len(sorted)} \in SUBSET Nat /\ {AnswerK, Len(sorted)} # {}
      BY <2>1
    <2>3. m \in {AnswerK, Len(sorted)} /\ \A i \in {AnswerK, Len(sorted)} : m <= i
      BY <2>2, MinOf
    <2> HIDE DEF m, sorted
    <2> QED
      BY <2>1, <2>3
  <1> HIDE DEF m, sorted
  <1>16. \A i \in 1..m : i \in 1..Cardinality(scored) /\ sorted[i] \in scored
    BY <1>14, <1>15
  <1> DEFINE top == [i \in 1..m |-> evidence[sorted[i].index]]
  <1>17. top \in Seq(S)
    <2>1. \A i \in 1..m : evidence[sorted[i].index] \in S
      BY <1>8, <1>16
    <2> QED
      BY <1>15, <2>1
  <1>18. IsInjective(top)
    <2> SUFFICES ASSUME NEW i \in 1..m, NEW j \in 1..m,
                        evidence[sorted[i].index] = evidence[sorted[j].index]
                 PROVE  i = j
      BY DEF IsInjective
    <2>1. sorted[i].index = sorted[j].index
      BY <1>1, <1>6, <1>16 DEF IsInjective
    <2>2. sorted[i] = sorted[j]
      BY <1>7, <1>16, <2>1
    <2> QED
      BY <1>14, <1>16, <2>2
  <1>19. Reranked(rows) = top
    BY <1>2 DEF m
  <1> HIDE DEF top
  <1> QED
    BY <1>17, <1>18, <1>19 DEF S

-----------------------------------------------------------------------------
(* The citations *)

(* The words in which a chunk is written are its own. *)
LEMMA WordsOf ==
    /\ Ids \in [ChunkIds -> STRING] /\ References \in [ChunkIds -> STRING]
    /\ Fences \in [ChunkIds -> STRING] /\ ChunkReferences \in [ChunkIds -> STRING]
    /\ \A c \in ChunkIds : References[c] \notin Words /\ ChunkReferences[c] \notin Words
    /\ \A c, d \in ChunkIds :
         /\ References[c] = References[d] => c = d
         /\ Fences[c] = Fences[d] => c = d
         /\ ChunkReferences[c] = ChunkReferences[d] => c = d
         /\ ChunkReferences[c] # References[d]
  <1> DEFINE words == <<Ids, References, Fences, ChunkReferences>>
  <1>1. /\ \A v \in 1..4 : words[v] \in [ChunkIds -> STRING \ Words]
        /\ \A v, w \in 1..4 : \A c, d \in ChunkIds : words[v][c] = words[w][d] => v = w /\ c = d
    BY WordsAssumption
  <1>2. words[1] = Ids /\ words[2] = References /\ words[3] = Fences /\ words[4] = ChunkReferences
    OBVIOUS
  <1>3. 1 \in 1..4 /\ 2 \in 1..4 /\ 3 \in 1..4 /\ 4 \in 1..4
    OBVIOUS
  <1> HIDE DEF words
  <1>4. /\ Ids \in [ChunkIds -> STRING \ Words] /\ References \in [ChunkIds -> STRING \ Words]
        /\ Fences \in [ChunkIds -> STRING \ Words]
        /\ ChunkReferences \in [ChunkIds -> STRING \ Words]
    BY <1>1, <1>2, <1>3
  <1>5. \A c, d \in ChunkIds : References[c] = References[d] => c = d
    BY <1>1, <1>2, <1>3
  <1>6. \A c, d \in ChunkIds : Fences[c] = Fences[d] => c = d
    BY <1>1, <1>2, <1>3
  <1>7. \A c, d \in ChunkIds : ChunkReferences[c] = ChunkReferences[d] => c = d
    BY <1>1, <1>2, <1>3
  <1>8. \A c, d \in ChunkIds : ChunkReferences[c] # References[d]
    <2> SUFFICES ASSUME NEW c \in ChunkIds, NEW d \in ChunkIds,
                        words[4][c] = words[2][d]
                 PROVE  FALSE
      BY <1>2
    <2>1. 4 = 2
      BY <1>1, <1>3
    <2> QED
      BY <2>1
  <1>9. \A f : f \in [ChunkIds -> STRING \ Words] =>
          f \in [ChunkIds -> STRING] /\ \A c \in ChunkIds : f[c] \notin Words
    OBVIOUS
  <1> QED
    BY <1>4, <1>5, <1>6, <1>7, <1>8, <1>9

(* A word of a chunk is read as that chunk. *)
LEMMA ChunkRead ==
    ASSUME NEW words \in [ChunkIds -> STRING], NEW word, NEW c \in ChunkIds, words[c] = word
    PROVE  ChunkWith(words, word) \in ChunkIds /\ words[ChunkWith(words, word)] = word
  BY DEF ChunkWith

(* The payload is a list. *)
LEMMA PayloadOf ==
    ASSUME NEW raw \in Seq(STRING)
    PROVE  \E n \in Nat : DOMAIN PayloadIds(raw) = 1..n
  <1> DEFINE Q == Seq(STRING)
             blocks == CitationBlocks(raw)
             Inside(b) == Strip(SubSeq(raw, b.from + Len(StartMarker), b.to - Len(EndMarker)))
             fences == Kept(raw, Range(Fences))
             one == [b \in DOMAIN blocks |-> Inside(blocks[b])]
             two == [f \in DOMAIN fences |-> <<Ids[ChunkWith(Fences, fences[f])]>>]
             bodies == one \o two
             json == Kept(bodies, {body \in Range(bodies) :
                                     body # <<>> /\ Range(body) \subseteq Range(Ids) \cup {"{}"}})
             ids == IF json = <<>> THEN <<>> ELSE Kept(json[1], Range(Ids))
  <1>1. PayloadIds(raw) = [i \in DOMAIN ids |-> ChunkWith(Ids, ids[i])]
    BY DEF PayloadIds
  <1>2. blocks \in Seq(Markings) /\ BlocksTo(raw, blocks, Len(raw))
    BY BlocksOf
  <1>3. one \in Seq(Q)
    <2>1. DOMAIN blocks = 1..Len(blocks) /\ Len(blocks) \in Nat
      BY <1>2
    <2>2. ASSUME NEW b \in DOMAIN blocks PROVE Inside(blocks[b]) \in Q
      <3> DEFINE block == blocks[b]
                 p == block.from + 3
                 q == block.to - 3
      <3>1. block.from \in Nat /\ block.to \in Nat
        <4>1. block \in Markings
          BY <1>2
        <4> HIDE DEF block
        <4> QED
          BY <4>1 DEF Markings
      <3>2. block.from + 5 <= block.to /\ block.to <= Len(raw)
        BY <1>2 DEF BlocksTo
      <3> HIDE DEF block
      <3>3. p \in Nat /\ p # 0 /\ q \in Nat /\ q <= Len(raw)
        <4>1. Len(raw) \in Nat
          OBVIOUS
        <4> QED
          BY <3>1, <3>2, <4>1
      <3>4. Len(StartMarker) = 3 /\ Len(EndMarker) = 3
        BY DEF StartMarker, EndMarker
      <3>5. Inside(block) = Strip(SubSeq(raw, p, q))
        BY <3>4
      <3> HIDE DEF p, q, Inside
      <3>6. SubSeq(raw, p, q) \in Q
        BY <3>3, PartOf
      <3>7. Strip(SubSeq(raw, p, q)) \in Q
        BY <3>6, StripOf
      <3> QED
        BY <3>5, <3>7 DEF block
    <2> HIDE DEF blocks, Q, Inside
    <2> QED
      BY <2>1, <2>2
  <1>4. two \in Seq(Q)
    <2>1. fences \in Seq(STRING) /\ \E at : IsKept(at, fences, raw, Range(Fences))
      BY KeptOf
    <2>2. DOMAIN fences = 1..Len(fences) /\ Len(fences) \in Nat
      BY <2>1
    <2>3. ASSUME NEW f \in DOMAIN fences
          PROVE  <<Ids[ChunkWith(Fences, fences[f])]>> \in Q
      <3>1. fences[f] \in Range(Fences)
        BY <2>1, <2>2 DEF IsKept
      <3> HIDE DEF fences
      <3>2. PICK c \in ChunkIds : Fences[c] = fences[f]
        BY <3>1, WordsOf DEF Range
      <3>3. ChunkWith(Fences, fences[f]) \in ChunkIds
        BY <3>2, WordsOf, ChunkRead
      <3>4. Ids[ChunkWith(Fences, fences[f])] \in STRING
        BY <3>3, WordsOf
      <3> QED
        BY <3>4
    <2> HIDE DEF fences, Q
    <2> QED
      BY <2>2, <2>3
  <1> HIDE DEF one, two, Q
  <1>5. bodies \in Seq(Q)
    BY <1>3, <1>4
  <1> HIDE DEF bodies
  <1>6. json \in Seq(Q)
    BY <1>5, KeptOf
  <1> HIDE DEF json
  <1>7. json # <<>> => json[1] \in Q
    BY <1>6
  <1>8. json # <<>> => Kept(json[1], Range(Ids)) \in Q
    BY <1>7, KeptOf DEF Q
  <1>9. ids \in Seq(STRING)
    <2> DEFINE some == Kept(json[1], Range(Ids))
    <2>1. json # <<>> => some \in Seq(STRING)
      BY <1>8 DEF Q
    <2>2. ids = IF json = <<>> THEN <<>> ELSE some
      OBVIOUS
    <2>3. <<>> \in Seq(STRING)
      OBVIOUS
    <2> HIDE DEF some, ids
    <2> QED
      BY <2>1, <2>2, <2>3, Zenon
  <1> HIDE DEF ids
  <1>10. DOMAIN PayloadIds(raw) = 1..Len(ids) /\ Len(ids) \in Nat
    BY <1>1, <1>9
  <1> QED
    BY <1>10

(* What is asked for: the payload's chunks, or else those the text mentions. *)
Requested(raw) ==
    LET mentioned == Kept(evidence, {e \in Range(evidence) : References[e.chunk] \in Range(raw)})
        ids == PayloadIds(raw)
    IN IF ids # <<>> THEN ids ELSE [i \in DOMAIN mentioned |-> mentioned[i].chunk]

(* And what becomes of one of them. *)
AddTo(list, id) ==
    IF ~(id \in inScope /\ \E i \in DOMAIN evidence : evidence[i].chunk = id)
         \/ \E i \in DOMAIN list : list[i].chunk = id
    THEN list ELSE Append(list, Candidate(id, "saved"))

(* Citations: evidence, each once. *)
Cited ==
    {list \in Seq(SavedIn(inScope)) :
       /\ \A i \in DOMAIN list : list[i] \in Range(evidence)
       /\ \A i, j \in DOMAIN list : list[i] = list[j] => i = j}

(* Only evidence is added, and only once. *)
LEMMA AddKeeps ==
    ASSUME EvidenceRight, NEW list \in Cited, NEW id
    PROVE  AddTo(list, id) \in Cited
  <1> DEFINE S == SavedIn(inScope)
             v == Candidate(id, "saved")
             New == /\ id \in inScope /\ \E i \in DOMAIN evidence : evidence[i].chunk = id
                    /\ \A i \in DOMAIN list : list[i].chunk # id
  <1>1. AddTo(list, id) = IF New THEN Append(list, v) ELSE list
    BY DEF AddTo
  <1>2. CASE ~New
    BY <1>1, <1>2
  <1>3. CASE New
    <2>1. PICK k \in DOMAIN evidence : evidence[k].chunk = id
      BY <1>3
    <2>2. evidence[k] \in S
      BY <2>1 DEF EvidenceRight
    <2>3. evidence[k] = v /\ v \in S /\ v.chunk = id
      BY <2>1, <2>2, SavedAre DEF Candidate
    <2>4. v \in Range(evidence)
      BY <2>1, <2>3 DEF Range
    <2>5. /\ list \in Seq(S)
          /\ \A i \in DOMAIN list : list[i] \in Range(evidence)
          /\ \A i, j \in DOMAIN list : list[i] = list[j] => i = j
      BY DEF Cited
    <2>6. \A i \in DOMAIN list : list[i] # v
      BY <1>3, <2>3
    <2> HIDE DEF v, S, New
    <2> DEFINE n == Len(list)
               more == Append(list, v)
    <2>7. /\ more \in Seq(S) /\ DOMAIN more = 1..(n + 1) /\ more[n + 1] = v
          /\ \A i \in 1..n : more[i] = list[i]
          /\ n \in Nat /\ DOMAIN list = 1..n
      BY <2>3, <2>5
    <2> HIDE DEF more, n
    <2>8. \A i \in 1..(n + 1) : i \in 1..n \/ i = n + 1
      BY <2>7
    <2>9. \A i \in DOMAIN more : more[i] \in Range(evidence)
      BY <2>4, <2>5, <2>7, <2>8
    <2>10. \A i, j \in DOMAIN more : more[i] = more[j] => i = j
      BY <2>5, <2>6, <2>7, <2>8
    <2>11. more \in Cited
      BY <2>7, <2>9, <2>10 DEF Cited, S
    <2> QED
      BY <1>1, <1>3, <2>11 DEF more
  <1> QED
    BY <1>2, <1>3

(* So only evidence is cited, each chunk once. *)
LEMMA ParsedOf ==
    ASSUME EvidenceRight, NEW raw \in Seq(STRING)
    PROVE  ParsedCitations(raw) \in Cited
  <1> DEFINE requested == Requested(raw)
  <1>1. PICK N \in Nat : DOMAIN requested = 1..N
    <2> DEFINE mentioned == Kept(evidence, {e \in Range(evidence) :
                                              References[e.chunk] \in Range(raw)})
               chunks == [i \in DOMAIN mentioned |-> mentioned[i].chunk]
    <2>1. mentioned \in Seq(SavedIn(inScope))
      BY KeptOf DEF EvidenceRight
    <2> HIDE DEF mentioned
    <2>2. DOMAIN chunks = 1..Len(mentioned) /\ Len(mentioned) \in Nat
      BY <2>1
    <2> HIDE DEF chunks
    <2>3. requested = IF PayloadIds(raw) # <<>> THEN PayloadIds(raw) ELSE chunks
      BY DEF Requested, mentioned, chunks
    <2>4. PICK n \in Nat : DOMAIN PayloadIds(raw) = 1..n
      BY PayloadOf
    <2> HIDE DEF requested
    <2> QED
      BY <2>2, <2>3, <2>4
  <1> DEFINE V == Cited
             g == [w \in V \X (1..N) |-> AddTo(w[1], requested[w[2]])]
  <1>2. \A list \in V, k \in 1..N :
          /\ AddTo(list, requested[k]) \in V
          /\ g[<<list, k>>] = AddTo(list, requested[k])
    <2>1. \A list \in V, k \in 1..N : AddTo(list, requested[k]) \in V
      BY AddKeeps
    <2> HIDE DEF V
    <2> QED
      BY <2>1
  <1>3. IsStep(g, V, N)
    <2>1. \A w \in V \X (1..N) : AddTo(w[1], requested[w[2]]) \in V
      BY <1>2
    <2> HIDE DEF V
    <2> QED
      BY <2>1 DEF IsStep
  <1>4. <<>> \in V
    BY DEF Cited
  <1> HIDE DEF V, g, requested
  <1>5. PICK it : IsFold(it, g, <<>>, V, N)
    BY <1>3, <1>4, FoldExists
  <1> DEFINE P == SUBSET (1..N)
             Fits(w) == w = [s \in P |-> IF s = {} THEN <<>>
                                         ELSE AddTo(w[s \ {Max(s)}], requested[Max(s)])]
             c == CHOOSE w : Fits(w)
  <1>6. Fits(it)
    <2>1. it = [s \in P |-> IF s = {} THEN <<>> ELSE g[<<it[s \ {Max(s)}], Max(s)>>]]
      BY <1>5 DEF IsFold
    <2>2. ASSUME NEW s \in P, s # {}
          PROVE  g[<<it[s \ {Max(s)}], Max(s)>>] = AddTo(it[s \ {Max(s)}], requested[Max(s)])
      <3>1. Max(s) \in 1..N /\ it[s \ {Max(s)}] \in V
        BY <1>5, <2>2, FoldArguments
      <3> QED
        BY <1>2, <3>1
    <2> HIDE DEF P
    <2> QED
      BY <2>1, <2>2
  <1>7. Fits(c)
    <2> HIDE DEF Fits
    <2> QED
      BY <1>6, Zenon
  <1>8. ParsedCitations(raw) = c[1..N]
    BY <1>1, Zenon DEF ParsedCitations, FoldLeft, MapThenFoldSet, AddTo, Requested, requested
  <1> HIDE DEF c
  <1>9. c[{}] = <<>>
    BY <1>7
  <1>10. ASSUME NEW k \in 1..N, c[1..(k - 1)] \in V PROVE c[1..k] = g[<<c[1..(k - 1)], k>>]
    <2>1. k \in Nat /\ k # 0 /\ 1..k \in P
      OBVIOUS
    <2>2. Max(1..k) = k /\ (1..k) \ {k} = 1..(k - 1) /\ 1..k # {}
      BY <2>1, UpTo
    <2>3. c[1..k] = AddTo(c[1..(k - 1)], requested[k])
      <3>1. c[1..k] = AddTo(c[(1..k) \ {Max(1..k)}], requested[Max(1..k)])
        BY <1>7, <2>1, <2>2
      <3> QED
        BY <2>2, <3>1
    <2> QED
      BY <1>2, <1>10, <2>3
  <1> HIDE DEF Fits, P
  <1>11. PICK f : IsPath(f, g, <<>>, V, N) /\ c[1..N] = f[N]
    BY <1>3, <1>4, <1>9, <1>10, FoldPath
  <1>12. f[N] \in V
    BY <1>11 DEF IsPath
  <1> QED
    BY <1>8, <1>11, <1>12 DEF V

(* The answer links what is cited. *)
LEMMA LinkedOf ==
    ASSUME EvidenceRight, NEW cited \in Cited, NEW S, NEW string \in Seq(S),
           NEW i \in DOMAIN Linked(string, cited), NEW c \in ChunkIds
    PROVE  /\ Linked(string, cited)[i] = ChunkReferences[c] =>
                Candidate(c, "saved") \in Range(cited) \/ Linked(string, cited)[i] \in S
           /\ Linked(string, cited)[i] = References[c] => Candidate(c, "saved") \notin Range(cited)
  <1> DEFINE word == string[i]
             Here == \E k \in DOMAIN cited : word = References[cited[k].chunk]
             d == ChunkWith(References, word)
  <1>1. Linked(string, cited)[i] = IF Here THEN ChunkReferences[d] ELSE word
    BY DEF Linked
  <1>2. i \in DOMAIN string /\ word \in S
    BY DEF Linked
  <1>3. \A k \in DOMAIN cited : /\ cited[k].chunk \in ChunkIds
                                /\ cited[k] = Candidate(cited[k].chunk, "saved")
    <2>1. \A k \in DOMAIN cited : cited[k] \in SavedIn(inScope)
      BY DEF Cited
    <2> QED
      BY <2>1, SavedAre DEF EvidenceRight
  <1> HIDE DEF word, d
  <1>4. CASE Here
    <2>1. PICK k \in DOMAIN cited : word = References[cited[k].chunk]
      BY <1>4
    <2>2. d \in ChunkIds /\ References[d] = word
      BY <1>3, <2>1, WordsOf, ChunkRead DEF d
    <2>3. d = cited[k].chunk
      BY <1>3, <2>1, <2>2, WordsOf
    <2>4. Candidate(d, "saved") \in Range(cited)
      BY <1>3, <2>3 DEF Range
    <2>5. ChunkReferences[d] = ChunkReferences[c] => c = d
      BY <2>2, WordsOf
    <2>6. ChunkReferences[d] # References[c]
      BY <2>2, WordsOf
    <2> QED
      BY <1>1, <1>4, <2>4, <2>5, <2>6
  <1>5. CASE ~Here
    <2>1. ASSUME word = References[c], Candidate(c, "saved") \in Range(cited) PROVE FALSE
      <3>1. PICK k \in DOMAIN cited : cited[k] = Candidate(c, "saved")
        BY <2>1 DEF Range
      <3>2. cited[k].chunk = c
        BY <3>1 DEF Candidate
      <3> QED
        BY <1>5, <2>1, <3>2
    <2> QED
      BY <1>1, <1>2, <1>5, <2>1
  <1> QED
    BY <1>4, <1>5

-----------------------------------------------------------------------------
(* The theorem *)

(* An answer is the fixed one, or what the model wrote, with its citations. *)
AnsweredRight ==
    \/ citations = <<>> /\ answer = <<"no evidence">> /\ heard = 0
    \/ /\ citations \in Cited
       /\ answer = Linked(Cleaned(Heard), citations)
       /\ pending = <<>>

TraceInv ==
    /\ SplitInv
    /\ EvidenceRight
    /\ text = <<>> \/ text \in Generations
    /\ step = "answered" => AnsweredRight

(* The invariant holds at the beginning. *)
LEMMA TraceInit == AnsweringInit => TraceInv
  <1> SUFFICES ASSUME AnsweringInit PROVE TraceInv
    OBVIOUS
  <1>1. evidence \in Seq(SavedIn(inScope)) /\ IsInjective(evidence)
    BY DEF AnsweringInit, IsInjective
  <1> QED
    BY <1>1, SplitInit DEF AnsweringInit, TraceInv, EvidenceRight

(* Only candidates in scope are found. *)
LEMMA RetrieveTraces == ASSUME TraceInv, Retrieve PROVE EvidenceRight'
  <1>1. inScope' \in SUBSET ChunkIds
    BY DEF Retrieve
  <1>2. PICK lexical \in LexicalRankings(inScope'),
             points \in BoundedSeq([chunk : ChunkIds, copy : Copies], CandidateK) :
               evidence' = Fuse([i \in DOMAIN lexical |-> Candidate(lexical[i], "saved")],
                                Scoped(points, inScope'))
    BY DEF Retrieve
  <1> DEFINE scope == inScope'
             Points == [chunk : ChunkIds, copy : Copies]
             saved == [i \in DOMAIN lexical |-> Candidate(lexical[i], "saved")]
  <1>3. lexical \in BoundedSeq(scope, CandidateK) /\ CandidateK \in Nat
    BY AnsweringAssumption DEF LexicalRankings
  <1> HIDE DEF scope, Points
  <1>4. lexical \in Seq(scope)
    BY <1>3, BoundedIn
  <1>5. points \in Seq(Points)
    BY <1>3, BoundedIn DEF Points
  <1>6. saved \in Seq(SavedIn(scope))
    <2>1. \A i \in DOMAIN lexical : Candidate(lexical[i], "saved") \in SavedIn(scope)
      BY <1>4 DEF SavedIn
    <2>2. DOMAIN lexical = 1..Len(lexical) /\ Len(lexical) \in Nat
      BY <1>4
    <2> QED
      BY <2>1, <2>2
  <1>7. Scoped(points, scope) \in Seq(SavedIn(scope))
    BY <1>5, ScopedOf
  <1> DEFINE dense == Scoped(points, scope)
  <1> HIDE DEF saved, dense
  <1>8. scope \in SUBSET ChunkIds
    BY <1>1 DEF scope
  <1>9. Fuse(saved, dense) \in Seq(SavedIn(scope)) /\ IsInjective(Fuse(saved, dense))
    BY <1>6, <1>7, <1>8, FuseOf DEF dense
  <1>10. evidence' = Fuse(saved, dense)
    BY <1>2 DEF saved, dense, scope
  <1> QED
    BY <1>1, <1>9, <1>10 DEF EvidenceRight, scope, SavedIn

(* The reranker chooses among them. *)
LEMMA RerankTraces == ASSUME TraceInv, Rerank PROVE EvidenceRight'
  <1>1. EvidenceRight
    BY DEF TraceInv
  <1>2. PICK rows \in RerankRows : RowsValid(rows) /\ evidence' = Reranked(rows)
    BY DEF Rerank
  <1>3. Reranked(rows) \in Seq(SavedIn(inScope)) /\ IsInjective(Reranked(rows))
    BY <1>1, <1>2, RerankedOf
  <1>4. inScope' = inScope
    BY DEF Rerank
  <1> QED
    BY <1>1, <1>2, <1>3, <1>4 DEF EvidenceRight, SavedIn

(* Nothing else changes the evidence. *)
LEMMA EvidenceStays ==
    ASSUME EvidenceRight, UNCHANGED <<inScope, evidence>>
    PROVE  EvidenceRight'
  BY DEF EvidenceRight, SavedIn

(* The stream ends. *)
LEMMA FinishTraces == ASSUME TraceInv, Finish PROVE AnsweredRight'
  <1>1. EvidenceRight /\ Heard \in Seq(STRING)
    BY DEF TraceInv, SplitInv, Heard
  <1>2. citations' = ParsedCitations(Heard) /\ answer' = Linked(Cleaned(Heard), citations')
        /\ pending' = <<>> /\ UNCHANGED <<inScope, evidence, text, heard>>
    BY DEF Finish, Heard
  <1>3. citations' \in Cited
    BY <1>1, <1>2, ParsedOf
  <1>4. Heard' = Heard
    BY <1>2 DEF Heard
  <1>5. Cited' = Cited
    BY <1>2 DEF Cited, SavedIn
  <1> QED
    BY <1>2, <1>3, <1>4, <1>5 DEF AnsweredRight

(* Every step keeps the invariant. *)
LEMMA TraceNext == TraceInv /\ [AnsweringNext]_answeringVars => TraceInv'
  <1> SUFFICES ASSUME TraceInv, [AnsweringNext]_answeringVars PROVE TraceInv'
    OBVIOUS
  <1>1. SplitInv'
    BY SplitNext DEF TraceInv
  <1>2. CASE Retrieve
    <2>1. text' = text /\ step' = "found"
      BY <1>2 DEF Retrieve, generation
    <2> QED
      BY <1>1, <1>2, <2>1, RetrieveTraces DEF TraceInv
  <1>3. CASE NoEvidence
    <2>1. /\ text' = text /\ UNCHANGED <<inScope, evidence>> /\ heard' = heard
          /\ citations' = <<>> /\ answer' = <<"no evidence">> /\ step = "found"
      BY <1>3 DEF NoEvidence, generation
    <2>2. heard = 0
      BY <2>1 DEF TraceInv, SplitInv
    <2>3. AnsweredRight'
      BY <2>1, <2>2 DEF AnsweredRight
    <2> QED
      BY <1>1, <2>1, <2>3, EvidenceStays DEF TraceInv
  <1>4. CASE Rerank
    <2>1. text' \in Generations /\ step' = "writing"
      BY <1>4 DEF Rerank
    <2> QED
      BY <1>1, <1>4, <2>1, RerankTraces DEF TraceInv
  <1>5. CASE Delta
    <2>1. text' = text /\ UNCHANGED <<inScope, evidence>> /\ step' = "writing"
      BY <1>5 DEF Delta
    <2> QED
      BY <1>1, <2>1, EvidenceStays DEF TraceInv
  <1>6. CASE Finish
    <2>1. text' = text /\ UNCHANGED <<inScope, evidence>>
      BY <1>6 DEF Finish
    <2> QED
      BY <1>1, <1>6, <2>1, EvidenceStays, FinishTraces DEF TraceInv
  <1>7. CASE Fail
    <2>1. text' = text /\ UNCHANGED <<inScope, evidence>> /\ step' = "failed"
      BY <1>7 DEF Fail, generation
    <2> QED
      BY <1>1, <2>1, EvidenceStays DEF TraceInv
  <1>8. CASE UNCHANGED answeringVars
    <2>1. UNCHANGED <<step, inScope, evidence, text, heard, pending, answer, citations>>
      BY <1>8 DEF answeringVars
    <2>2. EvidenceRight'
      BY <2>1, EvidenceStays DEF TraceInv
    <2>3. AnsweredRight => AnsweredRight'
      <3>1. Cited' = Cited /\ Heard' = Heard
        BY <2>1 DEF Cited, SavedIn, Heard
      <3> QED
        BY <2>1, <3>1 DEF AnsweredRight
    <2> QED
      BY <1>1, <2>1, <2>2, <2>3 DEF TraceInv
  <1> QED
    BY <1>2, <1>3, <1>4, <1>5, <1>6, <1>7, <1>8 DEF AnsweringNext

(* So it holds in every state. *)
LEMMA TraceInductive == AnsweringSpec => []TraceInv
  BY TraceInit, TraceNext, PTL DEF AnsweringSpec

(* It types the state, *)
LEMMA TraceTyped == TraceInv => AnsweringTypeOK
  <1> SUFFICES ASSUME TraceInv PROVE AnsweringTypeOK
    OBVIOUS
  <1>1. Range(evidence) \subseteq [chunk : ChunkIds, copy : Copies]
    <2>1. SavedIn(inScope) \subseteq [chunk : ChunkIds, copy : Copies]
      BY DEF TraceInv, EvidenceRight, SavedIn, Candidate, Copies
    <2>2. Range(evidence) \subseteq SavedIn(inScope)
      BY DEF TraceInv, EvidenceRight, Range
    <2> QED
      BY <2>1, <2>2
  <1> QED
    BY <1>1 DEF TraceInv, EvidenceRight, SplitInv, AnsweringTypeOK

(* A sequence of one element has that one everywhere. *)
LEMMA OneWord ==
    ASSUME NEW v
    PROVE  \A k \in DOMAIN <<v>> : <<v>>[k] = v
<1>1. DOMAIN <<v>> = 1..1 /\ <<v>>[1] = v
  OBVIOUS
<1> QED
  BY <1>1

(* and says of the citations what is promised. *)
LEMMA TraceTraceable == TraceInv => CitationsTraceable
  <1> SUFFICES ASSUME TraceInv PROVE CitationsTraceable
    OBVIOUS
  <1>1. EvidenceRight
    BY DEF TraceInv
  <1>2. \A i \in DOMAIN evidence : evidence[i].chunk \in inScope /\ evidence[i].copy = "saved"
    BY <1>1, SavedAre DEF EvidenceRight
  <1>3. IsInjective(evidence)
    BY <1>1 DEF EvidenceRight
  <1>4. Heard \in Seq(STRING) /\ Len(Heard) = heard /\ heard \in Nat
    BY DEF TraceInv, SplitInv, Heard
  <1> DEFINE blocks == CitationBlocks(Heard)
             Promised == /\ Range(citations) \subseteq Range(evidence)
                         /\ IsInjective(citations)
                         /\ \A c \in ChunkIds : \A i \in DOMAIN answer :
                              /\ answer[i] = ChunkReferences[c] =>
                                   Candidate(c, "saved") \in Range(citations)
                                     \/ answer[i] \in Range(Heard)
                              /\ answer[i] = References[c] =>
                                   Candidate(c, "saved") \notin Range(citations)
                         /\ (blocks # <<>> /\ Blank(SubSeq(Heard, blocks[1].to + 1, heard))) =>
                              answer = Linked(Cleaned(shown), citations)
  <1>5. ASSUME citations = <<>>, answer = <<"no evidence">>, heard = 0 PROVE Promised
    <2>1. blocks = <<>>
      <3>1. Len(Heard) = 0
        BY <1>4, <1>5
      <3>2. \A i \in Nat : ~MarkerAt(Heard, i)
        BY <3>1 DEF MarkerAt
      <3> QED
        BY <1>4, <3>2, NoBlocks
    <2>2. Range(citations) = {} /\ IsInjective(citations)
      <3>1. DOMAIN <<>> = {}
        OBVIOUS
      <3>2. DOMAIN citations = {}
        BY <1>5, <3>1, Zenon
      <3> QED
        BY <3>2 DEF Range, IsInjective
    <2>3. ASSUME NEW c \in ChunkIds, NEW i \in DOMAIN answer
          PROVE  answer[i] # ChunkReferences[c] /\ answer[i] # References[c]
      <3>1. answer[i] \in Words
        <4> DEFINE only == "no evidence"
        <4> HIDE DEF only
        <4>1. \A k \in DOMAIN <<only>> : <<only>>[k] = only
          BY OneWord
        <4>2. answer[i] = "no evidence"
          BY <1>5, <4>1, Zenon DEF only
        <4> QED
          BY <4>2 DEF Words
      <3> QED
        BY <3>1, WordsOf
    <2> HIDE DEF blocks
    <2> QED
      BY <2>1, <2>2, <2>3
  <1>6. ASSUME citations \in Cited, answer = Linked(Cleaned(Heard), citations), pending = <<>>
        PROVE  Promised
    <2>1. Range(citations) \subseteq Range(evidence) /\ IsInjective(citations)
      BY <1>6 DEF Cited, Range, IsInjective
    <2>2. Cleaned(Heard) \in Seq(Range(Heard))
      BY <1>4, CleanedOf
    <2>3. \A c \in ChunkIds : \A i \in DOMAIN answer :
            /\ answer[i] = ChunkReferences[c] =>
                 Candidate(c, "saved") \in Range(citations) \/ answer[i] \in Range(Heard)
            /\ answer[i] = References[c] => Candidate(c, "saved") \notin Range(citations)
      BY <1>1, <1>6, <2>2, LinkedOf
    <2>4. ASSUME blocks # <<>>, Blank(SubSeq(Heard, blocks[1].to + 1, heard))
          PROVE  answer = Linked(Cleaned(shown), citations)
      <3>1. Cleaned(Heard) = Cleaned(BeforeBlock(Heard))
        BY <1>4, <2>4, CleanedSame
      <3>2. shown = BeforeBlock(Heard)
        BY <1>6, ShownBefore DEF TraceInv
      <3> QED
        BY <1>6, <3>1, <3>2
    <2> HIDE DEF blocks
    <2> QED
      BY <2>1, <2>3, <2>4
  <1>7. step = "answered" => Promised
    <2> HIDE DEF Promised
    <2> QED
      BY <1>5, <1>6 DEF TraceInv, AnsweredRight
  <1> QED
    BY <1>2, <1>3, <1>7 DEF CitationsTraceable, Heard

(* Every variable has its type, whatever the hosted services answer. *)
THEOREM AnsweringTypesCorrect == AnsweringSpec => []AnsweringTypeOK
  BY TraceInductive, TraceTyped, PTL

(* Whatever Qdrant, the reranker and the model say, what the model reads and   *)
(* what is cited are chunks in scope as the SQL rows have them, each once, and *)
(* the answer links the references that are cited and no other (search,       *)
(* CitationParser, normalize_answer), for any number of chunks and any texts. *)
THEOREM CitationsTraced == AnsweringSpec => []CitationsTraceable
  BY TraceInductive, TraceTraceable, PTL

-----------------------------------------------------------------------------
(***************************************************************************)
(* And the model is told what the reader has seen: the last turns that fit, *)
(* as they were when the question was asked, and the evidence that fits.   *)
(***************************************************************************)

Ongoing(q) == turn[q] \in {"begun", "prompted"}

(* A row of the dialogue. *)
Rows == [role : {"user", "assistant"}, question : Questions, size : Nat, refs : SUBSET Passages]

TalkTypes ==
    /\ offered \in SUBSET Passages
    /\ dialogue \in Seq(Rows)
    /\ taken \in BOOLEAN
    /\ turn \in [Questions -> {"new", "loaded", "begun", "prompted", "over"}]
    /\ loaded \in [Questions -> SUBSET Passages]
    /\ asOf \in [Questions -> Nat]
    /\ DOMAIN told = Questions /\ DOMAIN ranked = Questions /\ DOMAIN context = Questions

(* Only turns that were begun leave rows; a question cites nothing. *)
RowsPast ==
    \A i \in DOMAIN dialogue :
        /\ turn[dialogue[i].question] \in {"begun", "prompted", "over"}
        /\ dialogue[i].role = "user" => dialogue[i].refs = {}

Within == \A q \in Questions : asOf[q] \in 0..Len(dialogue)

(* One turn at a time, and what it asks is the last row. *)
OneOngoing ==
    \A q \in Questions : Ongoing(q) =>
        /\ taken
        /\ \A p \in Questions : Ongoing(p) => p = q
        /\ dialogue # <<>>
        /\ dialogue[Len(dialogue)].role = "user"
        /\ dialogue[Len(dialogue)].question = q
        /\ \A i \in 1..(Len(dialogue) - 1) : dialogue[i].question # q
        /\ asOf[q] < Len(dialogue)

SizesOf(places) == [k \in DOMAIN places |-> dialogue[places[k]].size]

(* These places of the dialogue may be told to a question. *)
Tellable(q, places) ==
    /\ places \in Seq(1..asOf[q])
    /\ \A j, k \in DOMAIN places : j < k => places[j] < places[k]
    /\ \A i \in Range(places) :
         /\ ~Stale(q, i)
         /\ \A k \in i..asOf[q] : k \in Range(places) \/ Stale(q, k)
    /\ SumOf(SizesOf(places)) <= HistoryBudget

ToldRight ==
    \A q \in Questions : IF Ongoing(q) THEN Tellable(q, told[q]) ELSE told[q] = <<>>

PromptRight ==
    \A q \in Questions :
        IF turn[q] = "prompted"
        THEN /\ ranked[q] \in Seq(loaded[q]) /\ context[q] \in Seq(loaded[q])
             /\ context[q] # <<>> /\ IsPrefix(context[q], ranked[q])
        ELSE ranked[q] = <<>> /\ context[q] = <<>>

TalkInv == TalkTypes /\ RowsPast /\ Within /\ OneOngoing /\ ToldRight /\ PromptRight

-----------------------------------------------------------------------------
(* The history *)

SoFar == [places : Seq(Nat), left : Nat, full : BOOLEAN]

(* One step of the loop over the rows. *)
TellStep(q, N) == [p \in SoFar \X (1..N) |-> Tell(q, p[1], Newest(q)[p[2]])]

Start == [places |-> <<>>, left |-> HistoryBudget, full |-> FALSE]

(* What a row of the session holds. *)
LEMMA RowsTyped ==
    ASSUME TalkTypes, NEW i \in DOMAIN dialogue
    PROVE  /\ dialogue[i].role \in {"user", "assistant"} /\ dialogue[i].question \in Questions
           /\ dialogue[i].size \in Nat /\ dialogue[i].refs \in SUBSET Passages
  <1>1. dialogue \in Seq(Rows)
    BY DEF TalkTypes
  <1>2. dialogue[i] \in Rows
    BY <1>1
  <1> QED
    BY <1>2 DEF Rows

(* The loop looks at the last rows the request saw, newest first. *)
LEMMA NewestAre ==
    ASSUME TalkTypes, Within, NEW q \in Questions
    PROVE  \E N \in 0..asOf[q] :
             /\ Newest(q) \in Seq(DOMAIN dialogue) /\ Len(Newest(q)) = N
             /\ \A k \in 1..N : Newest(q)[k] = asOf[q] + 1 - k
  <1> DEFINE N == Min({HistoryRows, asOf[q]})
  <1>1. asOf[q] \in Nat /\ asOf[q] <= Len(dialogue) /\ Len(dialogue) \in Nat
        /\ DOMAIN dialogue = 1..Len(dialogue) /\ HistoryRows \in Nat
    BY ConversationAssumption DEF TalkTypes, Within
  <1>2. N \in {HistoryRows, asOf[q]} /\ N <= asOf[q]
    <2>1. {HistoryRows, asOf[q]} \in SUBSET Nat /\ {HistoryRows, asOf[q]} # {}
      BY <1>1
    <2> QED
      BY <2>1, MinOf
  <1>3. Newest(q) = [k \in 1..N |-> asOf[q] + 1 - k]
    BY DEF Newest
  <1> HIDE DEF N
  <1>4. \A k \in 1..N : asOf[q] + 1 - k \in DOMAIN dialogue
    BY <1>1, <1>2
  <1> QED
    BY <1>1, <1>2, <1>3, <1>4

(* Looking at one row more is a step of the fold over the newest rows. *)
LEMMA TellIsStep ==
    ASSUME TalkTypes, Within, NEW q \in Questions
    PROVE  IsStep(TellStep(q, Len(Newest(q))), SoFar, Len(Newest(q)))
  <1> DEFINE N == Len(Newest(q))
  <1>1. \A k \in 1..N : Newest(q)[k] \in DOMAIN dialogue
    BY NewestAre
  <1>2. DOMAIN dialogue \subseteq Nat
    BY DEF TalkTypes
  <1>3. ASSUME NEW so \in SoFar, NEW i \in DOMAIN dialogue
        PROVE  Tell(q, so, i) \in SoFar
    <2>1. so.places \in Seq(Nat) /\ so.left \in Nat /\ so.full \in BOOLEAN
      BY DEF SoFar
    <2>2. i \in Nat /\ dialogue[i].size \in Nat
      BY <1>2, RowsTyped
    <2>3. <<i>> \o so.places \in Seq(Nat)
      BY <2>1, <2>2, ConcatProperties
    <2>4. CASE so.full \/ Stale(q, i)
      BY <2>4 DEF Tell
    <2>5. CASE ~(so.full \/ Stale(q, i)) /\ dialogue[i].size > so.left
      <3>1. Tell(q, so, i) = [so EXCEPT !.full = TRUE]
        BY <2>5 DEF Tell
      <3> QED
        BY <3>1 DEF SoFar
    <2>6. CASE ~(so.full \/ Stale(q, i)) /\ ~(dialogue[i].size > so.left)
      <3>1. Tell(q, so, i) =
              [so EXCEPT !.places = <<i>> \o so.places, !.left = so.left - dialogue[i].size]
        BY <2>6 DEF Tell
      <3>2. so.left - dialogue[i].size \in Nat
        BY <2>1, <2>2, <2>6
      <3> QED
        BY <2>3, <3>1, <3>2 DEF SoFar
    <2> QED
      BY <2>4, <2>5, <2>6
  <1> HIDE DEF N
  <1> QED
    BY <1>1, <1>3 DEF IsStep, TellStep, N

(* History is what the path of these steps ends with. *)
LEMMA HistoryPath ==
    ASSUME TalkTypes, Within, NEW q \in Questions
    PROVE  \E f : /\ IsPath(f, TellStep(q, Len(Newest(q))), Start, SoFar, Len(Newest(q)))
                  /\ History(q) = f[Len(Newest(q))].places
  <1> DEFINE N == Len(Newest(q))
             g == TellStep(q, N)
  <1>1. N \in Nat /\ DOMAIN Newest(q) = 1..N
    BY NewestAre
  <1>2. IsStep(g, SoFar, N)
    BY TellIsStep
  <1>3. Start \in SoFar
    BY ConversationAssumption DEF Start, SoFar
  <1> HIDE DEF N, g
  <1>4. PICK it : IsFold(it, g, Start, SoFar, N)
    BY <1>1, <1>2, <1>3, FoldExists
  <1> DEFINE P == SUBSET (1..N)
             Fits(w) == w = [s \in P |-> IF s = {} THEN Start
                                         ELSE Tell(q, w[s \ {Max(s)}], Newest(q)[Max(s)])]
             c == CHOOSE w : Fits(w)
  <1>5. Fits(it)
    <2>1. /\ it \in [P -> SoFar]
          /\ it = [s \in P |-> IF s = {} THEN Start ELSE g[<<it[s \ {Max(s)}], Max(s)>>]]
      BY <1>4 DEF IsFold
    <2>2. ASSUME NEW s \in P, s # {}
          PROVE  g[<<it[s \ {Max(s)}], Max(s)>>]
                   = Tell(q, it[s \ {Max(s)}], Newest(q)[Max(s)])
      <3>1. s \in SUBSET (0..N)
        BY <1>1
      <3>2. Max(s) \in s
        BY <1>1, <2>2, <3>1, MaxOf
      <3>3. s \ {Max(s)} \in P /\ Max(s) \in 1..N
        BY <3>2
      <3>4. it[s \ {Max(s)}] \in SoFar
        BY <2>1, <3>3
      <3> QED
        BY <3>3, <3>4 DEF g, TellStep
    <2> HIDE DEF P
    <2> QED
      BY <2>1, <2>2
  <1>6. Fits(c)
    <2> HIDE DEF Fits
    <2> QED
      BY <1>5, Zenon
  <1>7. History(q) = c[1..N].places
    BY <1>1, Zenon DEF History, FoldLeft, MapThenFoldSet, Start
  <1> HIDE DEF c
  <1>8. c[{}] = Start
    BY <1>6
  <1>9. ASSUME NEW k \in 1..N PROVE c[1..k] = Tell(q, c[1..(k - 1)], Newest(q)[k])
    <2>1. k \in Nat /\ k # 0 /\ 1..k \in P
      BY <1>1
    <2>2. Max(1..k) = k /\ (1..k) \ {k} = 1..(k - 1) /\ 1..k # {}
      BY <2>1, UpTo
    <2>3. c[1..k] = Tell(q, c[(1..k) \ {Max(1..k)}], Newest(q)[Max(1..k)])
      BY <1>6, <2>1, <2>2
    <2> QED
      BY <2>2, <2>3
  <1> HIDE DEF Fits, P
  <1> DEFINE f == [k \in 0..N |-> c[1..k]]
  <1>10. PICK h : IsPath(h, g, Start, SoFar, N)
    BY <1>1, <1>2, <1>3, PathExists
  <1>11. /\ h \in [0..N -> SoFar] /\ h[0] = Start
         /\ \A k \in 1..N : h[k] = Tell(q, h[k - 1], Newest(q)[k])
    <2>1. h \in [0..N -> SoFar] /\ h[0] = Start /\ \A k \in 1..N : h[k] = g[<<h[k - 1], k>>]
      BY <1>10 DEF IsPath
    <2>2. ASSUME NEW k \in 1..N PROVE g[<<h[k - 1], k>>] = Tell(q, h[k - 1], Newest(q)[k])
      <3>1. k - 1 \in 0..N
        BY <1>1
      <3>2. h[k - 1] \in SoFar
        BY <2>1, <3>1
      <3> QED
        BY <3>2 DEF g, TellStep
    <2> QED
      BY <2>1, <2>2
  <1> DEFINE K == {k \in Nat : k <= N => c[1..k] = h[k]}
  <1>12. 0 \in K
    <2>1. 1..0 = {}
      OBVIOUS
    <2> QED
      BY <1>8, <1>11, <2>1
  <1>13. ASSUME NEW k \in Nat, k \in K PROVE k + 1 \in K
    <2>1. SUFFICES ASSUME k + 1 <= N PROVE c[1..(k + 1)] = h[k + 1]
      OBVIOUS
    <2>2. k + 1 \in 1..N /\ (k + 1) - 1 = k /\ k <= N
      BY <1>1, <2>1
    <2>3. c[1..k] = h[k]
      BY <1>13, <2>2
    <2> QED
      BY <1>9, <1>11, <2>2, <2>3
  <1> HIDE DEF K
  <1>14. \A k \in Nat : k \in K
    BY <1>12, <1>13, SetInduction, Zenon
  <1>15. c[1..N] = h[N]
    BY <1>1, <1>14 DEF K
  <1> QED
    BY <1>7, <1>10, <1>15 DEF N, g

(* What the loop has when it has looked back to row first. *)
LookedBack(q, so, first) ==
    /\ so \in SoFar
    /\ so.places \in Seq(first..asOf[q])
    /\ \A j, k \in DOMAIN so.places : j < k => so.places[j] < so.places[k]
    /\ \A i \in Range(so.places) :
         /\ ~Stale(q, i)
         /\ \A k \in i..asOf[q] : k \in Range(so.places) \/ Stale(q, k)
    /\ ~so.full => \A k \in first..asOf[q] : k \in Range(so.places) \/ Stale(q, k)
    /\ SumOf(SizesOf(so.places)) + so.left = HistoryBudget

(* Nothing adds up to nothing. *)
LEMMA NoSum == SumOf(<<>>) = 0
  <1>1. <<>> \in Seq(Nat) /\ Len(<<>>) = 0
    OBVIOUS
  <1>2. PICK f : IsSums(f, <<>>) /\ SumOf(<<>>) = f[Len(<<>>)]
    BY <1>1, SumPath
  <1> QED
    BY <1>1, <1>2 DEF IsSums

(* Before any row is looked at, the whole budget is left. *)
LEMMA NothingYet ==
    ASSUME TalkTypes, Within, NEW q \in Questions
    PROVE  LookedBack(q, Start, asOf[q] + 1)
  <1>1. Start.places = <<>> /\ Start.left = HistoryBudget /\ HistoryBudget \in Nat
        /\ Start \in SoFar
    BY ConversationAssumption DEF Start, SoFar
  <1>2. SizesOf(<<>>) = <<>> /\ Range(<<>>) = {}
    BY DEF SizesOf, Range
  <1>3. (asOf[q] + 1)..asOf[q] = {}
    BY DEF TalkTypes
  <1> QED
    BY <1>1, <1>2, <1>3, NoSum DEF LookedBack

(* Looking one row further back keeps what is told a run of the newest rows,
   but for the stale ones, within the budget. *)
LEMMA OneRowBack ==
    ASSUME TalkTypes, Within, NEW q \in Questions, NEW so,
           NEW i \in 1..asOf[q], LookedBack(q, so, i + 1)
    PROVE  LookedBack(q, Tell(q, so, i), i)
  <1> DEFINE n == asOf[q]
             new == Tell(q, so, i)
             longer == <<i>> \o so.places
  <1>1. n \in Nat /\ i \in Nat /\ i <= n /\ i # 0 /\ i \in DOMAIN dialogue
        /\ 1..n \subseteq DOMAIN dialogue
    BY DEF TalkTypes, Within
  <1>2. dialogue[i].size \in Nat
    BY <1>1, RowsTyped
  <1>3. /\ so \in SoFar /\ so.places \in Seq((i + 1)..n) /\ so.left \in Nat /\ so.full \in BOOLEAN
        /\ so.places \in Seq(Nat)
        /\ \A j, k \in DOMAIN so.places : j < k => so.places[j] < so.places[k]
        /\ \A p \in Range(so.places) :
             /\ ~Stale(q, p)
             /\ \A k \in p..n : k \in Range(so.places) \/ Stale(q, k)
        /\ ~so.full => \A k \in (i + 1)..n : k \in Range(so.places) \/ Stale(q, k)
        /\ SumOf(SizesOf(so.places)) + so.left = HistoryBudget
    BY DEF LookedBack, SoFar
  <1>4. (i + 1)..n \subseteq i..n /\ \A k \in i..n : k = i \/ k \in (i + 1)..n
    BY <1>1
  <1>5. so.places \in Seq(i..n)
    <2> DEFINE T == (i + 1)..n
               U == i..n
    <2>1. T \subseteq U /\ so.places \in Seq(T)
      BY <1>3, <1>4
    <2> HIDE DEF T, U
    <2>2. so.places \in Seq(U)
      BY <2>1, SeqMonotonic
    <2> QED
      BY <2>2 DEF U
  <1> HIDE DEF n, new
  <1>6. CASE so.full \/ Stale(q, i)
    <2>1. new = so
      BY <1>6 DEF new, Tell
    <2>2. ~so.full => \A k \in i..n : k \in Range(so.places) \/ Stale(q, k)
      BY <1>3, <1>4, <1>6
    <2> QED
      BY <1>3, <1>5, <2>1, <2>2 DEF LookedBack, n, new
  <1>7. CASE ~(so.full \/ Stale(q, i)) /\ dialogue[i].size > so.left
    <2>1. new = [so EXCEPT !.full = TRUE]
      BY <1>7 DEF new, Tell
    <2>2. new.places = so.places /\ new.left = so.left /\ new.full = TRUE /\ new \in SoFar
      BY <1>3, <2>1 DEF SoFar
    <2> QED
      BY <1>3, <1>5, <2>2 DEF LookedBack, n, new
  <1>8. CASE ~(so.full \/ Stale(q, i)) /\ ~(dialogue[i].size > so.left)
    <2>1. new = [so EXCEPT !.places = longer, !.left = so.left - dialogue[i].size]
      BY <1>8 DEF new, Tell
    <2>2. so.left - dialogue[i].size \in Nat
      BY <1>2, <1>3, <1>8
    <2> DEFINE U == i..n
    <2>3. so.places \in Seq(U) /\ i \in U
      BY <1>1, <1>5 DEF n
    <2> HIDE DEF U
    <2>4. <<i>> \in Seq(U) /\ Len(<<i>>) = 1 /\ <<i>>[1] = i /\ Range(<<i>>) = {i}
      BY <2>3 DEF Range
    <2>5. /\ longer \in Seq(U) /\ Len(longer) = Len(so.places) + 1
          /\ longer[1] = i /\ \A k \in 1..Len(so.places) : longer[k + 1] = so.places[k]
          /\ Range(longer) = {i} \cup Range(so.places)
      <3>1. /\ longer \in Seq(U) /\ Len(longer) = 1 + Len(so.places)
            /\ longer[1] = i
            /\ \A k \in 1..Len(so.places) : longer[1 + k] = so.places[k]
        <4>1. 1 \in 1..Len(<<i>>)
          BY <2>4
        <4>2. /\ <<i>> \o so.places \in Seq(U)
              /\ Len(<<i>> \o so.places) = Len(<<i>>) + Len(so.places)
              /\ \A k \in 1..Len(<<i>>) : (<<i>> \o so.places)[k] = <<i>>[k]
              /\ \A k \in 1..Len(so.places) :
                   (<<i>> \o so.places)[Len(<<i>>) + k] = so.places[k]
          BY <2>3, <2>4, Joined
        <4>3. (<<i>> \o so.places)[1] = i
          BY <2>4, <4>1, <4>2
        <4> QED
          BY <2>4, <4>2, <4>3
      <3>2. Range(longer) = {i} \cup Range(so.places)
        <4>1. <<i>> \in Seq(U) /\ so.places \in Seq(U) /\ Range(<<i>>) = {i}
          BY <2>3, <2>4
        <4>2. Range(<<i>> \o so.places) = Range(<<i>>) \cup Range(so.places)
          <5> DEFINE a == <<i>>
                     b == so.places
          <5>1. a \in Seq(U) /\ b \in Seq(U)
            BY <4>1
          <5> HIDE DEF a, b
          <5>2. Range(a \o b) = Range(a) \cup Range(b)
            BY <5>1, RangeConcatenation
          <5> QED
            BY <5>2 DEF a, b
        <4> QED
          BY <4>1, <4>2
      <3>3. Len(so.places) \in Nat
        BY <2>3
      <3>4. \A k \in 1..Len(so.places) : 1 + k = k + 1
        BY <3>3
      <3> QED
        BY <3>1, <3>2, <3>3, <3>4
    <2> HIDE DEF longer
    <2>6. /\ new.places = longer /\ new.left = so.left - dialogue[i].size
          /\ new.full = FALSE
      BY <1>3, <1>8, <2>1 DEF SoFar
    <2>7. longer \in Seq(i..n)
      BY <2>5 DEF U
    <2>8. new \in SoFar
      <3>1. i..n \subseteq Nat
        BY <1>1
      <3>2. longer \in Seq(Nat)
        <4>1. U \subseteq Nat
          BY <3>1 DEF U
        <4> QED
          BY <2>5, <4>1, SeqMonotonic
      <3> QED
        BY <1>3, <2>1, <2>2, <3>2 DEF SoFar
    <2>9. \A j, k \in DOMAIN longer : j < k => longer[j] < longer[k]
      <3>1. Len(so.places) \in Nat /\ DOMAIN longer = 1..(Len(so.places) + 1)
            /\ DOMAIN so.places = 1..Len(so.places)
        BY <2>3, <2>5
      <3>2. \A k \in 1..Len(so.places) : so.places[k] \in (i + 1)..n
        BY <1>3, ElementOfSeq
      <3>3. ASSUME NEW j \in DOMAIN longer, NEW k \in DOMAIN longer, j < k
            PROVE  longer[j] < longer[k]
        <4>1. k - 1 \in 1..Len(so.places) /\ (k - 1) + 1 = k
          BY <3>1, <3>3
        <4>2. longer[k] = so.places[k - 1]
          BY <2>5, <4>1
        <4>3. CASE j = 1
          <5>1. longer[k] \in (i + 1)..n /\ longer[j] = i
            BY <2>5, <3>2, <4>1, <4>2, <4>3
          <5> QED
            BY <1>1, <5>1 DEF n
        <4>4. CASE j # 1
          <5>1. j - 1 \in 1..Len(so.places) /\ (j - 1) + 1 = j /\ j - 1 < k - 1
            BY <3>1, <3>3, <4>4
          <5>2. longer[j] = so.places[j - 1]
            BY <2>5, <5>1
          <5> QED
            BY <1>3, <3>1, <4>1, <4>2, <5>1, <5>2
        <4> QED
          BY <4>3, <4>4
      <3> QED
        BY <3>3
    <2>10. \A k \in i..n : k \in Range(longer) \/ Stale(q, k)
      BY <1>3, <1>4, <1>8, <2>5
    <2>11. ASSUME NEW p \in Range(longer)
           PROVE  ~Stale(q, p) /\ \A k \in p..n : k \in Range(longer) \/ Stale(q, k)
      <3>1. CASE p = i
        BY <1>8, <2>10, <3>1
      <3>2. CASE p \in Range(so.places)
        BY <1>3, <2>5, <3>2
      <3> QED
        BY <2>5, <3>1, <3>2
    <2>12. SumOf(SizesOf(longer)) + new.left = HistoryBudget
      <3> DEFINE list == SizesOf(so.places)
                 more == SizesOf(longer)
      <3>1. Len(so.places) \in Nat /\ DOMAIN longer = 1..(Len(so.places) + 1)
            /\ DOMAIN so.places = 1..Len(so.places)
        BY <2>3, <2>5
      <3>2. \A p \in i..n : p \in DOMAIN dialogue
        BY <1>1 DEF n
      <3>3. \A k \in 1..Len(so.places) : so.places[k] \in DOMAIN dialogue
        BY <1>5, <3>2, ElementOfSeq
      <3>4. \A k \in 1..(Len(so.places) + 1) : longer[k] \in DOMAIN dialogue
        <4>1. \A k \in 1..Len(longer) : longer[k] \in i..n
          BY <2>7, ElementOfSeq
        <4> QED
          BY <2>5, <3>2, <4>1
      <3>5. list \in Seq(Nat) /\ Len(list) = Len(so.places)
            /\ \A k \in 1..Len(so.places) : list[k] = dialogue[so.places[k]].size
        <4>1. \A k \in 1..Len(so.places) : dialogue[so.places[k]].size \in Nat
          BY <3>3, RowsTyped
        <4> QED
          BY <3>1, <4>1 DEF SizesOf
      <3>6. more \in Seq(Nat) /\ Len(more) = Len(so.places) + 1
            /\ \A k \in 1..(Len(so.places) + 1) : more[k] = dialogue[longer[k]].size
        <4>1. \A k \in 1..(Len(so.places) + 1) : dialogue[longer[k]].size \in Nat
          BY <3>4, RowsTyped
        <4> QED
          BY <3>1, <4>1 DEF SizesOf
      <3>7. more[1] = dialogue[i].size
        <4>1. 1 \in 1..(Len(so.places) + 1)
          BY <3>1
        <4> QED
          BY <2>5, <3>6, <4>1
      <3>8. \A k \in 1..Len(list) : more[k + 1] = list[k]
        <4>1. \A k \in 1..Len(so.places) : k + 1 \in 1..(Len(so.places) + 1)
          BY <3>1
        <4> QED
          BY <2>5, <3>5, <3>6, <4>1
      <3> HIDE DEF list, more
      <3>9. SumOf(more) = more[1] + SumOf(list) /\ SumOf(list) \in Nat
        BY <3>5, <3>6, <3>8, SumFirst
      <3>10. SumOf(list) + so.left = HistoryBudget
        BY <1>3 DEF list
      <3> QED
        BY <1>2, <1>3, <2>6, <3>7, <3>9, <3>10 DEF more
    <2> QED
      BY <2>6, <2>7, <2>8, <2>9, <2>10, <2>11, <2>12 DEF LookedBack, n, new
  <1> QED
    BY <1>6, <1>7, <1>8

(* What a question is told when it begins. *)
LEMMA HistoryTellable ==
    ASSUME TalkTypes, Within, NEW q \in Questions
    PROVE  Tellable(q, History(q))
  <1> DEFINE N == Len(Newest(q))
             n == asOf[q]
  <1>1. PICK f : /\ IsPath(f, TellStep(q, N), Start, SoFar, N)
                 /\ History(q) = f[N].places
    BY HistoryPath
  <1>2. n \in Nat /\ N \in 0..n /\ \A k \in 1..N : Newest(q)[k] = n + 1 - k
    BY NewestAre DEF TalkTypes
  <1> HIDE DEF N
  <1>3. /\ f \in [0..N -> SoFar] /\ f[0] = Start
        /\ \A k \in 1..N : f[k] = TellStep(q, N)[<<f[k - 1], k>>]
    BY <1>1 DEF IsPath
  <1> HIDE DEF n
  <1>4. ASSUME NEW k \in 1..N PROVE f[k] = Tell(q, f[k - 1], n + 1 - k)
    <2>1. k - 1 \in 0..N
      BY <1>2
    <2>2. f[k - 1] \in SoFar
      BY <1>3, <2>1
    <2> QED
      BY <1>2, <1>3, <2>2 DEF TellStep
  <1> DEFINE K == {k \in Nat : k <= N => LookedBack(q, f[k], n + 1 - k)}
  <1>5. 0 \in K
    <2>1. n + 1 - 0 = n + 1
      BY <1>2
    <2> QED
      BY <1>3, <2>1, NothingYet DEF n
  <1>6. ASSUME NEW k \in Nat, k \in K PROVE k + 1 \in K
    <2>1. SUFFICES ASSUME k + 1 <= N PROVE LookedBack(q, f[k + 1], n + 1 - (k + 1))
      OBVIOUS
    <2>2. /\ k + 1 \in 1..N /\ (k + 1) - 1 = k /\ k <= N
          /\ n + 1 - (k + 1) \in 1..n /\ (n + 1 - (k + 1)) + 1 = n + 1 - k
      BY <1>2, <2>1
    <2>3. LookedBack(q, f[k], (n + 1 - (k + 1)) + 1)
      BY <1>6, <2>2
    <2>4. f[k + 1] = Tell(q, f[k], n + 1 - (k + 1))
      BY <1>4, <2>2
    <2> QED
      BY <2>2, <2>3, <2>4, OneRowBack DEF n
  <1> HIDE DEF K
  <1>7. \A k \in Nat : k \in K
    BY <1>5, <1>6, SetInduction, Zenon
  <1>8. LookedBack(q, f[N], n + 1 - N)
    BY <1>2, <1>7 DEF K
  <1> DEFINE places == History(q)
             T == (n + 1 - N)..n
  <1>9. places \in Seq(T) /\ T \subseteq 1..n
    BY <1>1, <1>2, <1>8 DEF LookedBack, n
  <1>10. places \in Seq(1..n)
    <2> DEFINE U == 1..n
    <2>1. T \subseteq U
      BY <1>9
    <2> HIDE DEF T, U
    <2>2. places \in Seq(U)
      BY <1>9, <2>1, SeqMonotonic
    <2> QED
      BY <2>2 DEF U
  <1>11. SumOf(SizesOf(places)) <= HistoryBudget
    <2>1. SumOf(SizesOf(places)) + f[N].left = HistoryBudget /\ f[N].left \in Nat
      BY <1>1, <1>8 DEF LookedBack, SoFar
    <2>2. \A k \in 1..Len(places) : places[k] \in DOMAIN dialogue
      <3>1. 1..n \subseteq DOMAIN dialogue
        BY DEF n, Within, TalkTypes
      <3> QED
        <4>1. \A k \in 1..Len(places) : places[k] \in 1..n
          BY <1>10, ElementOfSeq
        <4> QED
          BY <3>1, <4>1
    <2>3. SizesOf(places) \in Seq(Nat)
      <3>1. \A k \in 1..Len(places) : dialogue[places[k]].size \in Nat
        BY <2>2, RowsTyped
      <3>2. DOMAIN places = 1..Len(places) /\ Len(places) \in Nat
        BY <1>10
      <3> HIDE DEF places
      <3> QED
        BY <3>1, <3>2 DEF SizesOf
    <2>4. SumOf(SizesOf(places)) \in Nat
      <3>1. PICK h : IsSums(h, SizesOf(places)) /\ SumOf(SizesOf(places)) = h[Len(SizesOf(places))]
        BY <2>3, SumPath
      <3>2. Len(SizesOf(places)) \in 0..Len(SizesOf(places))
        BY <2>3
      <3> QED
        BY <3>1, <3>2 DEF IsSums
    <2> HIDE DEF places
    <2> QED
      BY <2>1, <2>4
  <1> QED
    BY <1>1, <1>8, <1>10, <1>11 DEF LookedBack, Tellable, n

-----------------------------------------------------------------------------
(* One lemma per action *)

(* What may be told stays so while the question goes on: rows only come in   *)
(* behind those it saw.                                                      *)
LEMMA TellableStays ==
    ASSUME TalkTypes, Within, NEW q \in Questions, Tellable(q, told'[q]),
           asOf'[q] = asOf[q], loaded'[q] = loaded[q],
           \A i \in DOMAIN dialogue : dialogue'[i] = dialogue[i]
    PROVE  Tellable(q, told[q])'
  <1> DEFINE places == told'[q]
             n == asOf[q]
  <1>1. 1..n \subseteq DOMAIN dialogue
    BY DEF TalkTypes, Within
  <1>2. /\ places \in Seq(1..n)
        /\ \A j, k \in DOMAIN places : j < k => places[j] < places[k]
        /\ \A i \in Range(places) :
             /\ ~Stale(q, i)
             /\ \A k \in i..n : k \in Range(places) \/ Stale(q, k)
        /\ SumOf(SizesOf(places)) <= HistoryBudget
    BY DEF Tellable
  <1>3. \A i \in 1..n : Stale(q, i) <=> Stale(q, i)'
    BY <1>1 DEF Stale
  <1>4. \A k \in DOMAIN places : places[k] \in 1..n
    <2>1. DOMAIN places = 1..Len(places)
      BY <1>2
    <2> HIDE DEF places, n
    <2> QED
      BY <1>2, <2>1, ElementOfSeq
  <1> HIDE DEF places, n
  <1>5. SizesOf(places) = [k \in DOMAIN places |-> dialogue'[places[k]].size]
    BY <1>1, <1>4 DEF SizesOf
  <1>6. \A i \in Range(places) : i \in 1..n
    BY <1>4 DEF Range
  <1>7. n \in Nat
    BY DEF n, TalkTypes
  <1>8. \A i \in Range(places) : \A k \in i..n : k \in 1..n
    BY <1>6, <1>7
  <1>9. \A i \in Range(places) :
           /\ ~Stale(q, i)'
           /\ \A k \in i..n : k \in Range(places) \/ Stale(q, k)'
    BY <1>2, <1>3, <1>6, <1>8
  <1>10. SumOf([k \in DOMAIN places |-> dialogue'[places[k]].size]) <= HistoryBudget
    BY <1>2, <1>5
  <1> QED
    BY <1>2, <1>9, <1>10 DEF Tellable, SizesOf, places, n

(* A row more. *)
LEMMA RowMore ==
    ASSUME TalkTypes, NEW row \in Rows, dialogue' = Append(dialogue, row)
    PROVE  /\ dialogue' \in Seq(Rows) /\ Len(dialogue) \in Nat
           /\ Len(dialogue') = Len(dialogue) + 1
           /\ DOMAIN dialogue = 1..Len(dialogue) /\ DOMAIN dialogue' = 1..(Len(dialogue) + 1)
           /\ \A i \in DOMAIN dialogue : dialogue'[i] = dialogue[i]
           /\ dialogue'[Len(dialogue) + 1] = row
  <1>1. dialogue \in Seq(Rows)
    BY DEF TalkTypes
  <1>2. /\ dialogue' \in Seq(Rows) /\ Len(dialogue') = Len(dialogue) + 1
        /\ \A i \in 1..Len(dialogue) : dialogue'[i] = dialogue[i]
        /\ dialogue'[Len(dialogue) + 1] = row
    <2> HIDE DEF Rows
    <2> QED
      BY <1>1, AppendProperties
  <1> HIDE DEF Rows
  <1> QED
    BY <1>1, <1>2

(* A session starts empty. *)
LEMMA TalkInit == ASSUME ConversationInit PROVE TalkInv
  <1>1. dialogue = <<>> /\ Len(dialogue) = 0 /\ DOMAIN dialogue = {}
    BY DEF ConversationInit
  <1>2. TalkTypes
    <2>1. dialogue \in Seq(Rows)
      BY <1>1
    <2>2. offered \in SUBSET Passages /\ taken \in BOOLEAN
          /\ turn \in [Questions -> {"new", "loaded", "begun", "prompted", "over"}]
          /\ loaded \in [Questions -> SUBSET Passages] /\ asOf \in [Questions -> Nat]
      BY DEF ConversationInit
    <2>3. DOMAIN told = Questions /\ DOMAIN ranked = Questions /\ DOMAIN context = Questions
      BY DEF ConversationInit
    <2> QED
      BY <2>1, <2>2, <2>3 DEF TalkTypes
  <1>3. RowsPast /\ Within /\ OneOngoing
    BY <1>1 DEF ConversationInit, RowsPast, Within, OneOngoing, Ongoing
  <1>4. ToldRight /\ PromptRight
    BY DEF ConversationInit, ToldRight, PromptRight, Ongoing
  <1> QED
    BY <1>2, <1>3, <1>4 DEF TalkInv

(* What does not touch the dialogue or the session, nor any other turn, and   *)
(* neither begins nor ends one.                                               *)
LEMMA AsideStep ==
    ASSUME TalkInv, NEW q \in Questions, UNCHANGED <<dialogue, taken>>,
           TalkTypes', asOf'[q] \in 0..Len(dialogue),
           \A p \in Questions \ {q} : /\ turn'[p] = turn[p] /\ loaded'[p] = loaded[p]
                                      /\ asOf'[p] = asOf[p] /\ told'[p] = told[p]
                                      /\ ranked'[p] = ranked[p] /\ context'[p] = context[p],
           turn[q] \in {"new", "loaded"}, turn'[q] \in {"new", "loaded", "over"},
           told'[q] = <<>>, ranked'[q] = <<>>, context'[q] = <<>>
    PROVE  TalkInv'
  <1>1. TalkTypes /\ RowsPast /\ Within /\ OneOngoing /\ ToldRight /\ PromptRight
    BY DEF TalkInv
  <1>2. \A p \in Questions : Ongoing(p)' => Ongoing(p) /\ p # q
    BY DEF Ongoing
  <1>3. Within'
    BY <1>1 DEF Within
  <1>4. RowsPast'
    <2>1. ASSUME NEW i \in DOMAIN dialogue
          PROVE  turn'[dialogue[i].question] \in {"begun", "prompted", "over"}
      <3>1. dialogue[i].question \in Questions
        BY <1>1, RowsTyped
      <3> QED
        BY <1>1, <3>1 DEF RowsPast
    <2> QED
      BY <1>1, <2>1 DEF RowsPast
  <1>5. OneOngoing'
    BY <1>1, <1>2 DEF OneOngoing
  <1>6. ToldRight'
    <2>1. ASSUME NEW p \in Questions
          PROVE  (IF Ongoing(p) THEN Tellable(p, told[p]) ELSE told[p] = <<>>)'
      <3>1. CASE p = q
        BY <1>2, <3>1
      <3>2. CASE p # q
        <4>1. Ongoing(p)' <=> Ongoing(p)
          BY <3>2 DEF Ongoing
        <4>2. IF Ongoing(p) THEN Tellable(p, told[p]) ELSE told[p] = <<>>
          BY <1>1 DEF ToldRight
        <4>3. told'[p] = told[p] /\ asOf'[p] = asOf[p] /\ loaded'[p] = loaded[p]
          BY <3>2
        <4> QED
          BY <1>1, <4>1, <4>2, <4>3, TellableStays
      <3> QED
        BY <3>1, <3>2
    <2> QED
      BY <2>1 DEF ToldRight
  <1>7. PromptRight'
    <2>1. turn'[q] # "prompted"
      OBVIOUS
    <2> QED
      BY <1>1, <2>1 DEF PromptRight
  <1> QED
    BY <1>3, <1>4, <1>5, <1>6, <1>7 DEF TalkInv

(* A question reads how long the session is when its scope is loaded. *)
LEMMA LoadScopeStep ==
    ASSUME TalkInv, NEW q \in Questions, LoadScope(q) PROVE TalkInv'
  <1>1. TalkTypes /\ Within /\ ToldRight /\ PromptRight
    BY DEF TalkInv
  <1>2. turn[q] = "new" /\ UNCHANGED <<offered, dialogue, taken, told, ranked, context>>
    BY DEF LoadScope
  <1>3. \/ MovesOn(q, "over") /\ UNCHANGED <<loaded, asOf>>
        \/ /\ MovesOn(q, "loaded")
           /\ loaded' = [loaded EXCEPT ![q] = offered]
           /\ asOf' = [asOf EXCEPT ![q] = Len(dialogue)]
    BY DEF LoadScope
  <1>4. Len(dialogue) \in Nat
    BY <1>1 DEF TalkTypes
  <1>5. /\ turn' \in [Questions -> {"new", "loaded", "begun", "prompted", "over"}]
        /\ loaded' \in [Questions -> SUBSET Passages] /\ asOf' \in [Questions -> Nat]
    BY <1>1, <1>3, <1>4 DEF TalkTypes, MovesOn
  <1>6. TalkTypes'
    BY <1>1, <1>2, <1>5 DEF TalkTypes
  <1>7. told'[q] = <<>> /\ ranked'[q] = <<>> /\ context'[q] = <<>>
    BY <1>1, <1>2 DEF ToldRight, PromptRight, Ongoing
  <1>8. turn'[q] \in {"loaded", "over"} /\ asOf'[q] \in 0..Len(dialogue)
    BY <1>1, <1>3, <1>4 DEF TalkTypes, Within, MovesOn
  <1>9. \A p \in Questions \ {q} : /\ turn'[p] = turn[p] /\ loaded'[p] = loaded[p]
                                   /\ asOf'[p] = asOf[p]
    BY <1>1, <1>3 DEF TalkTypes, MovesOn
  <1> QED
    BY <1>2, <1>6, <1>7, <1>8, <1>9, AsideStep

(* What is left of a turn that is over. *)
LEMMA Finished ==
    ASSUME TalkTypes, NEW q \in Questions, Finishes(q)
    PROVE  /\ turn' \in [Questions -> {"new", "loaded", "begun", "prompted", "over"}]
           /\ loaded' \in [Questions -> SUBSET Passages] /\ asOf' \in [Questions -> Nat]
           /\ DOMAIN told' = Questions /\ DOMAIN ranked' = Questions
           /\ DOMAIN context' = Questions
           /\ turn'[q] = "over" /\ asOf'[q] = 0 /\ loaded'[q] = {}
           /\ told'[q] = <<>> /\ ranked'[q] = <<>> /\ context'[q] = <<>>
           /\ \A p \in Questions \ {q} : /\ turn'[p] = turn[p] /\ loaded'[p] = loaded[p]
                                         /\ asOf'[p] = asOf[p] /\ told'[p] = told[p]
                                         /\ ranked'[p] = ranked[p] /\ context'[p] = context[p]
  BY DEF TalkTypes, Finishes, MovesOn

(* A question that finds the session taken leaves the session alone. *)
LEMMA TurnAwayStep ==
    ASSUME TalkInv, NEW q \in Questions, TurnAway(q) PROVE TalkInv'
  <1>1. TalkTypes
    BY DEF TalkInv
  <1>2. turn[q] = "loaded" /\ Finishes(q) /\ UNCHANGED <<offered, dialogue, taken>>
    BY DEF TurnAway
  <1>3. TalkTypes'
    BY <1>1, <1>2, Finished DEF TalkTypes
  <1>4. asOf'[q] \in 0..Len(dialogue)
    BY <1>1, <1>2, Finished DEF TalkTypes
  <1>5. /\ turn'[q] = "over" /\ told'[q] = <<>> /\ ranked'[q] = <<>> /\ context'[q] = <<>>
        /\ \A p \in Questions \ {q} : /\ turn'[p] = turn[p] /\ loaded'[p] = loaded[p]
                                      /\ asOf'[p] = asOf[p] /\ told'[p] = told[p]
                                      /\ ranked'[p] = ranked[p] /\ context'[p] = context[p]
    BY <1>1, <1>2, Finished
  <1> QED
    BY <1>2, <1>3, <1>4, <1>5, AsideStep

(* The owner changes what is offered, and no question that is under way. *)
LEMMA ChangeStep == ASSUME TalkInv, Change PROVE TalkInv'
  <1>1. offered' \in SUBSET Passages
        /\ UNCHANGED <<dialogue, taken, turn, loaded, asOf, told, ranked, context>>
    BY DEF Change
  <1> QED
    BY <1>1 DEF TalkInv, TalkTypes, RowsPast, Within, OneOngoing, ToldRight, PromptRight,
                Ongoing, Tellable, SizesOf, Stale

(* The turn that begins is told rows that stood when its scope was loaded, all
   of turns that are over: nobody holds the session when it begins. *)
LEMMA BeginTurnStep ==
    ASSUME TalkInv, NEW q \in Questions, BeginTurn(q) PROVE TalkInv'
  <1> DEFINE row == Row("user", q, Size[q], {})
             n == Len(dialogue)
  <1>1. TalkTypes /\ RowsPast /\ Within /\ OneOngoing /\ ToldRight /\ PromptRight
    BY DEF TalkInv
  <1>2. /\ turn[q] = "loaded" /\ ~taken /\ taken' = TRUE
        /\ told' = [told EXCEPT ![q] = History(q)]
        /\ dialogue' = Append(dialogue, row)
        /\ turn' = [turn EXCEPT ![q] = "begun"]
        /\ UNCHANGED <<offered, loaded, asOf, ranked, context>>
    BY DEF BeginTurn, MovesOn
  <1>3. row \in Rows /\ row.role = "user" /\ row.question = q /\ row.refs = {}
    BY ConversationAssumption DEF Row, Rows
  <1> HIDE DEF row
  <1>4. /\ dialogue' \in Seq(Rows) /\ n \in Nat /\ Len(dialogue') = n + 1
        /\ DOMAIN dialogue = 1..n /\ DOMAIN dialogue' = 1..(n + 1)
        /\ \A i \in 1..n : dialogue'[i] = dialogue[i]
        /\ dialogue'[n + 1] = row
    BY <1>1, <1>2, <1>3, RowMore
  <1>5. /\ turn'[q] = "begun" /\ told'[q] = History(q)
        /\ \A p \in Questions \ {q} : turn'[p] = turn[p] /\ told'[p] = told[p]
    BY <1>1, <1>2 DEF TalkTypes
  <1>6. TalkTypes'
    BY <1>1, <1>2, <1>4 DEF TalkTypes
  <1>7. \A p \in Questions : ~Ongoing(p) /\ (Ongoing(p)' <=> p = q)
    BY <1>1, <1>2, <1>5 DEF OneOngoing, Ongoing
  <1>8. \A i \in 1..n : dialogue[i].question \in Questions /\ dialogue[i].question # q
    <2>1. ASSUME NEW i \in 1..n PROVE dialogue[i].question \in Questions /\ dialogue[i].question # q
      <3>1. i \in DOMAIN dialogue
        BY <1>4
      <3>2. dialogue[i].question \in Questions
        BY <1>1, <3>1, RowsTyped
      <3>3. turn[dialogue[i].question] \in {"begun", "prompted", "over"}
        BY <1>1, <3>1 DEF RowsPast
      <3> QED
        BY <1>2, <3>2, <3>3
    <2> QED
      BY <2>1
  <1>9. RowsPast'
    <2>1. ASSUME NEW i \in 1..(n + 1)
          PROVE  /\ turn'[dialogue'[i].question] \in {"begun", "prompted", "over"}
                 /\ dialogue'[i].role = "user" => dialogue'[i].refs = {}
      <3>1. CASE i = n + 1
        BY <1>3, <1>4, <1>5, <3>1
      <3>2. CASE i # n + 1
        <4>1. i \in 1..n /\ dialogue'[i] = dialogue[i]
          BY <1>4, <3>2
        <4> QED
          BY <1>1, <1>4, <1>5, <1>8, <4>1 DEF RowsPast
      <3> QED
        BY <3>1, <3>2
    <2> QED
      BY <1>4, <2>1 DEF RowsPast
  <1>10. Within'
    BY <1>1, <1>2, <1>4 DEF Within
  <1>11. OneOngoing'
    <2>1. n + 1 - 1 = n /\ dialogue' # <<>>
      BY <1>4
    <2>2. asOf[q] < n + 1
      BY <1>1, <1>4 DEF Within
    <2>3. \A i \in 1..n : dialogue'[i].question # q
      BY <1>4, <1>8
    <2> QED
      BY <1>2, <1>3, <1>4, <1>7, <2>1, <2>2, <2>3 DEF OneOngoing
  <1>12. ToldRight'
    <2>1. Tellable(q, told'[q])
      BY <1>1, <1>5, HistoryTellable
    <2>2. Tellable(q, told[q])'
      BY <1>1, <1>2, <1>4, <2>1, TellableStays
    <2>3. \A p \in Questions \ {q} : told'[p] = <<>>
      BY <1>1, <1>5, <1>7 DEF ToldRight
    <2> QED
      BY <1>7, <2>2, <2>3 DEF ToldRight
  <1>13. PromptRight'
    <2>1. \A p \in Questions : turn'[p] = "prompted" <=> turn[p] = "prompted"
      BY <1>2, <1>5
    <2> QED
      BY <1>1, <1>2, <2>1 DEF PromptRight
  <1> QED
    BY <1>6, <1>9, <1>10, <1>11, <1>12, <1>13 DEF TalkInv

(* The prompt has the best of the evidence, in order, and some of it. *)
LEMMA ContextOf ==
    ASSUME NEW S, NEW passages \in Seq(S), passages # <<>>
    PROVE  /\ Context(passages) \in Seq(S) /\ Context(passages) # <<>>
           /\ IsPrefix(Context(passages), passages)
  <1> DEFINE Used(k) == SumOf([i \in 1..k |-> Size[passages[i]]])
             n == Len(passages)
             R == {k \in DOMAIN passages : k = 1 \/ Used(k) <= ContextBudget}
             m == Max(R)
  <1>1. n \in Nat /\ n # 0 /\ DOMAIN passages = 1..n
    OBVIOUS
  <1>2. R \in SUBSET (0..n) /\ R # {} /\ R \subseteq 1..n
    <2> HIDE DEF Used
    <2>1. 1 \in R
      BY <1>1
    <2> QED
      BY <1>1, <2>1
  <1>3. Context(passages) = SubSeq(passages, 1, m)
    BY DEF Context
  <1>4. m \in R
    <2> HIDE DEF R
    <2> QED
      BY <1>1, <1>2, MaxOf
  <1>5. m \in 1..n
    <2> HIDE DEF R, m
    <2> QED
      BY <1>2, <1>4
  <1> HIDE DEF R, m, n
  <1> DEFINE s == SubSeq(passages, 1, m)
  <1>6. m \in Nat /\ 1 \in Nat /\ 1 # 0 /\ m <= Len(passages) /\ 1 <= m
    BY <1>1, <1>5 DEF n
  <1>7. /\ s \in Seq(S) /\ Len(s) = m - 1 + 1
    BY <1>6, PartOf
  <1>8. Len(s) = m
    BY <1>6, <1>7
  <1> HIDE DEF s
  <1>9. SubSeq(s, 1, m) = s
    <2>1. DOMAIN s = 1..m /\ s = [i \in 1..m |-> s[i]]
      BY <1>6, <1>7, <1>8
    <2>2. /\ SubSeq(s, 1, m) \in Seq(S)
          /\ Len(SubSeq(s, 1, m)) = m - 1 + 1
          /\ \A i \in 1..Len(SubSeq(s, 1, m)) : SubSeq(s, 1, m)[i] = s[1 + i - 1]
      BY <1>6, <1>7, <1>8, PartOf
    <2> DEFINE t == SubSeq(s, 1, m)
    <2>3. Len(t) = m /\ \A i \in 1..m : t[i] = s[i]
      <3>1. Len(t) = m
        BY <1>6, <2>2
      <3>2. \A i \in 1..m : 1 + i - 1 = i
        BY <1>6
      <3> QED
        BY <2>2, <3>1, <3>2
    <2>4. t \in Seq(S)
      BY <2>2
    <2> HIDE DEF t
    <2>5. t = [i \in 1..m |-> t[i]]
      BY <2>3, <2>4
    <2>6. t = s
      BY <2>1, <2>3, <2>5
    <2> QED
      BY <2>6 DEF t
  <1>10. s # <<>>
    BY <1>6, <1>8
  <1>11. IsPrefix(s, passages)
    BY <1>6, <1>8, <1>9 DEF IsPrefix, s
  <1> QED
    BY <1>3, <1>7, <1>10, <1>11 DEF s

(* The prompt takes the best passages in order, as long as they fit. *)
LEMMA PromptStep ==
    ASSUME TalkInv, NEW q \in Questions, Prompt(q) PROVE TalkInv'
  <1>1. TalkTypes /\ RowsPast /\ Within /\ OneOngoing /\ ToldRight /\ PromptRight
    BY DEF TalkInv
  <1>2. /\ turn[q] = "begun" /\ turn' = [turn EXCEPT ![q] = "prompted"]
        /\ UNCHANGED <<offered, dialogue, taken, loaded, asOf, told>>
    BY DEF Prompt, MovesOn
  <1>3. PICK passages \in BoundedSeq(loaded[q], EvidenceK) \ {<<>>} :
          /\ ranked' = [ranked EXCEPT ![q] = passages]
          /\ context' = [context EXCEPT ![q] = Context(passages)]
    BY DEF Prompt
  <1>4. passages \in Seq(loaded[q]) /\ passages # <<>>
    BY <1>3, ConversationAssumption DEF BoundedSeq, SeqOf
  <1>5. /\ turn'[q] = "prompted" /\ ranked'[q] = passages /\ context'[q] = Context(passages)
        /\ \A p \in Questions \ {q} : /\ turn'[p] = turn[p] /\ ranked'[p] = ranked[p]
                                      /\ context'[p] = context[p]
    BY <1>1, <1>2, <1>3 DEF TalkTypes
  <1>6. TalkTypes'
    BY <1>1, <1>2, <1>3 DEF TalkTypes
  <1>7. \A p \in Questions : Ongoing(p)' <=> Ongoing(p)
    BY <1>2, <1>5 DEF Ongoing
  <1>8. RowsPast'
    <2>1. ASSUME NEW i \in DOMAIN dialogue
          PROVE  turn'[dialogue[i].question] \in {"begun", "prompted", "over"}
      <3>1. dialogue[i].question \in Questions
        BY <1>1, RowsTyped
      <3> QED
        BY <1>1, <1>5, <3>1 DEF RowsPast
    <2> QED
      BY <1>1, <1>2, <2>1 DEF RowsPast
  <1>9. Within' /\ OneOngoing'
    BY <1>1, <1>2, <1>7 DEF Within, OneOngoing
  <1>10. ToldRight'
    BY <1>1, <1>2, <1>7 DEF ToldRight, Tellable, SizesOf, Stale
  <1>11. PromptRight'
    BY <1>1, <1>2, <1>4, <1>5, ContextOf DEF PromptRight
  <1> QED
    BY <1>6, <1>8, <1>9, <1>10, <1>11 DEF TalkInv

(* The answer is added behind its own question. *)
LEMMA EndTurnStep ==
    ASSUME TalkInv, NEW q \in Questions, EndTurn(q) PROVE TalkInv'
  <1> DEFINE n == Len(dialogue)
  <1>1. TalkTypes /\ RowsPast /\ Within /\ OneOngoing /\ ToldRight /\ PromptRight
    BY DEF TalkInv
  <1>2. /\ turn[q] \in {"begun", "prompted"} /\ taken' = FALSE /\ Finishes(q)
        /\ UNCHANGED offered
    BY DEF EndTurn
  <1>3. PICK size \in AnswerSizes, refs \in SUBSET ToSet(ranked[q]) :
          dialogue' = Append(dialogue, Row("assistant", q, size, refs))
    BY DEF EndTurn
  <1> DEFINE row == Row("assistant", q, size, refs)
  <1>4. row \in Rows /\ row.role = "assistant" /\ row.question = q
    <2>1. ToSet(ranked[q]) \subseteq loaded[q]
      BY <1>1 DEF PromptRight, ToSet
    <2>2. refs \in SUBSET Passages /\ size \in Nat
      BY <1>1, <2>1, ConversationAssumption DEF TalkTypes
    <2> QED
      BY <2>2 DEF Row, Rows
  <1> HIDE DEF row
  <1>5. /\ dialogue' \in Seq(Rows) /\ n \in Nat /\ Len(dialogue') = n + 1
        /\ DOMAIN dialogue = 1..n /\ DOMAIN dialogue' = 1..(n + 1)
        /\ \A i \in 1..n : dialogue'[i] = dialogue[i]
        /\ dialogue'[n + 1] = row
    BY <1>1, <1>3, <1>4, RowMore DEF row
  <1>6. /\ turn'[q] = "over" /\ asOf'[q] = 0 /\ loaded'[q] = {}
        /\ told'[q] = <<>> /\ ranked'[q] = <<>> /\ context'[q] = <<>>
        /\ \A p \in Questions \ {q} : /\ turn'[p] = turn[p] /\ loaded'[p] = loaded[p]
                                      /\ asOf'[p] = asOf[p] /\ told'[p] = told[p]
                                      /\ ranked'[p] = ranked[p] /\ context'[p] = context[p]
    BY <1>1, <1>2, Finished
  <1>7. TalkTypes'
    <2>1. /\ turn' \in [Questions -> {"new", "loaded", "begun", "prompted", "over"}]
          /\ loaded' \in [Questions -> SUBSET Passages] /\ asOf' \in [Questions -> Nat]
          /\ DOMAIN told' = Questions /\ DOMAIN ranked' = Questions
          /\ DOMAIN context' = Questions
      BY <1>1, <1>2, Finished
    <2> QED
      BY <1>1, <1>2, <1>5, <2>1 DEF TalkTypes
  <1>8. \A p \in Questions : ~Ongoing(p)' /\ (Ongoing(p) => p = q)
    BY <1>1, <1>2, <1>6 DEF OneOngoing, Ongoing
  <1>9. RowsPast'
    <2>1. ASSUME NEW i \in 1..(n + 1)
          PROVE  /\ turn'[dialogue'[i].question] \in {"begun", "prompted", "over"}
                 /\ dialogue'[i].role = "user" => dialogue'[i].refs = {}
      <3>1. CASE i = n + 1
        BY <1>4, <1>5, <1>6, <3>1
      <3>2. CASE i # n + 1
        <4>1. i \in DOMAIN dialogue /\ dialogue'[i] = dialogue[i]
          BY <1>5, <3>2
        <4>2. dialogue[i].question \in Questions
          BY <1>1, <4>1, RowsTyped
        <4> QED
          BY <1>1, <1>6, <4>1, <4>2 DEF RowsPast
      <3> QED
        BY <3>1, <3>2
    <2> QED
      BY <1>5, <2>1 DEF RowsPast
  <1>10. Within'
    <2>1. ASSUME NEW p \in Questions PROVE asOf'[p] \in 0..(n + 1)
      <3>1. CASE p = q
        BY <1>5, <1>6, <3>1
      <3>2. CASE p # q
        <4>1. asOf'[p] = asOf[p] /\ asOf[p] \in 0..n
          BY <1>1, <1>6, <3>2 DEF Within
        <4> QED
          BY <1>5, <4>1
      <3> QED
        BY <3>1, <3>2
    <2> QED
      BY <1>5, <2>1 DEF Within
  <1>11. OneOngoing'
    BY <1>8 DEF OneOngoing
  <1>12. ToldRight'
    BY <1>1, <1>6, <1>8 DEF ToldRight
  <1>13. PromptRight'
    <2>1. \A p \in Questions : turn'[p] # "prompted" /\ (p # q => turn[p] # "prompted")
      BY <1>8 DEF Ongoing
    <2> QED
      BY <1>1, <1>6, <2>1 DEF PromptRight
  <1> QED
    BY <1>7, <1>9, <1>10, <1>11, <1>12, <1>13 DEF TalkInv

(* A restart ends every turn and leaves the rows. *)
LEMMA RecoverStep == ASSUME TalkInv, Recover PROVE TalkInv'
  <1>1. TalkTypes /\ RowsPast
    BY DEF TalkInv
  <1>2. /\ taken' = FALSE /\ UNCHANGED <<offered, dialogue>>
        /\ turn' = [q \in Questions |-> IF turn[q] = "new" THEN "new" ELSE "over"]
        /\ loaded' = [q \in Questions |-> {}]
        /\ asOf' = [q \in Questions |-> 0]
        /\ told' = [q \in Questions |-> <<>>]
        /\ ranked' = [q \in Questions |-> <<>>]
        /\ context' = [q \in Questions |-> <<>>]
    BY DEF Recover
  <1>3. TalkTypes'
    BY <1>1, <1>2 DEF TalkTypes
  <1>4. \A q \in Questions : ~Ongoing(q)' /\ turn'[q] # "prompted"
    BY <1>2 DEF Ongoing
  <1>5. RowsPast'
    <2>1. ASSUME NEW i \in DOMAIN dialogue PROVE turn'[dialogue[i].question] = "over"
      <3>1. dialogue[i].question \in Questions
        BY <1>1, RowsTyped
      <3>2. turn[dialogue[i].question] # "new"
        BY <1>1 DEF RowsPast
      <3> QED
        BY <1>2, <3>1, <3>2
    <2> QED
      BY <1>1, <1>2, <2>1 DEF RowsPast
  <1>6. Within'
    <2>1. Len(dialogue) \in Nat
      BY <1>1 DEF TalkTypes
    <2> QED
      BY <1>2, <2>1 DEF Within
  <1>7. OneOngoing' /\ ToldRight' /\ PromptRight'
    BY <1>2, <1>4 DEF OneOngoing, ToldRight, PromptRight
  <1> QED
    BY <1>3, <1>5, <1>6, <1>7 DEF TalkInv

-----------------------------------------------------------------------------
(* The theorems *)

(* So the invariant holds in every state of a session. *)
LEMMA TalkInductive == ConversationSpec => []TalkInv
  <1>1. ConversationInit => TalkInv
    BY TalkInit
  <1>2. TalkInv /\ [ConversationNext]_conversationVars => TalkInv'
    <2> SUFFICES ASSUME TalkInv, [ConversationNext]_conversationVars PROVE TalkInv'
      OBVIOUS
    <2>1. CASE UNCHANGED conversationVars
      BY <2>1 DEF conversationVars, TalkInv, TalkTypes, RowsPast, Within, OneOngoing, ToldRight,
                  PromptRight, Ongoing, Tellable, SizesOf, Stale
    <2>2. CASE ConversationNext
      BY <2>2, ChangeStep, RecoverStep, LoadScopeStep, TurnAwayStep, BeginTurnStep,
         PromptStep, EndTurnStep
      DEF ConversationNext
    <2> QED
      BY <2>1, <2>2
  <1> QED
    BY <1>1, <1>2, PTL DEF ConversationSpec

(* The invariant types the state, *)
LEMMA TalkTyped == TalkInv => ConversationTypeOK
  <1> SUFFICES ASSUME TalkInv PROVE ConversationTypeOK
    OBVIOUS
  <1>1. TalkTypes /\ Within /\ ToldRight /\ PromptRight
    BY DEF TalkInv
  <1>2. ToSet(dialogue) \subseteq Rows
    <2>1. dialogue \in Seq(Rows)
      BY <1>1 DEF TalkTypes
    <2> HIDE DEF Rows
    <2> QED
      BY <2>1 DEF ToSet
  <1>3. \A q \in Questions : asOf[q] \in 0..Len(dialogue)
    BY <1>1 DEF Within
  <1>4. ASSUME NEW q \in Questions PROVE ToSet(told[q]) \subseteq DOMAIN dialogue
    <2>1. CASE ~Ongoing(q)
      BY <1>1, <2>1 DEF ToldRight, ToSet
    <2>2. CASE Ongoing(q)
      <3> DEFINE S == 1..asOf[q]
      <3>1. told[q] \in Seq(S)
        BY <1>1, <2>2 DEF ToldRight, Tellable
      <3>2. S \subseteq DOMAIN dialogue
        BY <1>1 DEF TalkTypes, Within
      <3> HIDE DEF S
      <3> QED
        BY <3>1, <3>2 DEF ToSet
    <2> QED
      BY <2>1, <2>2
  <1>5. ASSUME NEW q \in Questions
        PROVE  ToSet(ranked[q]) \subseteq loaded[q] /\ ToSet(context[q]) \subseteq loaded[q]
    <2>1. CASE turn[q] = "prompted"
      BY <1>1, <2>1 DEF PromptRight, ToSet
    <2>2. CASE turn[q] # "prompted"
      BY <1>1, <2>2 DEF PromptRight, ToSet
    <2> QED
      BY <2>1, <2>2
  <1> QED
    BY <1>1, <1>2, <1>3, <1>4, <1>5 DEF ConversationTypeOK, TalkTypes, Rows

(* and it says that every turn under way is told what its reader saw. *)
LEMMA TalkInformed == TalkInv => Informed
  <1> SUFFICES ASSUME TalkInv, NEW q \in Questions, turn[q] \in {"begun", "prompted"}
               PROVE  LET places == ToSet(told[q])
                          sizes == [k \in DOMAIN told[q] |-> dialogue[told[q][k]].size]
                      IN /\ \A j, k \in DOMAIN told[q] : j < k => told[q][j] < told[q][k]
                         /\ \A i \in places :
                              /\ i < PlaceOf(q)
                              /\ turn[dialogue[i].question] = "over"
                              /\ dialogue[i].refs \subseteq loaded[q]
                              /\ \A k \in i..asOf[q] : k \in places \/ Stale(q, k)
                         /\ SumOf(sizes) <= HistoryBudget
                         /\ turn[q] = "prompted" =>
                              context[q] # <<>> /\ IsPrefix(context[q], ranked[q])
    BY DEF Informed
  <1> DEFINE n == Len(dialogue)
             D == {i \in DOMAIN dialogue : dialogue[i].role = "user"
                                           /\ dialogue[i].question = q}
  <1>1. TalkTypes /\ RowsPast /\ Within /\ OneOngoing /\ ToldRight /\ PromptRight
    BY DEF TalkInv
  <1>2. Ongoing(q) /\ Tellable(q, told[q])
    BY <1>1 DEF Ongoing, ToldRight
  <1>3. n \in Nat /\ DOMAIN dialogue = 1..n /\ n # 0
    BY <1>1, <1>2 DEF TalkTypes, OneOngoing
  <1>4. /\ dialogue[n].role = "user" /\ dialogue[n].question = q
        /\ \A i \in 1..(n - 1) : dialogue[i].question # q
        /\ asOf[q] < n /\ asOf[q] \in Nat
        /\ \A p \in Questions : Ongoing(p) => p = q
    BY <1>1, <1>2 DEF OneOngoing, TalkTypes
  <1>5. PlaceOf(q) = n
    <2>1. D = {n}
      <3>1. n \in D
        BY <1>3, <1>4
      <3>2. ASSUME NEW i \in D PROVE i = n
        <4>1. i \in 1..n /\ i \notin 1..(n - 1)
          BY <1>3, <1>4
        <4> QED
          BY <1>3, <4>1
      <3> HIDE DEF D
      <3> QED
        BY <3>1, <3>2
    <2>2. D \in SUBSET (0..n) /\ D # {}
      BY <1>3, <2>1
    <2>3. Max(D) \in D
      <3> HIDE DEF D, n
      <3> QED
        BY <1>3, <2>2, MaxOf
    <2> QED
      BY <2>1, <2>3 DEF PlaceOf
  <1>6. ToSet(told[q]) = Range(told[q])
    BY DEF ToSet, Range
  <1>7. ASSUME NEW i \in Range(told[q])
        PROVE  /\ i < PlaceOf(q)
               /\ turn[dialogue[i].question] = "over"
               /\ dialogue[i].refs \subseteq loaded[q]
    <2>1. i \in 1..asOf[q] /\ ~Stale(q, i)
      <3>1. told[q] \in Seq(1..asOf[q]) /\ ~Stale(q, i)
        BY <1>2 DEF Tellable
      <3>2. \A k \in 1..Len(told[q]) : told[q][k] \in 1..asOf[q]
        BY <3>1, ElementOfSeq
      <3> QED
        BY <3>1, <3>2 DEF Range
    <2>2. i < n /\ i \in 1..(n - 1) /\ i \in DOMAIN dialogue
      BY <1>3, <1>4, <2>1
    <2>3. dialogue[i].question \in Questions /\ dialogue[i].question # q
          /\ dialogue[i].role \in {"user", "assistant"}
      BY <1>1, <1>4, <2>2, RowsTyped
    <2>4. turn[dialogue[i].question] = "over"
      BY <1>1, <1>4, <2>2, <2>3 DEF RowsPast, Ongoing
    <2>5. dialogue[i].refs \subseteq loaded[q]
      <3>1. CASE dialogue[i].role = "user"
        BY <1>1, <2>2, <3>1 DEF RowsPast
      <3>2. CASE dialogue[i].role = "assistant"
        BY <2>1, <3>2 DEF Stale
      <3> QED
        BY <2>3, <3>1, <3>2
    <2> QED
      BY <1>5, <2>2, <2>4, <2>5
  <1>8. turn[q] = "prompted" => context[q] # <<>> /\ IsPrefix(context[q], ranked[q])
    BY <1>1 DEF PromptRight
  <1>9. /\ \A j, k \in DOMAIN told[q] : j < k => told[q][j] < told[q][k]
        /\ \A i \in Range(told[q]) : \A k \in i..asOf[q] : k \in Range(told[q]) \/ Stale(q, k)
        /\ SumOf([k \in DOMAIN told[q] |-> dialogue[told[q][k]].size]) <= HistoryBudget
    BY <1>2 DEF Tellable, SizesOf
  <1> QED
    BY <1>6, <1>7, <1>8, <1>9

(* Every variable has its type; what a turn is told and prompted with comes   *)
(* from the dialogue and from what it has loaded.                             *)
THEOREM ConversationTypesCorrect == ConversationSpec => []ConversationTypeOK
  BY TalkInductive, TalkTyped, PTL

(* Whatever the base and the other turns do meanwhile, a turn is asked with    *)
(* turns that are over, in order, none of them citing what is out of its      *)
(* scope, the recent before the old, within the budget, and with its best     *)
(* evidence (begin_turn, build_context).                                      *)
THEOREM TurnsInformed == ConversationSpec => []Informed
  BY TalkInductive, TalkInformed, PTL

===============================================================================
