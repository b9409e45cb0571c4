----------------------------- MODULE MCServices -----------------------------
(***************************************************************************)
(* The parts that share no state with one another: a behaviour takes one   *)
(* of them, and the rest stand still at their beginning.                   *)
(***************************************************************************)
EXTENDS Accounts, Knowledge, Slicing, Media, Answering, Conversation, ChatStore

VARIABLE part

serviceVars == <<part, accountVars, knowledgeVars, slicingVars, mediaVars, answeringVars,
                 conversationVars, storeVars>>

ServicesInit ==
    /\ part \in {"accounts", "knowledge", "slicing", "media", "answering", "conversation",
               "store"}
    /\ AccountsInit /\ KnowledgeInit /\ SlicingInit /\ MediaInit /\ AnsweringInit
    /\ ConversationInit /\ StoreInit
    /\ part # "conversation" => offered = {}
    /\ part # "knowledge" => bases = {}

ServicesNext ==
    /\ UNCHANGED part
    /\ \/ /\ part = "accounts" /\ AccountsNext
          /\ UNCHANGED <<knowledgeVars, slicingVars, mediaVars,
                         answeringVars, conversationVars, storeVars>>
       \/ /\ part = "knowledge" /\ KnowledgeNext
          /\ UNCHANGED <<accountVars, slicingVars, mediaVars,
                         answeringVars, conversationVars, storeVars>>
       \/ /\ part = "slicing" /\ SlicingNext
          /\ UNCHANGED <<accountVars, knowledgeVars, mediaVars,
                         answeringVars, conversationVars, storeVars>>
       \/ /\ part = "media" /\ MediaNext
          /\ UNCHANGED <<accountVars, knowledgeVars, slicingVars,
                         answeringVars, conversationVars, storeVars>>
       \/ /\ part = "answering" /\ AnsweringNext
          /\ UNCHANGED <<accountVars, knowledgeVars, slicingVars,
                         mediaVars, conversationVars, storeVars>>
       \/ /\ part = "conversation" /\ ConversationNext
          /\ UNCHANGED <<accountVars, knowledgeVars, slicingVars,
                         mediaVars, answeringVars, storeVars>>
       \/ /\ part = "store" /\ StoreNext
          /\ UNCHANGED <<accountVars, knowledgeVars, slicingVars,
                         mediaVars, answeringVars, conversationVars>>

ServicesSpec == ServicesInit /\ [][ServicesNext]_serviceVars

(* Every variable of every part has its type; see the seven conjuncts.      *)
ServicesTypeOK ==
    /\ AccountsTypeOK
    /\ KnowledgeTypeOK
    /\ SlicingTypeOK
    /\ MediaTypeOK
    /\ AnsweringTypeOK
    /\ ConversationTypeOK
    /\ StoreTypeOK

(* The bases are named like the registrations, the documents and the stored   *)
(* sessions like the links (see the cfg): few permutations serve all parts.  *)
Symmetry == Permutations(Handles \cup Bases) \cup Permutations(Links \cup Documents \cup Chats)

-----------------------------------------------------------------------------
(* Files: texts of up to five characters, DOCX files of up to three elements, *)
(* PDF files of up to two pages of up to two blocks. *)

Text(characters) == [kind |-> "text", text |-> characters]
Docx(elements) == [kind |-> "docx", elements |-> elements]
Pdf(pages) == [kind |-> "pdf", pages |-> pages]
Element(kind, characters) == [kind |-> kind, text |-> characters]

MCElements ==
    {Element("heading", <<"n">>), Element("heading", <<"w">>), Element("heading", <<"s">>),
     Element("paragraph", <<"n", "w", "s", "n">>),
     Element("paragraph", <<"w">>), Element("paragraph", <<"s">>)}

MCPages == BoundedSeq({<<"n">>, <<"w", "n">>, <<"n", "n", "w", "n">>}, 2)

MCOriginals ==
    {Text(t) : t \in BoundedSeq({"n", "w", "s"}, 5) \cup {NoText}}
      \cup {Docx(e) : e \in BoundedSeq(MCElements, 3)}
      \cup {Pdf(p) : p \in BoundedSeq(MCPages, 2)}

MCRevisions ==
    {f \in MCOriginals :
       CASE f.kind = "docx" -> Len(f.elements) = 2
         [] f.kind = "pdf" -> Len(f.pages) = 1
         [] f.kind = "text" -> f.text \in {<<"w", "s", "n", "n">>,
                                           <<"n", "n", "n", "n", "w">>}}

-----------------------------------------------------------------------------
(* Media: every route, with and without clips, with speech and frames at and *)
(* across the edges of the windows; times up to 6, windows of 2. *)

Material(route, type, segments, frames, source, framesAt, clip, resolver) ==
    [route |-> route, type |-> type, segments |-> segments, frames |-> frames,
     source |-> source, framesAt |-> framesAt, clip |-> clip, resolver |-> resolver]

Said(from, to) == [from |-> from, to |-> to]

MCThreeWindows == <<Said(0, 1), Said(2, 5), Said(5, 6)>>

MCSpeech ==
    {<<>>, MCThreeWindows}
      \cup {<<Said(a, b)>> : a \in 0..2, b \in {3, 4}}
      \cup {<<Said(0, b), Said(a, 4)>> : a \in 1..3, b \in {2, 3}}

MCFrames == {{}, {0}, {2}, {4}, {1, 3}, {2, 4}}

MCMaterials ==
    {Material("script", "image", <<>>, {}, "none", at, FALSE, "none") :
       at \in {"local", "minio", "http"}}
    \cup {Material("script", type, s, f, source, at, clip, resolver) :
            type \in {"audio", "video"}, s \in {MCThreeWindows, <<Said(1, 3)>>},
            f \in {{}, {0}, {1, 3}}, source \in {"none", "local", "minio"},
            at \in {"local", "minio", "http"}, clip \in BOOLEAN,
            resolver \in {"none", "http"}}
    \cup {Material("recording", "video", s, f, "local", "local", TRUE, "minio") :
            s \in MCSpeech, f \in MCFrames}
    \cup {Material("recording", type, MCThreeWindows, {}, "local", "local", TRUE, resolver) :
            type \in {"audio", "video"}, resolver \in {"none", "http"}}

-----------------------------------------------------------------------------
(* What the model writes: well formed, with prose that looks like a marker,  *)
(* with an empty or a broken block, with a fence, with a block that never    *)
(* ends, with the wrong marker, with a link of its own. *)

MCIds == <<"1", "2", "3">>
MCReferences == <<"[1]", "[2]", "[3]">>
MCFences == <<"{1}", "{2}", "{3}">>
MCChunkReferences == <<"[chunk:1]", "[chunk:2]", "[chunk:3]">>

MCGenerations ==
    {<<"a", "[1]", "s">> \o StartMarker \o <<"s", "1", "s">> \o EndMarker,
     <<"a", "<", "[2]">> \o StartMarker \o <<"2", "3", "2">> \o EndMarker \o <<"s">>,
     <<"a", "<">> \o StartMarker \o <<"{}">> \o EndMarker \o <<"[1]">>,
     <<"s", "[1]", "{2}", "s", "[2]">>,
     <<"[1]", "<">> \o StartMarker \o <<"?">> \o EndMarker \o StartMarker \o <<"1">> \o EndMarker,
     <<"a", "{1}", "[chunk:3]">> \o StartMarker \o <<"[2]">>,
     <<"[2]", "[1]", "<", "<", "s">> \o EndMarker}

-----------------------------------------------------------------------------
(* Lengths in a conversation: one, but two for the question q2, and three,   *)
(* more than fits, for the passage p2.                                       *)

MCSize == [v \in Questions \cup Passages |->
             CASE ToString(v) = "q2" -> 2 [] ToString(v) = "p2" -> 3 [] OTHER -> 1]

=============================================================================
