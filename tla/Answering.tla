------------------------------ MODULE Answering ------------------------------
(***************************************************************************)
(* From a question to an answer with citations: hybrid retrieval inside    *)
(* the caller's scope, reranking, and a streamed generation whose machine- *)
(* readable citation block is hidden from the reader and checked against   *)
(* the evidence. The hosted services may answer anything, or fail; what    *)
(* becomes of a turn that ends is modelled in ChatTurn.                    *)
(***************************************************************************)
EXTENDS Naturals, Sequences, SequencesExt, FiniteSets, FiniteSetsExt, Lists,
        Texts

CONSTANTS
    MaxChunk,       \* chunks are numbered in the order of their ids
    CandidateK,     \* RAG_RETRIEVAL_K
    AnswerK,        \* RAG_ANSWER_K
    RankConstant,   \* RAG_RRF_RANK_CONSTANT
    DenseWeight,
    LexicalWeight,
    Ids,            \* how each chunk's id is written in a citation block,
    References,     \* in the prose ("[1]"),
    Fences,         \* in a JSON fence that cites the chunk,
    ChunkReferences,\* and in the link that takes a reference's place
    Generations     \* the texts the language model may write

ChunkIds == 1..MaxChunk

(* A text is a sequence of these and of other words: "{}" is a block without  *)
(* ids, "?" what is no JSON, "no evidence" the fixed answer. The markers      *)
(* share their first characters, as <<CITATIONS>> and <<END_CITATIONS>> do.   *)
StartMarker == <<"<", "<", "C">>
EndMarker == <<"<", "<", "E">>

Words == {"s", "<", "C", "E", "{}", "?", "no evidence"}

(* Every chunk has its own way to be written, in each of the four places. *)
ASSUME WordsAssumption ==
    LET words == <<Ids, References, Fences, ChunkReferences>> IN
    /\ MaxChunk \in Nat
    /\ \A v \in 1..4 : words[v] \in [ChunkIds -> STRING \ Words]
    /\ \A v, w \in 1..4 : \A c, d \in ChunkIds :
         words[v][c] = words[w][d] => v = w /\ c = d

(* retrieval_configuration *)
ASSUME AnsweringAssumption ==
    /\ CandidateK \in Nat \ {0} /\ AnswerK \in Nat \ {0} /\ RankConstant \in Nat \ {0}
    /\ AnswerK <= CandidateK
    /\ DenseWeight \in Nat /\ LexicalWeight \in Nat
    /\ DenseWeight # 0 \/ LexicalWeight # 0
    /\ Generations \subseteq Seq(STRING)

VARIABLES
    step,       \* asked, found, writing, answered or failed
    inScope,    \* the chunks load_scoped_chunks found
    evidence,   \* the candidates: those found, then those kept by the reranker
    text,       \* what the model will write
    heard,      \* how much of it has arrived
    pending,    \* StreamingCitationSplitter._pending
    hidden,     \* StreamingCitationSplitter._in_citations
    shown,      \* the text sent to the reader so far
    answer,     \* the answer of the done event
    citations   \* its citations

answeringVars ==
    <<step, inScope, evidence, text, heard, pending, hidden, shown, answer, citations>>

(* A chunk as the SQL rows have it, or as the payload of some Qdrant point   *)
(* claims it to be.                                                          *)
Copies == {"saved", "claimed"}
Candidate(chunk, copy) == [chunk |-> chunk, copy |-> copy]

-----------------------------------------------------------------------------
(* Retrieval *)

(* BM25Retriever.search ranks the chunks in scope that share a term with the *)
(* question, each once; the question decides which, in what order.           *)
LexicalRankings(chunks) ==
    {ranking \in BoundedSeq(chunks, CandidateK) : IsInjective(ranking)}

(* Slip: the payload of the point is taken as it comes. *)
ScopedClaimed(points, scope) == points

(* ScopedVectorRetriever.search: what Qdrant returns counts only if its chunk *)
(* id is in scope, and then the chunk is the one from SQL.                    *)
Scoped(points, scope) ==
    LET inside == Kept(points, {p \in Range(points) : p.chunk \in scope})
    IN [i \in DOMAIN inside |-> Candidate(inside[i].chunk, "saved")]

(* The share a rank gives, 1 / (rank_constant + rank), in whole numbers.     *)
Share(rank) ==
    FoldLeft(LAMBDA product, r : IF r = rank THEN product ELSE product * (RankConstant + r),
             1, [r \in 1..CandidateK |-> r])

Shares(ranking, c) ==
    SumOf([r \in DOMAIN ranking |-> IF ranking[r].chunk = c THEN Share(r) ELSE 0])

(* Scores add up. *)
Score(lexical, dense, c) ==
    LexicalWeight * Shares(lexical, c) + DenseWeight * Shares(dense, c)

(* reciprocal_rank_fusion: by score, ties go to the smaller chunk id. The      *)
(* first candidate seen for a chunk is the one kept.                         *)
Fuse(lexical, dense) ==
    LET all == lexical \o dense
        First(c) == all[Min({i \in DOMAIN all : all[i].chunk = c})]
        fused == {First(all[i].chunk) : i \in DOMAIN all}
        Of(candidate) == Score(lexical, dense, candidate.chunk)
        ranked == Ranked(fused, {p \in fused \X fused :
                                   \/ Of(p[1]) > Of(p[2])
                                   \/ Of(p[1]) = Of(p[2]) /\ p[1].chunk < p[2].chunk})
    IN SubSeq(ranked, 1, Min({CandidateK, Len(ranked)}))

(* The rows a reranking service may send; the last index does not exist. *)
RerankRows ==
    BoundedSeq([index : 1..(Len(evidence) + 1), score : 1..2], Len(evidence))

(* _parse_rerank_results raises on anything else. *)
RowsValid(rows) ==
    /\ rows # <<>>
    /\ \A i \in DOMAIN rows : rows[i].index \in DOMAIN evidence
    /\ \A i, j \in DOMAIN rows : rows[i].index = rows[j].index => i = j

(* JinaReranker.rerank: by score, then by chunk id. *)
Reranked(rows) ==
    LET scored == Range(rows)
        ranked == Ranked(scored, {p \in scored \X scored :
                                    \/ p[1].score > p[2].score
                                    \/ /\ p[1].score = p[2].score
                                       /\ evidence[p[1].index].chunk < evidence[p[2].index].chunk})
    IN [i \in 1..Min({AnswerK, Len(ranked)}) |-> evidence[ranked[i].index]]

-----------------------------------------------------------------------------
(* Citations *)

(* Where a marker stands first from some place on; 0 when nowhere. *)
Find(marker, string, from) ==
    LET places == {i \in from..(Len(string) - Len(marker) + 1) :
                     SubSeq(string, i, i + Len(marker) - 1) = marker}
    IN IF places = {} THEN 0 ELSE Min(places)

(* _CITATION_BLOCK_RE.finditer: from left to right, a block begins at a start *)
(* marker behind the block before, and ends at the next end marker.           *)
CitationBlocks(raw) ==
    LET Ends(p) == Find(EndMarker, raw, p + Len(StartMarker))
        Free(found) == IF found = <<>> THEN 1 ELSE found[Len(found)].to + 1
        Look(found, p) ==
          IF Free(found) <= p /\ Find(StartMarker, raw, p) = p /\ Ends(p) # 0
          THEN Append(found, [from |-> p, to |-> Ends(p) + Len(EndMarker) - 1])
          ELSE found
    IN FoldLeft(Look, <<>>, [p \in DOMAIN raw |-> p])

(* The chunk that is written like this. *)
ChunkWith(words, word) == CHOOSE c \in ChunkIds : words[c] = word

(* _find_payload: the ids of the first block, or else fence, that is JSON. *)
PayloadIds(raw) ==
    LET blocks == CitationBlocks(raw)
        Inside(b) == Strip(SubSeq(raw, b.from + Len(StartMarker), b.to - Len(EndMarker)))
        fences == Kept(raw, Range(Fences))
        bodies == [b \in DOMAIN blocks |-> Inside(blocks[b])]
                  \o [f \in DOMAIN fences |-> <<Ids[ChunkWith(Fences, fences[f])]>>]
        json == Kept(bodies, {body \in Range(bodies) :
                                body # <<>> /\ Range(body) \subseteq Range(Ids) \cup {"{}"}})
        ids == IF json = <<>> THEN <<>> ELSE Kept(json[1], Range(Ids))
    IN [i \in DOMAIN ids |-> ChunkWith(Ids, ids[i])]

(* CitationParser.parse, then frontend_citations: without a payload the      *)
(* references in the text count, in the order of the evidence; only evidence *)
(* in scope is cited, once, with the metadata of the SQL rows.               *)
ParsedCitations(raw) ==
    LET mentioned == Kept(evidence, {e \in Range(evidence) : References[e.chunk] \in Range(raw)})
        ids == PayloadIds(raw)
        requested == IF ids # <<>> THEN ids
                     ELSE [i \in DOMAIN mentioned |-> mentioned[i].chunk]
        Known(id) == id \in inScope /\ \E i \in DOMAIN evidence : evidence[i].chunk = id
        Add(list, id) == IF ~Known(id) \/ \E i \in DOMAIN list : list[i].chunk = id
                         THEN list ELSE Append(list, Candidate(id, "saved"))
    IN FoldLeft(Add, <<>>, requested)

(* The text without its blocks and fences. *)
Cleaned(raw) ==
    LET blocks == CitationBlocks(raw)
        Within(i) == \E b \in DOMAIN blocks : blocks[b].from <= i /\ i <= blocks[b].to
        prose == Strip(FlattenSeq([i \in DOMAIN raw |-> IF Within(i) THEN <<>> ELSE <<raw[i]>>]))
    IN Strip(Kept(prose, Range(prose) \ Range(Fences)))

(* normalize_answer: the references that are cited become links. *)
Linked(string, cited) ==
    [i \in DOMAIN string |->
       IF \E k \in DOMAIN cited : string[i] = References[cited[k].chunk]
       THEN ChunkReferences[ChunkWith(References, string[i])]
       ELSE string[i]]

-----------------------------------------------------------------------------
(* The splitter *)

(* Slip: one character too few is held back. *)
HoldbackShort == Len(StartMarker) - 2

Holdback == Len(StartMarker) - 1

(* StreamingCitationSplitter.feed; what it returns is sent to the reader. *)
Feed(delta) ==
    LET held == pending \o delta
        marker == Find(StartMarker, held, 1)
        free == IF Len(held) > Holdback THEN Len(held) - Holdback ELSE 0
    IN IF hidden
       THEN UNCHANGED <<pending, hidden, shown>>
       ELSE IF marker # 0
       THEN /\ shown' = shown \o SubSeq(held, 1, marker - 1)
            /\ pending' = <<>>
            /\ hidden' = TRUE
       ELSE /\ shown' = shown \o SubSeq(held, 1, free)
            /\ pending' = SubSeq(held, free + 1, Len(held))
            /\ UNCHANGED hidden

-----------------------------------------------------------------------------
AnsweringInit ==
    /\ step = "asked"
    /\ inScope = {}
    /\ evidence = <<>>
    /\ text = <<>>
    /\ heard = 0
    /\ pending = <<>>
    /\ hidden = FALSE
    /\ shown = <<>>
    /\ answer = <<>>
    /\ citations = <<>>

generation == <<text, heard, pending, hidden, shown>>
outcome == <<answer, citations>>

(* HybridRetriever.search over the scope; Qdrant may return any points.      *)
Retrieve ==
    /\ step = "asked"
    /\ inScope' \in (SUBSET ChunkIds) \ {{}}
    /\ \E lexical \in LexicalRankings(inScope'),
          points \in BoundedSeq([chunk : ChunkIds, copy : Copies], CandidateK) :
         evidence' = Fuse([i \in DOMAIN lexical |-> Candidate(lexical[i], "saved")],
                          Scoped(points, inScope'))
    /\ step' = "found"
    /\ UNCHANGED <<generation, outcome>>

(* Nothing found: a fixed answer, and no request to the model. *)
NoEvidence ==
    /\ step = "found"
    /\ evidence = <<>>
    /\ step' = "answered"
    /\ answer' = <<"no evidence">>
    /\ citations' = <<>>
    /\ UNCHANGED <<inScope, evidence, generation>>

Rerank ==
    /\ step = "found"
    /\ evidence # <<>>
    /\ \E rows \in RerankRows :
         /\ RowsValid(rows)
         /\ evidence' = Reranked(rows)
    /\ text' \in Generations
    /\ step' = "writing"
    /\ UNCHANGED <<inScope, heard, pending, hidden, shown, outcome>>

(* A delta of the model arrives. *)
Delta ==
    /\ step = "writing"
    /\ \E next \in (heard + 1)..Len(text) :
         /\ heard' = next
         /\ Feed(SubSeq(text, heard + 1, next))
    /\ UNCHANGED <<step, inScope, evidence, text, outcome>>

(* The stream ends: with [DONE], or because the connection was closed. What  *)
(* the splitter still holds is sent, and the whole text is parsed.           *)
Finish ==
    /\ step = "writing"
    /\ step' = "answered"
    /\ shown' = shown \o pending
    /\ pending' = <<>>
    /\ LET raw == SubSeq(text, 1, heard) IN
         /\ citations' = ParsedCitations(raw)
         /\ answer' = Linked(Cleaned(raw), citations')
    /\ UNCHANGED <<inScope, evidence, text, heard, hidden>>

(* A request to a hosted service raises. *)
Fail ==
    /\ \/ step \in {"asked", "writing"}
       \/ step = "found" /\ evidence # <<>>
    /\ step' = "failed"
    /\ UNCHANGED <<inScope, evidence, generation, outcome>>

AnsweringNext ==
    Retrieve \/ NoEvidence \/ Rerank \/ Delta \/ Finish \/ Fail

AnsweringSpec == AnsweringInit /\ [][AnsweringNext]_answeringVars

AnsweringTypeOK ==
    /\ step \in {"asked", "found", "writing", "answered", "failed"}
    /\ inScope \subseteq ChunkIds
    /\ Range(evidence) \subseteq [chunk : ChunkIds, copy : Copies]
    /\ text = <<>> \/ text \in Generations
    /\ heard \in 0..Len(text)
    /\ hidden \in BOOLEAN

-----------------------------------------------------------------------------
(* Properties *)

(* What the text says before its citation block. *)
BeforeBlock(string) ==
    LET marker == Find(StartMarker, string, 1)
    IN IF marker = 0 THEN string ELSE SubSeq(string, 1, marker - 1)

(* However the model's text is cut into deltas, the reader is sent what      *)
(* stands before the citation block and nothing of the block, and all of it   *)
(* in the end.                                                               *)
StreamAgrees ==
    LET raw == SubSeq(text, 1, heard)
    IN /\ IsPrefix(shown, BeforeBlock(raw))
       /\ (step = "answered" /\ evidence # <<>>) => shown = BeforeBlock(raw)

(* Whatever Qdrant, the reranker and the model say: what the model reads and *)
(* what is cited are chunks in scope as the SQL rows have them, no chunk is  *)
(* cited twice or without being evidence, and the answer links exactly the   *)
(* references that are cited (a link the model wrote itself stays) and, when *)
(* the block ends the text, says what was streamed.                          *)
CitationsTraceable ==
    /\ \A i \in DOMAIN evidence :
         evidence[i].chunk \in inScope /\ evidence[i].copy = "saved"
    /\ IsInjective(evidence)
    /\ step = "answered" =>
         LET raw == SubSeq(text, 1, heard)
             blocks == CitationBlocks(raw)
         IN /\ Range(citations) \subseteq Range(evidence)
            /\ IsInjective(citations)
            /\ \A c \in ChunkIds : \A i \in DOMAIN answer :
                 /\ answer[i] = ChunkReferences[c] =>
                      Candidate(c, "saved") \in Range(citations) \/ answer[i] \in Range(raw)
                 /\ answer[i] = References[c] =>
                      Candidate(c, "saved") \notin Range(citations)
            /\ (blocks # <<>> /\ Blank(SubSeq(raw, blocks[1].to + 1, heard))) =>
                 answer = Linked(Cleaned(shown), citations)

=============================================================================
