------------------------------- MODULE Slicing -------------------------------
(***************************************************************************)
(* From the original file to its chunks, and back: a worker parses the     *)
(* file, cuts its blocks into chunks and records where each one stands;    *)
(* the reader later parses the original again and shows every citation at  *)
(* its place. Cutting and locating are two pieces of code that have to     *)
(* agree, in different units: characters and UTF-16 code units.            *)
(*                                                                         *)
(* A text is a sequence of "n" (a narrow character), "w" (a wide one, two  *)
(* code units), "s" (white space) and "nl" (the line break behind a        *)
(* heading).                                                               *)
(***************************************************************************)
EXTENDS Naturals, Sequences, SequencesExt, FiniteSets, FiniteSetsExt, Lists, Texts

CONSTANTS
    Originals,  \* the files that may be uploaded
    Revisions,  \* those of them a later parse may show in place of the original
    MaxChars,   \* DOCUMENT_MAX_CHARS
    Overlap     \* DOCUMENT_OVERLAP_CHARS

(* A file is a record: text files have a text (NoText where no encoding      *)
(* fits), DOCX files have elements, PDF files have pages of text blocks in   *)
(* reading order, none of them empty (remove_repeated_edge_blocks begins by  *)
(* leaving those out).                                                       *)
Characters == {"n", "w", "s"}

NoText == <<"undecodable">>

Files ==
    [kind : {"text"}, text : Seq(Characters) \cup {NoText}]
      \cup [kind : {"docx"},
            elements : Seq([kind : {"heading", "paragraph"}, text : Seq(Characters)])]
      \cup [kind : {"pdf"}, pages : Seq(Seq(Seq(Characters) \ {<<>>}))]

ASSUME SlicingAssumption ==
    /\ Overlap \in Nat
    /\ MaxChars \in Nat
    /\ Overlap < MaxChars
    /\ Originals \subseteq Files
    /\ Revisions \subseteq Originals

VARIABLES
    reading,   \* what happens next: upload, index, open, or over
    original,  \* the uploaded file
    slices     \* its chunks: number, content and saved locator

slicingVars == <<reading, original, slices>>

-----------------------------------------------------------------------------
(* Parsing. A block is a text with a heading, <<>> for none. *)

Block(text, heading) == [text |-> text, heading |-> heading]

(* DocxParser: a heading is carried to the blocks after it, up to the next. *)
DocxBlocks(elements) ==
    LET Add(acc, e) ==
          IF Blank(e.text) THEN acc
          ELSE IF e.kind = "heading" THEN [acc EXCEPT !.heading = Strip(e.text)]
          ELSE [acc EXCEPT !.blocks = Append(@, Block(Strip(e.text), acc.heading))]
    IN FoldLeft(Add, [blocks |-> <<>>, heading |-> <<>>], elements).blocks

(* The first and the last block of every page are counted; a block that is   *)
(* alone on its page is both. (The code compares blocks without regard to    *)
(* case and spacing; here equal texts are equal in that sense.)              *)
EdgeCount(pages, text) ==
    LET Edges(page) == IF page = <<>> THEN 0
                       ELSE (IF page[1] = text THEN 1 ELSE 0)
                            + (IF page[Len(page)] = text THEN 1 ELSE 0)
    IN FoldLeft(LAMBDA n, page : n + Edges(page), 0, pages)

(* remove_repeated_edge_blocks with its default of two occurrences. *)
WithoutEdges(pages) ==
    LET Repeated(text) == EdgeCount(pages, text) >= 2
        Clean(page) ==
          LET kept == {i \in DOMAIN page : ~Repeated(page[i])}
          IN IF kept = {} THEN <<>> ELSE SubSeq(page, Min(kept), Max(kept))
    IN [p \in DOMAIN pages |-> Clean(pages[p])]

Plain(texts) == [i \in DOMAIN texts |-> Block(texts[i], <<>>)]

(* parse_file for a PDF: when no block is left on any page, the text of each *)
(* page as it stands becomes one block.                                      *)
PdfBlocks(pages) ==
    LET texts == FlattenSeq(WithoutEdges(pages))
        whole == [p \in DOMAIN pages |-> FlattenSeq(pages[p])]
    IN Plain(IF texts # <<>> THEN texts ELSE Kept(whole, {t \in Range(whole) : ~Blank(t)}))

(* parse_file and parse_document *)
Blocks(file) ==
    CASE file.kind = "text" ->
           IF Blank(file.text) THEN <<>> ELSE Plain(<<Strip(file.text)>>)
      [] file.kind = "docx" -> DocxBlocks(file.elements)
      [] file.kind = "pdf" -> PdfBlocks(file.pages)

(* decode_document_text raises. *)
Readable(file) == file # [kind |-> "text", text |-> NoText]

-----------------------------------------------------------------------------
(* Cutting *)

(* Slip: windows that do not overlap. *)
StepDisjoint == MaxChars

Step == MaxChars - Overlap

(* The windows of a text: range(0, len(text), step), or all of it. *)
PieceStarts(text) ==
    IF Len(text) <= MaxChars THEN <<0>>
    ELSE [k \in 1..((Len(text) + Step - 1) \div Step) |-> (k - 1) * Step]

PieceEnd(text, start) == Min({start + MaxChars, Len(text)})

Piece(text, start) == SubSeq(text, start + 1, PieceEnd(text, start))

(* The content of a piece: the first one of a block has its heading on top. *)
Content(block, start) ==
    IF block.heading # <<>> /\ start = 0
    THEN block.heading \o <<"nl">> \o Piece(block.text, start)
    ELSE Piece(block.text, start)

(* chunk_document *)
ChunkDocument(blocks) ==
    LET Cut(block) == LET starts == PieceStarts(block.text)
                      IN [k \in DOMAIN starts |-> Content(block, starts[k])]
    IN FlattenSeq([b \in DOMAIN blocks |-> Cut(blocks[b])])

-----------------------------------------------------------------------------
(* Locating *)

Units(text) ==
    FlattenSeq([i \in DOMAIN text |->
                  IF text[i] = "w" THEN <<"high", "low">> ELSE <<text[i]>>])

(* Slip: characters are taken for code units. *)
CharacterOffset(text, index) == index

(* TextOffsets.utf16: one more for every wide character before the index. *)
Offset(text, index) == index + Cardinality({i \in 1..index : text[i] = "w"})

(* The block at which the run of blocks with this heading begins. *)
HeadingAt(blocks, b) ==
    Max({i \in 1..b : /\ blocks[i].heading = blocks[b].heading
                      /\ i = 1 \/ blocks[i - 1].heading # blocks[i].heading})

(* The body the reader shows: text files as they are, with outer white space. *)
Body(file, block) == IF file.kind = "text" THEN file.text ELSE block.text

Lead(file, block) ==
    IF file.kind = "text" THEN Len(file.text) - Len(LeftStrip(file.text)) ELSE 0

(* document_text: the blocks the reader shows, by id. A heading is shown once *)
(* for the run of blocks under it.                                            *)
ShownBlocks(file, blocks) ==
    LET headings == {b \in DOMAIN blocks :
                       blocks[b].heading # <<>> /\ HeadingAt(blocks, b) = b}
    IN [id \in ({"heading"} \X headings) \cup ({"block"} \X DOMAIN blocks) |->
          IF id[1] = "heading" THEN blocks[id[2]].heading
                               ELSE Body(file, blocks[id[2]])]

Shown(file) == ShownBlocks(file, Blocks(file))

Span(id, from, to) == [block |-> id, start |-> from, end |-> to]

(* document_text: where a piece of a block stands, below its heading if it is *)
(* the first one ...                                                          *)
HeadingRange(blocks, b, start) ==
    IF blocks[b].heading = <<>> \/ start # 0 THEN <<>>
    ELSE <<Span(<<"heading", HeadingAt(blocks, b)>>, 0,
                Offset(blocks[b].heading, Len(blocks[b].heading)))>>

BodyRange(body, lead, b, start, end) ==
    <<Span(<<"block", b>>, Offset(body, lead + start), Offset(body, lead + end))>>

PieceWindow(file, blocks, b, start) ==
    [content |-> Content(blocks[b], start),
     ranges |-> HeadingRange(blocks, b, start)
                  \o BodyRange(Body(file, blocks[b]), Lead(file, blocks[b]),
                               b, start, PieceEnd(blocks[b].text, start))]

(* ... and the windows of all blocks, each with its content and its ranges.   *)
BlockWindows(file, blocks, b) ==
    [k \in DOMAIN PieceStarts(blocks[b].text) |->
       PieceWindow(file, blocks, b, PieceStarts(blocks[b].text)[k])]

WindowsOf(file, blocks) ==
    FlattenSeq([b \in DOMAIN blocks |-> BlockWindows(file, blocks, b)])

Windows(file) == WindowsOf(file, Blocks(file))

(* DocumentText.locations for one chunk: the saved ranges while the document *)
(* is the one they were made for, or else the window with the chunk's        *)
(* number; in both cases only a window with the very content of the chunk.   *)
Locate(document, windows, slice) ==
    LET saved == {k \in DOMAIN windows : /\ slice.document = document
                                         /\ windows[k].ranges = slice.ranges
                                         /\ windows[k].content = slice.content}
        numbered == {k \in DOMAIN windows : /\ k = slice.number + 1
                                            /\ windows[k].content = slice.content}
    IN IF saved # {} THEN slice.ranges
       ELSE IF numbered # {} THEN windows[slice.number + 1].ranges
       ELSE <<>>

(* chunk_document, then annotate; the digest of a document is its blocks. *)
Annotated(document, windows, contents) ==
    LET Bare(k) == [number |-> k - 1, content |-> contents[k],
                    document |-> <<>>, ranges |-> <<>>]
    IN [k \in DOMAIN contents |->
          [Bare(k) EXCEPT !.document = document,
                          !.ranges = Locate(document, windows, Bare(k))]]

Slices(file) == Annotated(Shown(file), Windows(file), ChunkDocument(Blocks(file)))

-----------------------------------------------------------------------------
SlicingInit ==
    /\ reading = "upload"
    /\ original = <<>>
    /\ slices = <<>>

Upload ==
    /\ reading = "upload"
    /\ original' \in Originals
    /\ reading' = "index"
    /\ UNCHANGED slices

(* _load_or_parse: a file that cannot be read, or has no text, is refused. *)
Reject ==
    /\ reading = "index"
    /\ ~Readable(original) \/ Blocks(original) = <<>>
    /\ reading' = "over"
    /\ UNCHANGED <<original, slices>>

Index ==
    /\ reading = "index"
    /\ Readable(original)
    /\ Blocks(original) # <<>>
    /\ slices' = Slices(original)
    /\ reading' = "open"
    /\ UNCHANGED original

(* source_chunk parses the original again. A parser that has changed since   *)
(* the chunks were made sees another document.                               *)
Reread ==
    /\ reading = "open"
    /\ original' \in {f \in Revisions : f.kind = original.kind /\ Readable(f)}
    /\ reading' = "reopened"
    /\ UNCHANGED slices

SlicingNext == Upload \/ Reject \/ Index \/ Reread

SlicingSpec == SlicingInit /\ [][SlicingNext]_slicingVars

SlicingTypeOK ==
    /\ reading \in {"upload", "index", "open", "reopened", "over"}
    /\ original = <<>> \/ original \in Originals
    /\ \A k \in DOMAIN slices : slices[k].number = k - 1

-----------------------------------------------------------------------------
(* Properties *)

(* What ranges of the shown blocks say, joined by line breaks. *)
Says(document, range) ==
    SubSeq(Units(document[range.block]), range.start + 1, range.end)

Spelled(document, ranges) ==
    CASE Len(ranges) = 1 -> Says(document, ranges[1])
      [] Len(ranges) = 2 -> Says(document, ranges[1]) \o <<"nl">> \o Says(document, ranges[2])

InPlace(document, windows, slice) ==
    LET ranges == Locate(document, windows, slice) IN
    /\ reading = "open" => ranges # <<>>
    /\ ranges # <<>> => Spelled(document, ranges) = Units(slice.content)

(* A citation is shown where it stands: every chunk of the indexed document *)
(* has a place, and a place, even one found in a document that has changed, *)
(* spells the chunk's content to the character.                             *)
Located ==
    reading \in {"open", "reopened"} =>
        \A k \in DOMAIN slices :
            InPlace(Shown(original), Windows(original), slices[k])

(* Nothing falls between two chunks: every passage that is at most one      *)
(* character longer than the overlap is whole in some chunk.                *)
PassagesWhole ==
    reading = "open" =>
        \A b \in DOMAIN Blocks(original) :
            LET text == Blocks(original)[b].text
                size == Min({Overlap + 1, Len(text)})
            IN \A i \in 1..(Len(text) - size + 1) :
                 \E k \in DOMAIN slices : \E j \in DOMAIN slices[k].content :
                    /\ j + size - 1 <= Len(slices[k].content)
                    /\ SubSeq(slices[k].content, j, j + size - 1)
                         = SubSeq(text, i, i + size - 1)

(* Header and footer lines repeat; a block that occurs once in the whole    *)
(* document is prose, and is not removed.                                   *)
ProseKept ==
    (reading = "open" /\ original.kind = "pdf") =>
        LET all == FlattenSeq(original.pages) IN
        \A i \in DOMAIN all :
            (\A k \in DOMAIN all : all[k] = all[i] => k = i)
              => \E b \in DOMAIN Blocks(original) : Blocks(original)[b].text = all[i]

=============================================================================
