-------------------------------- MODULE Media --------------------------------
(***************************************************************************)
(* Images, audio and video on their way to the vector index: the evidence  *)
(* (transcript segments, described frames) is cut into windows, each       *)
(* window gets a clip of the source, the chunks are written to a JSONL     *)
(* file, and an indexing job that may be killed and started again embeds   *)
(* them through the hosted model and upserts them in batches.              *)
(*                                                                         *)
(* Times are whole numbers. A reference to a media file says where it is   *)
(* (a local path, minio://, or http) and what it shows.                    *)
(***************************************************************************)
EXTENDS Naturals, Sequences, SequencesExt, FiniteSets, FiniteSetsExt, Lists,
        HostedApi

CONSTANTS
    Materials,  \* what may be ingested: records and recordings
    Window,     \* window_seconds
    BatchSize   \* --batch-size

(* A transcript segment ends after it starts (TranscriptSegment). *)
ASSUME MediaAssumption ==
    /\ Window \in Nat \ {0}
    /\ BatchSize \in Nat \ {0}
    /\ \A m \in Materials :
         /\ m.type \in {"image", "audio", "video"}
         /\ m.segments \in Seq([from : Nat, to : Nat])
         /\ \A s \in DOMAIN m.segments : m.segments[s].from < m.segments[s].to
         /\ m.frames \subseteq Nat /\ IsFiniteSet(m.frames)

VARIABLES
    phase,     \* parse, built, jsonl, embedding, upserting, indexed or refused
    material,  \* the material the chunks were built from, until they are written
    chunks,    \* the chunks
    base,      \* RAG_MEDIA_PUBLIC_BASE_URL is set for the running job
    waiting,   \* the numbers of the chunks the running job has still to embed
    embedded,  \* the points the running job has still to upsert
    points     \* the Qdrant collection

mediaVars == <<phase, material, chunks, base, waiting, embedded, points>>

-----------------------------------------------------------------------------
(* A material: its type, its transcript segments [from, to], the times of its *)
(* frames, where the source and the frames (or the image) are, whether its    *)
(* chunks are clipped, and where the resolver puts a clip ("none": there is   *)
(* no resolver). route: "script" for build_ingestion_chunks, "recording" for  *)
(* VideoIngestionPipeline and ingest_audio.                                   *)

Ref(where, of) == [where |-> where, of |-> of]
None == Ref("none", <<"nothing">>)

(* is_media_reference *)
Remote(ref) == ref.where \in {"minio", "http"}

MaxEnd(m) ==
    Max({0} \cup {m.segments[s].to : s \in DOMAIN m.segments} \cup m.frames)

WindowCount(m) == Max({1, (MaxEnd(m) + Window - 1) \div Window})

SegmentsIn(m, w) ==
    {s \in DOMAIN m.segments : m.segments[s].from \div Window = w}

FramesIn(m, w) ==
    {t \in m.frames : \/ w * Window <= t /\ t < (w + 1) * Window
                      \/ w = WindowCount(m) - 1 /\ t = (w + 1) * Window}

(* The source chunk_media is told of: a recording does not pass its own. *)
NamedSource(m) ==
    IF m.route = "recording" \/ m.source = "none" THEN None ELSE Ref(m.source, <<"whole">>)

(* The chunk of one window. The representative frame is the first one. *)
WindowChunk(m, w) ==
    LET segments == SegmentsIn(m, w)
        frames == FramesIn(m, w)
    IN [type |-> m.type, window |-> w, segments |-> segments, frames |-> frames,
        from |-> Min({m.segments[s].from : s \in segments} \cup frames),
        to |-> Max({m.segments[s].to : s \in segments} \cup frames),
        source |-> NamedSource(m),
        media |-> IF frames # {} THEN Ref(m.framesAt, <<"frame", Min(frames)>>)
                                 ELSE NamedSource(m)]

(* chunk_media: empty windows have no chunk. *)
ChunkMedia(m) ==
    LET all == [k \in 1..WindowCount(m) |-> k - 1]
        speaking == {w \in Range(all) : SegmentsIn(m, w) # {} \/ FramesIn(m, w) # {}}
        kept == IF m.segments = <<>> /\ m.frames = {} THEN <<>> ELSE Kept(all, speaking)
    IN [k \in DOMAIN kept |-> WindowChunk(m, kept[k])]

(* Slip: the clip is the window, whatever the evidence says. *)
ClipBoundsWindow(c) == <<c.window * Window, (c.window + 1) * Window>>

(* _clip_bounds *)
ClipBounds(c) ==
    IF c.to > c.from THEN <<c.from, c.to>>
    ELSE <<c.window * Window, (c.window + 1) * Window>>

(* _resolve_media_path *)
Resolved(m, ref) ==
    IF ref = None \/ m.resolver = "none" THEN ref ELSE Ref(m.resolver, ref.of)

(* clip_chunk_media for one chunk; an audio chunk has the clip as its media. *)
Clipped(m, c) ==
    LET clip == Resolved(m, Ref("local", <<"clip", ClipBounds(c)>>))
    IN [c EXCEPT !.source = clip,
                 !.media = IF c.type = "audio" THEN clip ELSE Resolved(m, c.media)]

(* image_chunk *)
ImageChunk(m) ==
    [type |-> "image", window |-> 0, segments |-> {}, frames |-> {},
     from |-> 0, to |-> 0, source |-> None, media |-> Ref(m.framesAt, <<"image">>)]

BuiltFrom(m) ==
    IF m.type = "image" THEN <<ImageChunk(m)>>
    ELSE LET cut == ChunkMedia(m)
         IN IF m.clip THEN [k \in DOMAIN cut |-> Clipped(m, cut[k])] ELSE cut

(* The media of a chunk that the embedder looks at, and that both scripts     *)
(* check. *)
MediaValues(c) ==
    (CASE c.type = "image" -> {c.media}
       [] c.type = "audio" -> {c.source}
       [] c.type = "video" -> {c.source, c.media}) \ {None}

(* build_chunks raises: clips need a local source and a resolver, sources     *)
(* that stay must be remote, and no chunk may keep a local path.              *)
ScriptRefuses(m) ==
    \/ /\ m.type # "image"
       /\ IF m.clip THEN m.source # "local" \/ m.resolver = "none"
                    ELSE m.source = "local"
    \/ \E k \in DOMAIN BuiltFrom(m) :
         \E v \in MediaValues(BuiltFrom(m)[k]) : ~Remote(v)

-----------------------------------------------------------------------------
MediaInit ==
    /\ phase = "parse"
    /\ material = <<>>
    /\ chunks = <<>>
    /\ base = FALSE
    /\ waiting = <<>>
    /\ embedded = <<>>
    /\ points = {}

Refuse ==
    /\ phase = "parse"
    /\ \E m \in Materials : m.route = "script" /\ ScriptRefuses(m)
    /\ phase' = "refused"
    /\ UNCHANGED <<material, chunks, base, waiting, embedded, points>>

(* build_chunks, VideoIngestionPipeline.ingest or ingest_audio. *)
Build ==
    /\ phase = "parse"
    /\ \E m \in Materials :
         /\ m.route = "script" => ~ScriptRefuses(m)
         /\ material' = m
         /\ chunks' = BuiltFrom(m)
    /\ phase' = "built"
    /\ UNCHANGED <<base, waiting, embedded, points>>

(* write_chunks, with the media dropped under --text-only. From here on only *)
(* the references matter; the number stands for the persisted point UUID.    *)
WriteChunks ==
    /\ phase = "built"
    /\ \E textOnly \in IF material.route = "script" THEN BOOLEAN ELSE {FALSE} :
         chunks' = [k \in DOMAIN chunks |->
                      [type |-> chunks[k].type,
                       source |-> IF textOnly THEN None ELSE chunks[k].source,
                       media |-> IF textOnly THEN None ELSE chunks[k].media]]
    /\ material' = <<>>
    /\ phase' = "jsonl"
    /\ UNCHANGED <<base, waiting, embedded, points>>

-----------------------------------------------------------------------------
(* Embedding *)

(* _resolve_media_url with the script's resolver. *)
Reachable(ref) == ref.where = "http" \/ (ref.where = "minio" /\ base)

(* validate_media_references *)
ReferencesValid(withBase) ==
    \A k \in DOMAIN chunks : \A v \in MediaValues(chunks[k]) :
        v.where = "http" \/ (v.where = "minio" /\ withBase)

Input(as, of) == [as |-> as, of |-> of]

(* _media_inputs: a video gives its clip and, as an image, its frame. *)
MediaInputs(c) ==
    LET Of(ref, as) == IF Reachable(ref) THEN <<Input(as, ref.of)>> ELSE <<>>
    IN CASE c.type = "image" -> Of(c.media, "image")
         [] c.type = "audio" -> Of(c.source, "audio")
         [] c.type = "video" -> Of(c.source, "video") \o Of(c.media, "image")

InputsOf(k) == <<Input("text", <<"chunk", k>>)>> \o MediaInputs(chunks[k])

(* The rows a service may answer with: one for every input under its index,  *)
(* in order or with two of them exchanged (rows without an index count as    *)
(* being in order); or one too few, one too many, one twice in place of      *)
(* another, one not a vector.                                                *)
Bad == {}

Responses(inputs) ==
    LET Rows(order) == [i \in DOMAIN inputs |-> [index |-> order[i],
                                                 vector |-> {inputs[order[i]]}]]
        Faulty(rows) == {Front(rows), Append(rows, rows[1]),
                         Append(Front(rows), rows[1]), [rows EXCEPT ![1].vector = Bad]}
        Swap(a, b) == [i \in DOMAIN inputs |-> CASE i = a -> b [] i = b -> a [] OTHER -> i]
        honest == {Rows(Swap(a, b)) : a, b \in DOMAIN inputs}
    IN honest \cup UNION {Faulty(rows) : rows \in honest}

(* _vectors, the check the worker's transport makes before anything else. *)
RowsChecked(rows, expected) ==
    /\ Len(rows) = expected
    /\ \A i, j \in DOMAIN rows : rows[i].index = rows[j].index => i = j
    /\ \A i \in DOMAIN rows : rows[i].index \in 1..expected /\ rows[i].vector # Bad

RowsParsed(rows, expected) ==
    /\ {rows[i].index : i \in DOMAIN rows} = 1..expected
    /\ \A i \in DOMAIN rows : rows[i].vector # Bad

(* Slip: the rows are taken to be in the order of the inputs. *)
VectorInOrder(rows, i) == rows[i].vector

(* _parse_embeddings: the vector of an input; a later row replaces an earlier. *)
VectorOf(rows, i) == rows[Max({j \in DOMAIN rows : rows[j].index = i})].vector

(* Slip: the id of a point is drawn when it is written. *)
PointIdDrawn(k) == <<k, Cardinality(points)>>

(* _qdrant_point_id: the id that was written down with the chunk. *)
PointId(k) == <<k>>

(* embed_chunks: every chunk of the batch with the mean of its own vectors. *)
Embedded(batch, rows) ==
    LET Before(n) == SumOf([i \in 1..(n - 1) |-> Len(InputsOf(batch[i]))])
    IN [n \in DOMAIN batch |->
          [id |-> PointId(batch[n]), chunk |-> batch[n],
           vector |-> UNION {VectorOf(rows, Before(n) + i) : i \in DOMAIN InputsOf(batch[n])}]]

-----------------------------------------------------------------------------
(* The indexing job. Whatever stops it leaves the file and the collection;   *)
(* what it had in memory is gone.                                            *)

Stop == /\ phase' = "jsonl" /\ waiting' = <<>> /\ embedded' = <<>>

FirstOf(queue) == SubSeq(queue, 1, Min({BatchSize, Len(queue)}))
RestOf(queue) == SubSeq(queue, BatchSize + 1, Len(queue))

Stored(k) == \E p \in points' : p.id = PointId(k) /\ p.chunk = k

(* index_chunks.main: the references are validated, the collection is made   *)
(* anew under --rebuild, and the chunks already there are left out.          *)
StartJob ==
    /\ phase \in {"jsonl", "indexed"}
    /\ base' \in BOOLEAN
    /\ ReferencesValid(base')
    /\ points' \in {points, {}}
    /\ \E call \in Calls :
         IF call.answered
         THEN /\ waiting' = Kept([k \in DOMAIN chunks |-> k], {k \in DOMAIN chunks : ~Stored(k)})
              /\ phase' = IF waiting' = <<>> THEN "upserting" ELSE "embedding"
              /\ embedded' = <<>>
         ELSE Stop
    /\ UNCHANGED <<material, chunks>>

(* ApiMultimodalEmbedder.embed_chunks for the next batch, behind either      *)
(* transport. Nothing is written before every batch has its vectors.         *)
EmbedBatch ==
    /\ phase = "embedding"
    /\ LET batch == FirstOf(waiting)
           inputs == FlattenSeq([n \in DOMAIN batch |-> InputsOf(batch[n])])
           Accepted(rows, checked) == /\ checked => RowsChecked(rows, Len(inputs))
                                      /\ RowsParsed(rows, Len(inputs))
       IN \/ \E rows \in Responses(inputs), checked \in BOOLEAN :
               /\ Accepted(rows, checked)
               /\ embedded' = embedded \o Embedded(batch, rows)
               /\ waiting' = RestOf(waiting)
               /\ phase' = IF waiting' = <<>> THEN "upserting" ELSE "embedding"
          \/ /\ \/ \E call \in Calls : ~call.answered
                \/ \E rows \in Responses(inputs), checked \in BOOLEAN :
                     ~Accepted(rows, checked)
             /\ Stop
    /\ UNCHANGED <<material, chunks, base, points>>

(* QdrantVectorWriter.upsert for the next batch; a call that raises may have *)
(* written its points all the same.                                          *)
UpsertBatch ==
    /\ phase = "upserting"
    /\ embedded # <<>>
    /\ \E call \in Calls :
         LET new == Range(FirstOf(embedded)) IN
         /\ points' = IF call.performed
                      THEN {p \in points : \A q \in new : q.id # p.id} \cup new
                      ELSE points
         /\ IF call.answered
            THEN /\ embedded' = RestOf(embedded)
                 /\ UNCHANGED <<phase, waiting>>
            ELSE Stop
    /\ UNCHANGED <<material, chunks, base>>

(* The consistency check at the end of index_chunks. *)
Confirm ==
    /\ phase = "upserting"
    /\ embedded = <<>>
    /\ UNCHANGED points
    /\ \E call \in Calls :
         IF call.answered /\ \A k \in DOMAIN chunks : Stored(k)
         THEN phase' = "indexed" /\ UNCHANGED <<waiting, embedded>>
         ELSE Stop
    /\ UNCHANGED <<material, chunks, base>>

KillJob ==
    /\ phase \in {"embedding", "upserting"}
    /\ Stop
    /\ UNCHANGED <<material, chunks, base, points>>

MediaNext ==
    \/ Refuse \/ Build \/ WriteChunks
    \/ StartJob \/ EmbedBatch \/ UpsertBatch \/ Confirm \/ KillJob

MediaSpec == MediaInit /\ [][MediaNext]_mediaVars

MediaTypeOK ==
    /\ phase \in {"parse", "built", "jsonl", "embedding", "upserting", "indexed", "refused"}
    /\ material = <<>> \/ material \in Materials
    /\ base \in BOOLEAN
    /\ Range(waiting) \subseteq DOMAIN chunks
    /\ \A p \in points \cup Range(embedded) : p.chunk \in DOMAIN chunks

-----------------------------------------------------------------------------
(* Properties *)

(* Every transcript segment and every frame is in exactly one chunk, also at  *)
(* the edges of the windows, and the clip cut for a chunk has a positive      *)
(* length and holds all the evidence of the chunk.                            *)
EvidenceOnce ==
    (phase = "built" /\ material.type # "image") =>
        /\ \A s \in DOMAIN material.segments :
             Cardinality({k \in DOMAIN chunks : s \in chunks[k].segments}) = 1
        /\ \A t \in material.frames :
             Cardinality({k \in DOMAIN chunks : t \in chunks[k].frames}) = 1
        /\ material.clip =>
             \A k \in DOMAIN chunks :
               LET clip == chunks[k].source.of[2] IN
               /\ clip[1] < clip[2]
               /\ \A t \in chunks[k].frames : clip[1] <= t /\ t <= clip[2]
               /\ \A s \in chunks[k].segments :
                    /\ clip[1] <= material.segments[s].from
                    /\ material.segments[s].to <= clip[2]

(* A stored vector is made of the chunk's text and of all its media, and of   *)
(* nothing of another chunk, in whatever order the service answers: media is  *)
(* never left out in silence.                                                 *)
OwnVectors ==
    \A p \in points \cup Range(embedded) :
        LET c == chunks[p.chunk] IN
        {i.of : i \in p.vector} =
            {<<"chunk", p.chunk>>} \cup {v.of : v \in MediaValues(c)}

(* However often the job is killed and started again, a chunk never has two   *)
(* points, and a job that reports success leaves none without one.            *)
OnePointEach ==
    /\ \A p, q \in points : p.chunk = q.chunk => p = q
    /\ phase = "indexed" => \A k \in DOMAIN chunks : \E p \in points : p.chunk = k

=============================================================================
