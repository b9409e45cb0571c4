---------------------------- MODULE LibraryProofs -----------------------------
(***************************************************************************)
(* What the ingestion library makes. First media: every chunk of a file has *)
(* one point, with its own vectors, and every piece of evidence its window, *)
(* for any number of segments, frames, batches and failed attempts.        *)
(***************************************************************************)
EXTENDS Media, Slicing, SequenceLemmas

(* What a point of chunk k is to be made of. *)
Own(k) == {<<"chunk", k>>} \cup {v.of : v \in MediaValues(chunks[k])}

(* The points of the running job and of the collection are points of chunks, *)
(* under their own ids, with their own vectors.                              *)
PointsOwn ==
    \A p \in points \cup Range(embedded) :
        /\ p.chunk \in DOMAIN chunks
        /\ p.id = PointId(p.chunk)
        /\ {i.of : i \in p.vector} = Own(p.chunk)

(* What the job holds in memory, each chunk once. *)
JobOnce ==
    /\ waiting \in Seq(DOMAIN chunks)
    /\ IsInjective(waiting)
    /\ embedded \in Seq(Range(embedded))
    /\ \A i, j \in DOMAIN embedded : embedded[i].chunk = embedded[j].chunk => i = j
    /\ \A p \in Range(embedded) : p.chunk \notin Range(waiting)
    /\ phase = "embedding" => waiting # <<>> /\ ReferencesValid(base)

Numbered ==
    /\ \E n \in Nat : DOMAIN chunks = 1..n
    /\ \A k \in DOMAIN chunks : chunks[k].type \in {"image", "audio", "video"}

(* Before the chunks are written there is no job and no collection. *)
Unwritten ==
    /\ phase \in {"parse", "built", "refused"} =>
         points = {} /\ waiting = <<>> /\ embedded = <<>>
    /\ phase = "built" => material \in Materials /\ chunks = BuiltFrom(material)

MediaIInv ==
    MediaTypeOK /\ Numbered /\ Unwritten /\ JobOnce /\ PointsOwn /\ OnePointEach

-----------------------------------------------------------------------------
(* The inputs of a chunk *)

(* One input. *)
LEMMA OneOf ==
    ASSUME NEW x
    PROVE  <<x>> \in Seq({x}) /\ Len(<<x>>) = 1 /\ Range(<<x>>) = {x}
  BY DEF Range

(* And none. *)
LEMMA NoneOf == <<>> \in Seq({}) /\ Range(<<>>) = {}
  BY DEF Range

(* A chunk whose references are valid is embedded with all it has. *)
LEMMA InputsAre ==
    ASSUME Numbered, ReferencesValid(base), NEW k \in DOMAIN chunks
    PROVE  /\ InputsOf(k) \in Seq(Range(InputsOf(k)))
           /\ Len(InputsOf(k)) \in Nat \ {0}
           /\ {i.of : i \in Range(InputsOf(k))} = Own(k)
  <1> DEFINE c == chunks[k]
             t == Input("text", <<"chunk", k>>)
             Of(ref, as) == IF Reachable(ref) THEN <<Input(as, ref.of)>> ELSE <<>>
             Is(ref, as) == IF ref # None THEN {Input(as, ref.of)} ELSE {}
             media == CASE c.type = "image" -> Is(c.media, "image")
                        [] c.type = "audio" -> Is(c.source, "audio")
                        [] c.type = "video" -> Is(c.source, "video") \cup Is(c.media, "image")
  <1>1. c.type \in {"image", "audio", "video"}
    BY DEF Numbered
  <1>2. \A v \in MediaValues(c) : Reachable(v)
    BY DEF ReferencesValid, Reachable
  <1>3. ~Reachable(None)
    BY DEF Reachable, None, Ref
  <1>4. ASSUME NEW ref, NEW as, ref # None => Reachable(ref)
        PROVE  Of(ref, as) \in Seq(Is(ref, as)) /\ Range(Of(ref, as)) = Is(ref, as)
    <2>1. CASE ref = None
      BY <1>3, <2>1, NoneOf
    <2>2. CASE ref # None
      BY <1>4, <2>2, OneOf
    <2> QED
      BY <2>1, <2>2
  <1>5. MediaInputs(c) \in Seq(media) /\ Range(MediaInputs(c)) = media
    <2>1. CASE c.type = "image"
      <3>1. MediaInputs(c) = Of(c.media, "image") /\ media = Is(c.media, "image")
        BY <2>1 DEF MediaInputs
      <3>2. c.media # None => Reachable(c.media)
        BY <1>2, <2>1 DEF MediaValues
      <3> HIDE DEF Of, Is, media
      <3> QED
        BY <1>4, <3>1, <3>2
    <2>2. CASE c.type = "audio"
      <3>1. MediaInputs(c) = Of(c.source, "audio") /\ media = Is(c.source, "audio")
        BY <2>2 DEF MediaInputs
      <3>2. c.source # None => Reachable(c.source)
        BY <1>2, <2>2 DEF MediaValues
      <3> HIDE DEF Of, Is, media
      <3> QED
        BY <1>4, <3>1, <3>2
    <2>3. CASE c.type = "video"
      <3> DEFINE s1 == Of(c.source, "video")
                 s2 == Of(c.media, "image")
      <3>1. /\ MediaInputs(c) = s1 \o s2
            /\ media = Is(c.source, "video") \cup Is(c.media, "image")
        BY <2>3 DEF MediaInputs
      <3>2. (c.source # None => Reachable(c.source)) /\ (c.media # None => Reachable(c.media))
        BY <1>2, <2>3 DEF MediaValues
      <3>3. /\ s1 \in Seq(Is(c.source, "video")) /\ Range(s1) = Is(c.source, "video")
            /\ s2 \in Seq(Is(c.media, "image")) /\ Range(s2) = Is(c.media, "image")
        <4> HIDE DEF Is, Of
        <4> QED
          BY <1>4, <3>2
      <3> HIDE DEF s1, s2, Is, media
      <3>4. s1 \in Seq(media) /\ s2 \in Seq(media)
        BY <3>1, <3>3, SeqMonotonic
      <3>5. s1 \o s2 \in Seq(media) /\ Range(s1 \o s2) = Range(s1) \cup Range(s2)
        BY <3>4, ConcatProperties, RangeConcatenation
      <3> QED
        BY <3>1, <3>3, <3>5
    <2> QED
      BY <1>1, <2>1, <2>2, <2>3
  <1>6. {i.of : i \in media} = {v.of : v \in MediaValues(c)}
    <2>1. \A as, of : Input(as, of).of = of
      BY DEF Input
    <2> QED
      BY <1>1, <2>1 DEF MediaValues
  <1>7. t.of = <<"chunk", k>>
    BY DEF Input
  <1> HIDE DEF media, t, c, Of, Is
  <1>8. InputsOf(k) = <<t>> \o MediaInputs(c)
    BY DEF InputsOf, t, c
  <1> DEFINE S == {t} \cup media
  <1>9. <<t>> \in Seq(S) /\ MediaInputs(c) \in Seq(S) /\ Len(<<t>>) = 1 /\ Range(<<t>>) = {t}
    BY <1>5, OneOf, SeqMonotonic
  <1> HIDE DEF S
  <1>10. /\ InputsOf(k) \in Seq(S)
         /\ Len(InputsOf(k)) = 1 + Len(MediaInputs(c))
         /\ Range(InputsOf(k)) = {t} \cup media
    <2>1. <<t>> \o MediaInputs(c) \in Seq(S) /\ Len(<<t>> \o MediaInputs(c)) = 1 + Len(MediaInputs(c))
      BY <1>9, ConcatProperties
    <2>2. Range(<<t>> \o MediaInputs(c)) = Range(<<t>>) \cup Range(MediaInputs(c))
      <3> DEFINE a == <<t>>
                 b == MediaInputs(c)
      <3>1. a \in Seq(S) /\ b \in Seq(S)
        BY <1>9
      <3> HIDE DEF a, b
      <3>2. Range(a \o b) = Range(a) \cup Range(b)
        BY <3>1, RangeConcatenation
      <3> QED
        BY <3>2 DEF a, b
    <2> QED
      BY <1>5, <1>8, <1>9, <2>1, <2>2
  <1>11. Len(MediaInputs(c)) \in Nat
    BY <1>9
  <1>12. InputsOf(k) \in Seq(Range(InputsOf(k)))
    BY <1>10, SeqOfRange
  <1>13. {i.of : i \in Range(InputsOf(k))} = {t.of} \cup {i.of : i \in media}
    BY <1>10
  <1>14. {i.of : i \in Range(InputsOf(k))} = Own(k)
    BY <1>6, <1>7, <1>13 DEF Own, c
  <1> QED
    BY <1>10, <1>11, <1>12, <1>14

-----------------------------------------------------------------------------
(* The answer of the embedding service *)

(* Whatever order the service answers in, an input gets its own vector. *)
LEMMA VectorsAre ==
    ASSUME NEW S, NEW inputs \in Seq(S), Len(inputs) # 0,
           NEW rows \in Responses(inputs), RowsParsed(rows, Len(inputs))
    PROVE  \A i \in 1..Len(inputs) : VectorOf(rows, i) = {inputs[i]}
  <1> DEFINE L == Len(inputs)
             row(x) == [index |-> x, vector |-> {inputs[x]}]
             R == {row(x) : x \in 1..L}
             Rows(order) == [i \in DOMAIN inputs |-> [index |-> order[i],
                                                      vector |-> {inputs[order[i]]}]]
             Swap(a, b) == [i \in DOMAIN inputs |-> CASE i = a -> b [] i = b -> a [] OTHER -> i]
             Faulty(r) == {Front(r), Append(r, r[1]),
                           Append(Front(r), r[1]), [r EXCEPT ![1].vector = Bad]}
  <1>1. L \in Nat /\ 1 \in 1..L /\ DOMAIN inputs = 1..L
    OBVIOUS
  <1>2. ASSUME NEW a \in DOMAIN inputs, NEW b \in DOMAIN inputs
        PROVE  Rows(Swap(a, b)) \in Seq(R) /\ Len(Rows(Swap(a, b))) = L
    <2>1. \A i \in 1..L : Swap(a, b)[i] \in 1..L
      BY <1>1
    <2>2. \A i \in 1..L : Rows(Swap(a, b))[i] = row(Swap(a, b)[i])
      BY <1>1
    <2>3. \A i \in 1..L : Rows(Swap(a, b))[i] \in R
      BY <2>1, <2>2
    <2>4. DOMAIN Rows(Swap(a, b)) = 1..L
      BY <1>1
    <2> HIDE DEF Rows, R
    <2>5. Rows(Swap(a, b)) = [i \in 1..L |-> Rows(Swap(a, b))[i]]
      BY <2>4 DEF Rows
    <2>6. Rows(Swap(a, b)) \in [1..L -> R]
      BY <2>3, <2>5
    <2> QED
      BY <1>1, <2>6
  <1>3. PICK r \in Seq(R) : /\ Len(r) = L
                            /\ rows = r \/ rows \in Faulty(r)
    <2> DEFINE honest == {Rows(Swap(a, b)) : a, b \in DOMAIN inputs}
    <2>1. Responses(inputs) = honest \cup UNION {Faulty(q) : q \in honest}
      BY DEF Responses
    <2> HIDE DEF Rows, Swap, Faulty
    <2>2. PICK a \in DOMAIN inputs, b \in DOMAIN inputs :
             \/ rows = Rows(Swap(a, b))
             \/ rows \in Faulty(Rows(Swap(a, b)))
      BY <2>1
    <2> HIDE DEF R
    <2> QED
      BY <1>2, <2>2
  <1>4. r[1] \in R /\ Front(r) \in Seq(R)
    <2>1. 1 \in Int /\ Len(r) - 1 \in Int /\ \A i \in 1..(Len(r) - 1) : r[i] \in R
      BY <1>1, <1>3
    <2> HIDE DEF R
    <2>2. SubSeq(r, 1, Len(r) - 1) \in Seq(R)
      BY <2>1, SubSeqProperties
    <2> QED
      BY <1>1, <1>3, <2>2 DEF Front
  <1>5. rows # [r EXCEPT ![1].vector = Bad]
    <2>1. SUFFICES ASSUME rows = [r EXCEPT ![1].vector = Bad] PROVE FALSE
      OBVIOUS
    <2>2. 1 \in DOMAIN r
      BY <1>1, <1>3
    <2>3. rows[1].vector = Bad /\ 1 \in DOMAIN rows
      BY <1>4, <2>1, <2>2
    <2> QED
      BY <2>3 DEF RowsParsed
  <1>6. rows \in Seq(R)
    <2> HIDE DEF R
    <2>1. Append(r, r[1]) \in Seq(R) /\ Append(Front(r), r[1]) \in Seq(R)
      BY <1>3, <1>4, AppendProperties
    <2> QED
      BY <1>3, <1>4, <1>5, <2>1
  <1> HIDE DEF R
  <1>7. ASSUME NEW i \in 1..L PROVE VectorOf(rows, i) = {inputs[i]}
    <2> DEFINE J == {j \in DOMAIN rows : rows[j].index = i}
    <2>1. i \in {rows[j].index : j \in DOMAIN rows}
      BY DEF RowsParsed
    <2>2. J # {}
      BY <2>1
    <2>3. Len(rows) \in Nat /\ J \in SUBSET (0..Len(rows))
      BY <1>6
    <2>4. Max(J) \in J
      BY <2>2, <2>3, MaxOf
    <2> DEFINE m == Max(J)
    <2>5. m \in DOMAIN rows /\ rows[m].index = i /\ VectorOf(rows, i) = rows[m].vector
      BY <2>4 DEF VectorOf
    <2> HIDE DEF m
    <2>6. rows[m] \in R
      BY <1>6, <2>5
    <2>7. PICK x \in 1..L : rows[m] = row(x)
      BY <2>6 DEF R
    <2>8. x = i
      BY <2>5, <2>7
    <2> QED
      BY <2>5, <2>7, <2>8
  <1> QED
    BY <1>7

(* The inputs of a batch in one list. *)
InputsOfAll(batch) == FlattenSeq([n \in DOMAIN batch |-> InputsOf(batch[n])])

(* Every chunk of a batch gets exactly the vectors of its inputs. *)
LEMMA EmbeddedOf ==
    ASSUME Numbered, ReferencesValid(base),
           NEW batch \in Seq(DOMAIN chunks), batch # <<>>,
           NEW rows \in Responses(InputsOfAll(batch)),
           RowsParsed(rows, Len(InputsOfAll(batch)))
    PROVE  /\ DOMAIN Embedded(batch, rows) = 1..Len(batch)
           /\ \A n \in 1..Len(batch) :
                Embedded(batch, rows)[n] =
                    [id |-> PointId(batch[n]), chunk |-> batch[n],
                     vector |-> Range(InputsOf(batch[n]))]
  <1> DEFINE N == Len(batch)
             seqs == [n \in DOMAIN batch |-> InputsOf(batch[n])]
             inputs == InputsOfAll(batch)
             S == UNION {Range(InputsOf(k)) : k \in DOMAIN chunks}
  <1>1. N \in Nat /\ DOMAIN batch = 1..N /\ 1 \in 1..N /\ \A n \in 1..N : batch[n] \in DOMAIN chunks
    OBVIOUS
  <1>2. ASSUME NEW k \in DOMAIN chunks
        PROVE  InputsOf(k) \in Seq(S) /\ Len(InputsOf(k)) \in Nat \ {0}
    <2>1. Range(InputsOf(k)) \subseteq S
      OBVIOUS
    <2> HIDE DEF S
    <2> QED
      BY <2>1, InputsAre, SeqMonotonic
  <1> HIDE DEF S
  <1>3. seqs \in Seq(Seq(S)) /\ Len(seqs) = N /\ \A n \in 1..N : seqs[n] = InputsOf(batch[n])
    BY <1>1, <1>2
  <1>4. inputs = FlattenSeq(seqs)
    BY DEF InputsOfAll
  <1> HIDE DEF seqs, inputs, N
  <1>5. inputs \in Seq(S) /\ \E offs : IsLayout(offs, inputs, seqs)
    BY <1>3, <1>4, Flattened
  <1>6. PICK offs : IsLayout(offs, inputs, seqs)
    BY <1>5
  <1>7. \A n \in 1..N, j \in Nat : j \in 1..Len(seqs[n]) =>
          offs[n - 1] + j \in 1..Len(inputs) /\ inputs[offs[n - 1] + j] = seqs[n][j]
    BY <1>3, <1>6 DEF IsLayout
  <1>8. inputs \in Seq(Range(inputs)) /\ Len(inputs) \in Nat \ {0}
    <2>1. 1 \in 1..Len(seqs[1]) /\ 1 \in Nat
      BY <1>1, <1>2, <1>3
    <2>2. offs[1 - 1] + 1 \in 1..Len(inputs)
      BY <1>1, <1>7, <2>1
    <2> QED
      BY <1>5, <2>2, SeqOfRange
  <1>9. \A i \in 1..Len(inputs) : VectorOf(rows, i) = {inputs[i]}
    BY <1>8, VectorsAre DEF inputs
  <1> DEFINE before(n) == [i \in 1..(n - 1) |-> Len(InputsOf(batch[i]))]
  <1>10. ASSUME NEW n \in 1..N PROVE SumOf(before(n)) = offs[n - 1]
    <2> DEFINE M == n - 1
               list == before(n)
               h == [k \in 0..M |-> offs[k]]
    <2>1. M \in Nat /\ \A i \in 1..M : i \in 1..N /\ i - 1 \in 0..M /\ i \in 0..M
      BY <1>1
    <2>2. \A i \in 0..M : i \in 0..N
      BY <1>1
    <2>3. \A i \in 1..M : Len(InputsOf(batch[i])) \in Nat
      BY <1>1, <1>2, <2>1
    <2>4. list \in Seq(Nat) /\ Len(list) = M
          /\ \A i \in 1..M : list[i] = Len(seqs[i])
      BY <1>3, <2>1, <2>3
    <2> HIDE DEF list
    <2>5. IsSums(h, list)
      <3>1. h \in [0..M -> Nat]
        BY <1>3, <1>6, <2>2 DEF IsLayout
      <3>2. h[0] = 0
        BY <1>6, <2>1 DEF IsLayout
      <3>3. \A i \in 1..M : offs[i] = offs[i - 1] + Len(seqs[i])
        BY <1>3, <1>6, <2>1 DEF IsLayout
      <3>4. \A i \in 1..M : h[i] = h[i - 1] + list[i]
        BY <2>1, <2>4, <3>3
      <3> HIDE DEF h
      <3> QED
        BY <2>4, <3>1, <3>2, <3>4 DEF IsSums
    <2>6. SumOf(list) = h[M]
      <3> HIDE DEF h
      <3> QED
        BY <2>4, <2>5, SumIs
    <2>7. h[M] = offs[M]
      BY <2>1
    <2> QED
      BY <2>6, <2>7 DEF list
  <1> HIDE DEF before
  <1>11. ASSUME NEW n \in 1..N
         PROVE  UNION {VectorOf(rows, SumOf(before(n)) + i) : i \in DOMAIN InputsOf(batch[n])}
                  = Range(InputsOf(batch[n]))
    <2> DEFINE own == InputsOf(batch[n])
    <2>1. own \in Seq(S) /\ seqs[n] = own
      BY <1>1, <1>2, <1>3
    <2>2. DOMAIN own = 1..Len(own) /\ Len(own) \in Nat
      BY <2>1
    <2>3. ASSUME NEW i \in DOMAIN own
          PROVE  VectorOf(rows, SumOf(before(n)) + i) = {own[i]}
      <3>1. i \in Nat /\ i \in 1..Len(seqs[n])
        BY <2>1, <2>2
      <3>2. offs[n - 1] + i \in 1..Len(inputs) /\ inputs[offs[n - 1] + i] = own[i]
        BY <1>7, <2>1, <3>1
      <3> QED
        BY <1>9, <1>10, <3>2
    <2> HIDE DEF own
    <2>4. UNION {VectorOf(rows, SumOf(before(n)) + i) : i \in DOMAIN own}
            = {own[i] : i \in DOMAIN own}
      BY <2>3
    <2> QED
      BY <2>4 DEF Range, own
  <1>12. Embedded(batch, rows) =
           [n \in DOMAIN batch |->
              [id |-> PointId(batch[n]), chunk |-> batch[n],
               vector |-> UNION {VectorOf(rows, SumOf(before(n)) + i) :
                                   i \in DOMAIN InputsOf(batch[n])}]]
    BY DEF Embedded, before
  <1>13. Embedded(batch, rows) =
           [n \in 1..N |-> [id |-> PointId(batch[n]), chunk |-> batch[n],
                            vector |-> Range(InputsOf(batch[n]))]]
    BY <1>1, <1>11, <1>12
  <1> QED
    BY <1>13 DEF N

-----------------------------------------------------------------------------
(* Cutting a recording *)

(* The windows reach to the end of the last evidence. *)
LEMMA WindowsReach ==
    ASSUME NEW m \in Materials
    PROVE  /\ WindowCount(m) \in Nat \ {0}
           /\ MaxEnd(m) \in Nat
           /\ MaxEnd(m) <= Window * WindowCount(m)
           /\ \A s \in DOMAIN m.segments : m.segments[s].to <= MaxEnd(m)
           /\ \A t \in m.frames : t <= MaxEnd(m)
  <1> DEFINE N == Len(m.segments)
             to(s) == m.segments[s].to
             ends == {0} \cup {m.segments[s].to : s \in DOMAIN m.segments} \cup m.frames
             q == (MaxEnd(m) + Window - 1) \div Window
  <1>1. /\ N \in Nat /\ DOMAIN m.segments = 1..N
        /\ \A s \in 1..N : m.segments[s].to \in Nat
        /\ m.frames \in SUBSET Nat /\ IsFiniteSet(m.frames)
        /\ Window \in Nat /\ Window # 0
    <2>1. /\ m.segments \in Seq([from : Nat, to : Nat])
          /\ m.frames \in SUBSET Nat /\ IsFiniteSet(m.frames)
          /\ Window \in Nat /\ Window # 0
      BY MediaAssumption
    <2> DEFINE T == [from : Nat, to : Nat]
    <2>2. m.segments \in Seq(T)
      BY <2>1
    <2> HIDE DEF T
    <2>3. N \in Nat /\ DOMAIN m.segments = 1..N /\ \A s \in 1..N : m.segments[s] \in T
      BY <2>2
    <2> QED
      BY <2>1, <2>3 DEF T
  <1>2. PICK b1 \in Nat : \A s \in 1..N : m.segments[s].to <= b1
    <2> DEFINE f == [s \in 1..N |-> m.segments[s].to]
    <2>1. \A s \in 1..N : f[s] \in Nat
      BY <1>1
    <2>2. \E b \in Nat : \A s \in 1..N : f[s] <= b
      <3> HIDE DEF f, N
      <3> QED
        BY <1>1, <2>1, Bounded
    <2> QED
      BY <2>2
  <1>3. PICK b2 \in Nat : \A t \in m.frames : t <= b2
    BY <1>1, FiniteBounded
  <1>4. ends \in SUBSET (0..(b1 + b2)) /\ ends # {}
    BY <1>1, <1>2, <1>3
  <1>5. Max(ends) \in ends /\ \A e \in ends : e <= Max(ends)
    <2> HIDE DEF ends
    <2>1. b1 + b2 \in Nat
      OBVIOUS
    <2> QED
      BY <1>4, <2>1, MaxOf
  <1>6. MaxEnd(m) = Max(ends)
    BY DEF MaxEnd
  <1>7. /\ MaxEnd(m) \in Nat
        /\ \A s \in DOMAIN m.segments : m.segments[s].to <= MaxEnd(m)
        /\ \A t \in m.frames : t <= MaxEnd(m)
    <2>1. \A s \in DOMAIN m.segments : m.segments[s].to \in ends
      OBVIOUS
    <2>2. m.frames \subseteq ends /\ ends \subseteq Nat
      BY <1>4
    <2> HIDE DEF ends
    <2> QED
      BY <1>5, <1>6, <2>1, <2>2
  <1>8. /\ MaxEnd(m) + Window - 1 \in Nat
        /\ q \in Nat /\ MaxEnd(m) + Window - 1 < Window * q + Window
        /\ Window * q \in Nat
    <2>1. MaxEnd(m) + Window - 1 \in Nat
      BY <1>1, <1>7
    <2> DEFINE a == MaxEnd(m) + Window - 1
    <2> HIDE DEF a
    <2>2. /\ a \div Window \in Nat /\ Window * (a \div Window) <= a
          /\ a < Window * (a \div Window) + Window
      BY <1>1, <2>1, Divided DEF a
    <2>3. Window * (a \div Window) \in Nat
      BY <1>1, <2>2
    <2> QED
      BY <2>1, <2>2, <2>3 DEF a
  <1> HIDE DEF q
  <1>9. MaxEnd(m) <= Window * q
    BY <1>1, <1>7, <1>8
  <1>10. {1, q} \in SUBSET (0..(1 + q)) /\ 1 + q \in Nat /\ {1, q} # {}
    BY <1>8
  <1>11. Max({1, q}) \in {1, q} /\ 1 <= Max({1, q}) /\ q <= Max({1, q})
    BY <1>10, MaxOf
  <1>12. WindowCount(m) = Max({1, q})
    BY DEF WindowCount, q
  <1>13. WindowCount(m) \in Nat \ {0} /\ q <= WindowCount(m)
    BY <1>8, <1>11, <1>12
  <1>14. Window * q <= Window * WindowCount(m)
    <2>1. CASE q = WindowCount(m)
      BY <1>8, <2>1
    <2>2. CASE q < WindowCount(m)
      <3>1. /\ Window * q \in Nat /\ Window * WindowCount(m) \in Nat
            /\ Window * q + Window <= Window * WindowCount(m)
        BY <1>1, <1>8, <1>13, <2>2, Multiples
      <3> QED
        BY <1>1, <3>1
    <2> QED
      BY <1>8, <1>13, <2>1, <2>2
  <1>15. Window * WindowCount(m) \in Nat
    BY <1>1, <1>13
  <1> QED
    BY <1>7, <1>8, <1>9, <1>13, <1>14, <1>15

(* There is something in a window. *)
Speaks(m, w) == SegmentsIn(m, w) # {} \/ FramesIn(m, w) # {}

(* kept has the windows in which there is something, each once. *)
IsCut(kept, m) ==
    /\ kept \in Seq(0..(WindowCount(m) - 1))
    /\ \A k \in 1..Len(kept) : Speaks(m, kept[k])
    /\ \A j, k \in 1..Len(kept) : j # k => kept[j] # kept[k]
    /\ \A w \in 0..(WindowCount(m) - 1) :
         Speaks(m, w) => \E k \in 1..Len(kept) : kept[k] = w

(* chunk_media makes one chunk for each window that has something. *)
LEMMA ChunkMediaOf ==
    ASSUME NEW m \in Materials
    PROVE  \E kept : /\ IsCut(kept, m)
                     /\ DOMAIN ChunkMedia(m) = 1..Len(kept)
                     /\ \A k \in 1..Len(kept) : ChunkMedia(m)[k] = WindowChunk(m, kept[k])
  <1> DEFINE N == WindowCount(m)
             all == [k \in 1..WindowCount(m) |-> k - 1]
             speaking == {w \in Range(all) : SegmentsIn(m, w) # {} \/ FramesIn(m, w) # {}}
             empty == m.segments = <<>> /\ m.frames = {}
             kept == IF empty THEN <<>> ELSE Kept(all, speaking)
  <1>1. N \in Nat
    BY WindowsReach
  <1>2. ChunkMedia(m) = [k \in DOMAIN kept |-> WindowChunk(m, kept[k])]
    BY DEF ChunkMedia
  <1>3. all \in Seq(0..(N - 1)) /\ Len(all) = N /\ \A k \in 1..N : all[k] = k - 1
    BY <1>1
  <1>4. \A w \in 0..(N - 1) : w \in speaking <=> Speaks(m, w)
    <2>1. \A w \in 0..(N - 1) : w + 1 \in DOMAIN all /\ all[w + 1] = w
      BY <1>1, <1>3
    <2>2. \A w \in 0..(N - 1) : w \in Range(all)
      BY <2>1 DEF Range
    <2> QED
      BY <2>2 DEF Speaks
  <1>5. CASE empty
    <2>1. kept = <<>> /\ kept \in Seq(0..(N - 1)) /\ Len(kept) = 0
      BY <1>5
    <2>2. \A w \in 0..(N - 1) : ~Speaks(m, w)
      BY <1>5 DEF Speaks, SegmentsIn, FramesIn
    <2> HIDE DEF kept
    <2>3. IsCut(kept, m)
      BY <2>1, <2>2 DEF IsCut
    <2> QED
      BY <1>2, <2>1, <2>3
  <1>6. CASE ~empty
    <2>1. kept = Kept(all, speaking)
      BY <1>6
    <2> HIDE DEF all, speaking, empty, kept
    <2>2. kept \in Seq(0..(N - 1)) /\ \E at : IsKept(at, kept, all, speaking)
      BY <1>3, <2>1, KeptOf
    <2>3. PICK at : IsKept(at, kept, all, speaking)
      BY <2>2
    <2> HIDE DEF N
    <2>4. \A k \in 1..Len(kept) : kept[k] = at[k] - 1 /\ kept[k] \in speaking /\ at[k] \in 1..N
      BY <1>3, <2>3 DEF IsKept
    <2>5. \A k \in 1..Len(kept) : Speaks(m, kept[k])
      BY <1>1, <1>4, <2>4
    <2>6. ASSUME NEW j \in 1..Len(kept), NEW k \in 1..Len(kept), j # k
          PROVE  kept[j] # kept[k]
      <3>1. j < k \/ k < j
        BY <2>2, <2>6
      <3>2. at[j] # at[k]
        BY <1>1, <2>3, <2>4, <3>1 DEF IsKept
      <3> QED
        BY <1>1, <2>4, <3>2
    <2>7. ASSUME NEW w \in 0..(N - 1), Speaks(m, w)
          PROVE  \E k \in 1..Len(kept) : kept[k] = w
      <3>1. w + 1 \in 1..N /\ all[w + 1] = w /\ w \in speaking
        BY <1>1, <1>3, <1>4, <2>7
      <3>2. PICK k \in 1..Len(kept) : at[k] = w + 1
        BY <1>3, <2>3, <3>1 DEF IsKept
      <3> QED
        BY <2>4, <3>2
    <2>8. IsCut(kept, m)
      BY <2>2, <2>5, <2>6, <2>7 DEF IsCut, N
    <2>9. DOMAIN kept = 1..Len(kept)
      BY <2>2
    <2> QED
      BY <1>2, <2>8, <2>9
  <1> QED
    BY <1>5, <1>6

(* A segment is in the window in which it starts, and in no other. *)
LEMMA SegmentPlace ==
    ASSUME NEW m \in Materials, NEW s \in DOMAIN m.segments
    PROVE  /\ m.segments[s].from \in Nat /\ m.segments[s].to \in Nat
           /\ m.segments[s].from < m.segments[s].to
           /\ \E w \in 0..(WindowCount(m) - 1) :
                \A v \in Nat : s \in SegmentsIn(m, v) <=> v = w
  <1> DEFINE a == m.segments[s].from
             e == m.segments[s].to
             T == [from : Nat, to : Nat]
  <1>1. m.segments \in Seq(T) /\ Window \in Nat /\ Window # 0 /\ a < e
    BY MediaAssumption
  <1>2. m.segments[s] \in T
    <2> HIDE DEF T
    <2> QED
      BY <1>1
  <1>3. a \in Nat /\ e \in Nat
    BY <1>2
  <1> DEFINE w == a \div Window
             W == WindowCount(m)
  <1>4. w \in Nat /\ Window * w <= a
    <2> HIDE DEF a
    <2> QED
      BY <1>1, <1>3, Divided
  <1>5. e <= MaxEnd(m) /\ MaxEnd(m) <= Window * W /\ MaxEnd(m) \in Nat /\ W \in Nat
    BY WindowsReach
  <1>6. \A v \in Nat : s \in SegmentsIn(m, v) <=> v = w
    BY DEF SegmentsIn
  <1> HIDE DEF a, e, w, W
  <1>7. Window * W \in Nat /\ Window * w \in Nat
    BY <1>1, <1>4, <1>5
  <1>8. w < W
    <2>1. SUFFICES ASSUME W <= w PROVE FALSE
      BY <1>4, <1>5
    <2>2. Window * W <= Window * w
      <3>1. CASE W = w
        BY <1>7, <3>1
      <3>2. CASE W < w
        <4>1. Window * W + Window <= Window * w
          BY <1>1, <1>4, <1>5, <3>2, Multiples
        <4> QED
          BY <1>1, <1>7, <4>1
      <3> QED
        BY <1>4, <1>5, <2>1, <3>1, <3>2
    <2> DEFINE x == Window * W
               y == Window * w
    <2>3. x \in Nat /\ y \in Nat /\ y <= a /\ MaxEnd(m) <= x /\ x <= y
      BY <1>4, <1>5, <1>7, <2>2
    <2> HIDE DEF x, y
    <2> QED
      BY <1>1, <1>3, <1>5, <2>3
  <1>9. w \in 0..(W - 1)
    BY <1>4, <1>5, <1>8
  <1> QED
    BY <1>1, <1>3, <1>6, <1>9 DEF a, e, W

(* A frame is in the window it falls into; the very end belongs to the last. *)
LEMMA FramePlace ==
    ASSUME NEW m \in Materials, NEW t \in m.frames
    PROVE  /\ t \in Nat
           /\ \E w \in 0..(WindowCount(m) - 1) :
                \A v \in 0..(WindowCount(m) - 1) : t \in FramesIn(m, v) <=> v = w
  <1> DEFINE W == WindowCount(m)
             w == IF t = Window * W THEN W - 1 ELSE t \div Window
  <1>1. t \in Nat /\ Window \in Nat /\ Window # 0
    BY MediaAssumption
  <1>2. t <= Window * W /\ W \in Nat /\ W # 0 /\ Window * W \in Nat
    <2>1. t <= MaxEnd(m) /\ MaxEnd(m) <= Window * W /\ MaxEnd(m) \in Nat /\ W \in Nat /\ W # 0
      BY WindowsReach
    <2> HIDE DEF W
    <2>2. Window * W \in Nat
      BY <1>1, <2>1
    <2> QED
      BY <1>1, <2>1, <2>2
  <1>3. \A v : t \in FramesIn(m, v) <=> \/ v * Window <= t /\ t < (v + 1) * Window
                                        \/ v = W - 1 /\ t = (v + 1) * Window
    BY DEF FramesIn
  <1> HIDE DEF W
  <1>4. ASSUME NEW p \in Nat
        PROVE  /\ p * Window = Window * p /\ (p + 1) * Window = Window * p + Window
               /\ Window * p \in Nat
    BY <1>1
  <1>5. W - 1 \in Nat /\ ((W - 1) + 1) * Window = Window * W
        /\ (W - 1) * Window + Window = Window * W
    <2>1. W - 1 \in Nat /\ (W - 1) + 1 = W
      BY <1>2
    <2>2. ((W - 1) + 1) * Window = Window * (W - 1) + Window /\ (W - 1) * Window = Window * (W - 1)
      BY <1>4, <2>1
    <2>3. W * Window = Window * W
      BY <1>2, <1>4
    <2> QED
      BY <2>1, <2>2, <2>3
  <1>6. CASE t = Window * W
    <2>1. W - 1 \in 0..(W - 1)
      BY <1>5
    <2>2. t \in FramesIn(m, W - 1)
      BY <1>3, <1>5, <1>6
    <2>3. ASSUME NEW v \in 0..(W - 1), t \in FramesIn(m, v) PROVE v = W - 1
      <3>1. SUFFICES ASSUME v < W - 1 PROVE FALSE
        BY <1>2
      <3>2. t < (v + 1) * Window
        BY <1>3, <2>3, <3>1
      <3>3. v + 1 \in Nat /\ v + 1 < W
        BY <1>2, <3>1
      <3>4. Window * (v + 1) + Window <= Window * W /\ (v + 1) * Window = Window * (v + 1)
            /\ Window * (v + 1) \in Nat
        BY <1>1, <1>2, <1>4, <3>3, Multiples
      <3> QED
        BY <1>1, <1>2, <1>6, <3>2, <3>4
    <2> QED
      BY <1>1, <2>1, <2>2, <2>3 DEF W
  <1>7. CASE t # Window * W
    <2> DEFINE d == t \div Window
    <2>1. d \in Nat /\ Window * d <= t /\ t < Window * d + Window
      BY <1>1, Divided
    <2> HIDE DEF d
    <2>2. d < W
      <3>1. SUFFICES ASSUME W <= d PROVE FALSE
        BY <1>2, <2>1
      <3>2. Window * W <= Window * d
        <4>1. CASE W = d
          BY <1>2, <4>1
        <4>2. CASE W < d
          <5>1. Window * W + Window <= Window * d /\ Window * d \in Nat
            BY <1>1, <1>2, <2>1, <4>2, Multiples
          <5> QED
            BY <1>1, <1>2, <5>1
        <4> QED
          BY <1>2, <2>1, <3>1, <4>1, <4>2
      <3> QED
        BY <1>1, <1>2, <1>4, <1>7, <2>1, <3>2
    <2>3. d \in 0..(W - 1)
      BY <1>2, <2>1, <2>2
    <2>4. t \in FramesIn(m, d)
      BY <1>3, <1>4, <2>1
    <2>5. ASSUME NEW v \in 0..(W - 1), t \in FramesIn(m, v) PROVE v = d
      <3>1. v \in Nat
        BY <1>5
      <3>2. Window * v <= t /\ t < Window * v + Window
        BY <1>3, <1>4, <1>5, <1>7, <2>5, <3>1
      <3>3. ~(v < d)
        <4>1. SUFFICES ASSUME v < d PROVE FALSE
          OBVIOUS
        <4>2. Window * v + Window <= Window * d
          BY <1>1, <2>1, <3>1, <4>1, Multiples
        <4> QED
          BY <1>1, <1>4, <2>1, <3>1, <3>2, <4>2
      <3>4. ~(d < v)
        <4>1. SUFFICES ASSUME d < v PROVE FALSE
          OBVIOUS
        <4>2. Window * d + Window <= Window * v
          BY <1>1, <2>1, <3>1, <4>1, Multiples
        <4> QED
          BY <1>1, <1>4, <2>1, <3>1, <3>2, <4>2
      <3> QED
        BY <2>1, <3>1, <3>3, <3>4
    <2> QED
      BY <1>1, <2>3, <2>4, <2>5 DEF W
  <1> QED
    BY <1>6, <1>7

(* What a chunk holds of a recording, its times embrace. *)
LEMMA WindowTimes ==
    ASSUME NEW m \in Materials, NEW w \in 0..(WindowCount(m) - 1), Speaks(m, w)
    PROVE  LET c == WindowChunk(m, w) IN
           /\ c.from \in Nat /\ c.to \in Nat
           /\ \A s \in SegmentsIn(m, w) : /\ c.from <= m.segments[s].from
                                          /\ m.segments[s].to <= c.to
           /\ \A t \in FramesIn(m, w) : c.from <= t /\ t <= c.to
  <1> DEFINE S == SegmentsIn(m, w)
             F == FramesIn(m, w)
             c == WindowChunk(m, w)
             starts == {m.segments[s].from : s \in S} \cup F
             ends == {m.segments[s].to : s \in S} \cup F
  <1>1. c.from = Min(starts) /\ c.to = Max(ends)
    BY DEF WindowChunk
  <1>2. S \subseteq DOMAIN m.segments /\ F \subseteq m.frames
    BY DEF SegmentsIn, FramesIn
  <1>3. \A s \in S : m.segments[s].from \in Nat /\ m.segments[s].to \in 0..MaxEnd(m)
    <2>1. ASSUME NEW s \in S PROVE m.segments[s].from \in Nat /\ m.segments[s].to \in 0..MaxEnd(m)
      <3>1. m.segments[s].from \in Nat /\ m.segments[s].to \in Nat
        BY <1>2, SegmentPlace
      <3>2. m.segments[s].to <= MaxEnd(m) /\ MaxEnd(m) \in Nat
        BY <1>2, WindowsReach
      <3> QED
        BY <3>1, <3>2
    <2> QED
      BY <2>1
  <1>4. \A t \in F : t \in 0..MaxEnd(m)
    BY <1>2, FramePlace, WindowsReach
  <1>5. S # {} \/ F # {}
    BY DEF Speaks
  <1> HIDE DEF S, F, c
  <1>6. starts \in SUBSET Nat /\ starts # {} /\ ends \in SUBSET (0..MaxEnd(m)) /\ ends # {}
    <2>1. starts \subseteq Nat
      BY <1>3, <1>4
    <2>2. ends \subseteq 0..MaxEnd(m)
      BY <1>3, <1>4
    <2>3. starts # {} /\ ends # {}
      BY <1>5
    <2> HIDE DEF starts, ends
    <2> QED
      BY <2>1, <2>2, <2>3
  <1>7. /\ \A s \in S : m.segments[s].from \in starts /\ m.segments[s].to \in ends
        /\ F \subseteq starts /\ F \subseteq ends
    OBVIOUS
  <1> HIDE DEF starts, ends
  <1>8. Min(starts) \in starts /\ \A i \in starts : Min(starts) <= i
    BY <1>6, MinOf
  <1>9. Max(ends) \in ends /\ \A i \in ends : i <= Max(ends)
    BY <1>6, MaxOf, WindowsReach
  <1>10. c.from \in Nat /\ c.to \in Nat
    <2>1. Min(starts) \in Nat
      BY <1>6, <1>8
    <2>2. Max(ends) \in 0..MaxEnd(m)
      BY <1>6, <1>9
    <2> QED
      BY <1>1, <2>1, <2>2
  <1> QED
    BY <1>1, <1>7, <1>8, <1>9, <1>10 DEF S, F, c

(* The clip of a chunk is not empty and has all that is in the chunk. *)
LEMMA ClipHolds ==
    ASSUME NEW m \in Materials, NEW w \in 0..(WindowCount(m) - 1), Speaks(m, w)
    PROVE  LET clip == ClipBounds(WindowChunk(m, w)) IN
           /\ clip[1] < clip[2]
           /\ \A t \in FramesIn(m, w) : clip[1] <= t /\ t <= clip[2]
           /\ \A s \in SegmentsIn(m, w) : /\ clip[1] <= m.segments[s].from
                                          /\ m.segments[s].to <= clip[2]
  <1> DEFINE c == WindowChunk(m, w)
             clip == ClipBounds(c)
  <1>1. /\ c.from \in Nat /\ c.to \in Nat
        /\ \A s \in SegmentsIn(m, w) : /\ c.from <= m.segments[s].from
                                       /\ m.segments[s].to <= c.to
        /\ \A t \in FramesIn(m, w) : c.from <= t /\ t <= c.to
    BY WindowTimes
  <1>2. c.window = w
    BY DEF WindowChunk
  <1> HIDE DEF c
  <1>3. CASE c.to > c.from
    <2>1. clip[1] = c.from /\ clip[2] = c.to
      BY <1>3 DEF ClipBounds
    <2> QED
      BY <1>1, <1>3, <2>1 DEF c
  <1>4. CASE ~(c.to > c.from)
    <2>1. clip[1] = w * Window /\ clip[2] = (w + 1) * Window
      BY <1>2, <1>4 DEF ClipBounds
    <2>2. Window \in Nat /\ Window # 0 /\ w \in Nat
      BY MediaAssumption
    <2>3. w * Window \in Nat /\ (w + 1) * Window = w * Window + Window
      BY <2>2
    <2>4. w * Window < (w + 1) * Window
      BY <2>2, <2>3
    <2>5. SegmentsIn(m, w) = {}
      <3>1. SUFFICES ASSUME NEW s \in SegmentsIn(m, w) PROVE FALSE
        OBVIOUS
      <3>2. s \in DOMAIN m.segments
        BY DEF SegmentsIn
      <3>3. /\ m.segments[s].from \in Nat /\ m.segments[s].to \in Nat
            /\ m.segments[s].from < m.segments[s].to
        BY <3>2, SegmentPlace
      <3> QED
        BY <1>1, <1>4, <3>3
    <2>6. \A t \in FramesIn(m, w) : w * Window <= t /\ t <= (w + 1) * Window
      <3>1. ASSUME NEW t \in FramesIn(m, w) PROVE w * Window <= t /\ t <= (w + 1) * Window
        <4>1. t \in Nat
          BY MediaAssumption DEF FramesIn
        <4>2. \/ w * Window <= t /\ t < (w + 1) * Window
              \/ t = (w + 1) * Window
          BY DEF FramesIn
        <4> QED
          BY <2>2, <2>3, <2>4, <4>1, <4>2
      <3> QED
        BY <3>1
    <2> QED
      BY <2>1, <2>4, <2>5, <2>6 DEF c
  <1> QED
    BY <1>3, <1>4

(* What a chunk of a recording has in the end. *)
LEMMA BuiltChunk ==
    ASSUME NEW m \in Materials, m.type # "image"
    PROVE  \E kept :
             /\ IsCut(kept, m)
             /\ DOMAIN BuiltFrom(m) = 1..Len(kept)
             /\ \A k \in 1..Len(kept) :
                  /\ BuiltFrom(m)[k].type = m.type
                  /\ BuiltFrom(m)[k].segments = SegmentsIn(m, kept[k])
                  /\ BuiltFrom(m)[k].frames = FramesIn(m, kept[k])
                  /\ m.clip => BuiltFrom(m)[k].source.of[2]
                                 = ClipBounds(WindowChunk(m, kept[k]))
  <1> DEFINE cut == ChunkMedia(m)
             built == BuiltFrom(m)
  <1>1. PICK kept : /\ IsCut(kept, m)
                    /\ DOMAIN cut = 1..Len(kept)
                    /\ \A k \in 1..Len(kept) : cut[k] = WindowChunk(m, kept[k])
    BY ChunkMediaOf
  <1>2. built = IF m.clip THEN [k \in DOMAIN cut |-> Clipped(m, cut[k])] ELSE cut
    BY DEF BuiltFrom
  <1>3. ASSUME NEW w
        PROVE  LET c == WindowChunk(m, w) IN
               /\ c.type = m.type /\ c.segments = SegmentsIn(m, w) /\ c.frames = FramesIn(m, w)
               /\ Clipped(m, c).type = m.type
               /\ Clipped(m, c).segments = SegmentsIn(m, w)
               /\ Clipped(m, c).frames = FramesIn(m, w)
               /\ Clipped(m, c).source = Resolved(m, Ref("local", <<"clip", ClipBounds(c)>>))
    BY DEF WindowChunk, Clipped
  <1>4. ASSUME NEW b PROVE Resolved(m, Ref("local", <<"clip", b>>)).of[2] = b
    BY DEF Resolved, Ref
  <1> HIDE DEF cut, built
  <1> SUFFICES /\ DOMAIN built = 1..Len(kept)
               /\ \A k \in 1..Len(kept) :
                    /\ built[k].type = m.type
                    /\ built[k].segments = SegmentsIn(m, kept[k])
                    /\ built[k].frames = FramesIn(m, kept[k])
                    /\ m.clip => built[k].source.of[2] = ClipBounds(WindowChunk(m, kept[k]))
    BY <1>1 DEF built
  <1>5. CASE m.clip
    <2>1. DOMAIN built = 1..Len(kept)
          /\ \A k \in 1..Len(kept) : built[k] = Clipped(m, WindowChunk(m, kept[k]))
      BY <1>1, <1>2, <1>5
    <2>2. ASSUME NEW k \in 1..Len(kept)
          PROVE  built[k].source.of[2] = ClipBounds(WindowChunk(m, kept[k]))
      <3> DEFINE w == kept[k]
                 bounds == ClipBounds(WindowChunk(m, w))
      <3>1. built[k] = Clipped(m, WindowChunk(m, w))
        BY <2>1
      <3> HIDE DEF w
      <3>2. Clipped(m, WindowChunk(m, w)).source = Resolved(m, Ref("local", <<"clip", bounds>>))
        BY <1>3
      <3> HIDE DEF bounds
      <3>3. Resolved(m, Ref("local", <<"clip", bounds>>)).of[2] = bounds
        BY <1>4
      <3> QED
        BY <3>1, <3>2, <3>3 DEF bounds, w
    <2> QED
      BY <1>3, <2>1, <2>2
  <1>6. CASE ~m.clip
    <2>1. built = cut
      BY <1>2, <1>6
    <2> QED
      BY <1>1, <1>3, <1>6, <2>1
  <1> QED
    BY <1>5, <1>6

(* All the evidence of a recording is in its chunks, each piece once, and in  *)
(* its clip.                                                                 *)
LEMMA EvidenceInChunks ==
    ASSUME NEW m \in Materials, m.type # "image"
    PROVE  /\ \A s \in DOMAIN m.segments :
                Cardinality({k \in DOMAIN BuiltFrom(m) : s \in BuiltFrom(m)[k].segments}) = 1
           /\ \A t \in m.frames :
                Cardinality({k \in DOMAIN BuiltFrom(m) : t \in BuiltFrom(m)[k].frames}) = 1
           /\ m.clip =>
                \A k \in DOMAIN BuiltFrom(m) :
                  LET clip == BuiltFrom(m)[k].source.of[2] IN
                  /\ clip[1] < clip[2]
                  /\ \A t \in BuiltFrom(m)[k].frames : clip[1] <= t /\ t <= clip[2]
                  /\ \A s \in BuiltFrom(m)[k].segments :
                       /\ clip[1] <= m.segments[s].from
                       /\ m.segments[s].to <= clip[2]
  <1> DEFINE built == BuiltFrom(m)
             W == WindowCount(m)
  <1>1. PICK kept :
             /\ IsCut(kept, m)
             /\ DOMAIN built = 1..Len(kept)
             /\ \A k \in 1..Len(kept) :
                  /\ built[k].segments = SegmentsIn(m, kept[k])
                  /\ built[k].frames = FramesIn(m, kept[k])
                  /\ m.clip => built[k].source.of[2] = ClipBounds(WindowChunk(m, kept[k]))
    BY BuiltChunk
  <1> HIDE DEF built, W
  <1>2. /\ \A k \in 1..Len(kept) : kept[k] \in 0..(W - 1) /\ Speaks(m, kept[k])
        /\ \A j, k \in 1..Len(kept) : j # k => kept[j] # kept[k]
        /\ \A w \in 0..(W - 1) : Speaks(m, w) => \E k \in 1..Len(kept) : kept[k] = w
    <2> DEFINE T == 0..(W - 1)
    <2>1. kept \in Seq(T)
      BY <1>1 DEF IsCut, W
    <2> HIDE DEF T
    <2>2. \A k \in 1..Len(kept) : kept[k] \in T
      BY <2>1
    <2> QED
      BY <1>1, <2>2 DEF IsCut, W, T
  <1>3. ASSUME NEW s \in DOMAIN m.segments
        PROVE  Cardinality({k \in DOMAIN built : s \in built[k].segments}) = 1
    <2>1. PICK w \in 0..(W - 1) : \A v \in Nat : s \in SegmentsIn(m, v) <=> v = w
      BY SegmentPlace DEF W
    <2>2. w \in Nat /\ Speaks(m, w)
      BY <2>1 DEF Speaks
    <2>3. PICK k \in 1..Len(kept) : kept[k] = w
      BY <1>2, <2>2
    <2>4. \A j \in 1..Len(kept) : s \in built[j].segments <=> j = k
      BY <1>1, <1>2, <2>1, <2>3
    <2>5. {j \in DOMAIN built : s \in built[j].segments} = {k}
      BY <1>1, <2>4
    <2> QED
      BY <2>5, FS_Singleton
  <1>4. ASSUME NEW t \in m.frames
        PROVE  Cardinality({k \in DOMAIN built : t \in built[k].frames}) = 1
    <2>1. PICK w \in 0..(W - 1) : \A v \in 0..(W - 1) : t \in FramesIn(m, v) <=> v = w
      BY FramePlace DEF W
    <2>2. Speaks(m, w)
      BY <2>1 DEF Speaks
    <2>3. PICK k \in 1..Len(kept) : kept[k] = w
      BY <1>2, <2>2
    <2>4. \A j \in 1..Len(kept) : t \in built[j].frames <=> j = k
      BY <1>1, <1>2, <2>1, <2>3
    <2>5. {j \in DOMAIN built : t \in built[j].frames} = {k}
      BY <1>1, <2>4
    <2> QED
      BY <2>5, FS_Singleton
  <1>5. ASSUME m.clip, NEW k \in DOMAIN built
        PROVE  LET clip == built[k].source.of[2] IN
               /\ clip[1] < clip[2]
               /\ \A t \in built[k].frames : clip[1] <= t /\ t <= clip[2]
               /\ \A s \in built[k].segments : /\ clip[1] <= m.segments[s].from
                                               /\ m.segments[s].to <= clip[2]
    <2>1. kept[k] \in 0..(WindowCount(m) - 1) /\ Speaks(m, kept[k])
      BY <1>1, <1>2, <1>5 DEF W
    <2>2. /\ built[k].segments = SegmentsIn(m, kept[k])
          /\ built[k].frames = FramesIn(m, kept[k])
          /\ built[k].source.of[2] = ClipBounds(WindowChunk(m, kept[k]))
      BY <1>1, <1>5
    <2> QED
      BY <2>1, <2>2, ClipHolds
  <1> QED
    BY <1>3, <1>4, <1>5 DEF built

-----------------------------------------------------------------------------
(* The chunks a job works through *)

(* What is built is a list of chunks of images, audio or video. *)
LEMMA BuiltNumbered ==
    ASSUME NEW m \in Materials
    PROVE  /\ \E n \in Nat : DOMAIN BuiltFrom(m) = 1..n
           /\ \A k \in DOMAIN BuiltFrom(m) : BuiltFrom(m)[k].type \in {"image", "audio", "video"}
  <1>1. CASE m.type = "image"
    <2>1. BuiltFrom(m) = <<ImageChunk(m)>>
      BY <1>1 DEF BuiltFrom
    <2>2. DOMAIN BuiltFrom(m) = 1..1 /\ BuiltFrom(m)[1] = ImageChunk(m)
      BY <2>1
    <2>3. ImageChunk(m).type = "image"
      BY DEF ImageChunk
    <2> QED
      BY <2>2, <2>3
  <1>2. CASE m.type # "image"
    <2>1. PICK kept :
             /\ IsCut(kept, m)
             /\ DOMAIN BuiltFrom(m) = 1..Len(kept)
             /\ \A k \in 1..Len(kept) : BuiltFrom(m)[k].type = m.type
      BY <1>2, BuiltChunk
    <2>2. m.type \in {"image", "audio", "video"}
      BY MediaAssumption
    <2>3. Len(kept) \in Nat
      <3> DEFINE T == 0..(WindowCount(m) - 1)
      <3>1. kept \in Seq(T)
        BY <2>1 DEF IsCut
      <3> HIDE DEF T
      <3> QED
        BY <3>1
    <2> QED
      BY <2>1, <2>2, <2>3
  <1> QED
    BY <1>1, <1>2

(* A batch is the beginning of its queue, and not empty. *)
LEMMA BatchOf ==
    ASSUME NEW S, NEW queue \in Seq(S), queue # <<>>
    PROVE  /\ FirstOf(queue) \in Seq(S) /\ FirstOf(queue) # <<>>
           /\ Len(FirstOf(queue)) <= BatchSize
           /\ \A i \in 1..Len(FirstOf(queue)) :
                i \in DOMAIN queue /\ FirstOf(queue)[i] = queue[i]
  <1> DEFINE n == Min({BatchSize, Len(queue)})
  <1>1. BatchSize \in Nat /\ BatchSize # 0 /\ Len(queue) \in Nat /\ Len(queue) # 0
    BY MediaAssumption
  <1>2. n \in {BatchSize, Len(queue)} /\ n <= BatchSize /\ n <= Len(queue)
    <2>1. {BatchSize, Len(queue)} \in SUBSET Nat /\ {BatchSize, Len(queue)} # {}
      BY <1>1
    <2> QED
      BY <2>1, MinOf
  <1>3. FirstOf(queue) = SubSeq(queue, 1, n)
    BY DEF FirstOf
  <1> HIDE DEF n
  <1>4. n \in Nat /\ n # 0 /\ 1 \in Nat /\ 1 # 0 /\ 1 <= n
    BY <1>1, <1>2
  <1> DEFINE f == SubSeq(queue, 1, n)
  <1>5. /\ f \in Seq(S) /\ Len(f) = IF 1 <= n THEN n - 1 + 1 ELSE 0
        /\ \A i \in 1..Len(f) : 1 + i - 1 \in 1..Len(queue) /\ f[i] = queue[1 + i - 1]
    BY <1>2, <1>4, PartOf
  <1> HIDE DEF f
  <1>6. Len(f) = n /\ \A i \in 1..Len(f) : i \in DOMAIN queue /\ f[i] = queue[i]
    <2>1. Len(f) = n
      BY <1>4, <1>5
    <2>2. \A i \in 1..Len(f) : 1 + i - 1 = i
      BY <1>4, <2>1
    <2> QED
      BY <1>5, <2>1, <2>2
  <1> QED
    BY <1>2, <1>3, <1>4, <1>5, <1>6 DEF f

(* What is left of the queue is what comes after it. *)
LEMMA RestAfter ==
    ASSUME NEW S, NEW queue \in Seq(S)
    PROVE  /\ RestOf(queue) \in Seq(S)
           /\ \A j \in 1..Len(RestOf(queue)) :
                /\ BatchSize + j \in DOMAIN queue
                /\ RestOf(queue)[j] = queue[BatchSize + j]
  <1> DEFINE b == BatchSize + 1
             n == Len(queue)
             r == SubSeq(queue, b, n)
  <1>1. BatchSize \in Nat /\ n \in Nat /\ b \in Nat /\ b # 0 /\ n <= Len(queue)
    BY MediaAssumption
  <1>2. /\ r \in Seq(S)
        /\ \A j \in 1..Len(r) : b + j - 1 \in 1..Len(queue) /\ r[j] = queue[b + j - 1]
    <2> HIDE DEF b, n
    <2> QED
      BY <1>1, PartOf
  <1> HIDE DEF r
  <1>3. \A j \in 1..Len(r) : b + j - 1 = BatchSize + j
    BY <1>1, <1>2
  <1> QED
    BY <1>2, <1>3 DEF RestOf, r

-----------------------------------------------------------------------------
(* The indexing job: one lemma per action *)

(* A file just stored has nothing that could be wrong. *)
LEMMA InitHolds == ASSUME MediaInit PROVE MediaIInv
  <1>1. chunks = <<>> /\ waiting = <<>> /\ embedded = <<>> /\ points = {} /\ phase = "parse"
        /\ material = <<>> /\ base = FALSE
    BY DEF MediaInit
  <1>2. DOMAIN chunks = 1..0 /\ Range(waiting) = {} /\ Range(embedded) = {}
    BY <1>1, NoneOf
  <1>3. Numbered
    BY <1>2 DEF Numbered
  <1>4. JobOnce
    BY <1>1, <1>2, NoneOf DEF JobOnce, IsInjective
  <1>5. MediaTypeOK /\ PointsOwn /\ OnePointEach
    BY <1>1, <1>2 DEF MediaTypeOK, PointsOwn, OnePointEach
  <1>6. Unwritten
    BY <1>1 DEF Unwritten
  <1> QED
    BY <1>3, <1>4, <1>5, <1>6 DEF MediaIInv

(* What stops the job leaves nothing of it in memory. *)
LEMMA Stopped ==
    ASSUME MediaIInv, Stop, UNCHANGED <<material, chunks, base, points>>,
           phase \notin {"parse", "built", "refused"}
    PROVE  MediaIInv'
  <1>1. phase' = "jsonl" /\ waiting' = <<>> /\ embedded' = <<>>
    BY DEF Stop
  <1>2. Range(waiting') = {} /\ Range(embedded') = {}
    BY <1>1, NoneOf
  <1>3. MediaTypeOK'
    BY <1>1, <1>2 DEF MediaIInv, MediaTypeOK
  <1>4. JobOnce'
    BY <1>1, <1>2 DEF JobOnce, IsInjective
  <1>5. PointsOwn'
    BY <1>2 DEF MediaIInv, PointsOwn, Own, PointId
  <1> QED
    BY <1>1, <1>3, <1>4, <1>5 DEF MediaIInv, Numbered, Unwritten, OnePointEach

(* A file that is refused never gets a chunk. *)
LEMMA RefuseStep == ASSUME MediaIInv, Refuse PROVE MediaIInv'
  <1>1. UNCHANGED <<material, chunks, base, waiting, embedded, points>>
        /\ phase = "parse" /\ phase' = "refused"
    BY DEF Refuse
  <1>2. points = {} /\ waiting = <<>> /\ embedded = <<>>
    BY <1>1 DEF MediaIInv, Unwritten
  <1> QED
    BY <1>1, <1>2 DEF MediaIInv, MediaTypeOK, Numbered, Unwritten, JobOnce, PointsOwn, OnePointEach,
                      Own, PointId

(* The chunks are numbered as they are built, before any job. *)
LEMMA BuildStep == ASSUME MediaIInv, Build PROVE MediaIInv'
  <1>1. PICK m \in Materials : material' = m /\ chunks' = BuiltFrom(m)
    BY DEF Build
  <1>2. phase = "parse" /\ phase' = "built" /\ UNCHANGED <<base, waiting, embedded, points>>
    BY DEF Build
  <1>3. points' = {} /\ waiting' = <<>> /\ embedded' = <<>>
    BY <1>2 DEF MediaIInv, Unwritten
  <1>4. Range(waiting') = {} /\ Range(embedded') = {}
    BY <1>3, NoneOf
  <1>5. Numbered'
    BY <1>1, BuiltNumbered DEF Numbered
  <1>6. JobOnce'
    BY <1>2, <1>3, <1>4 DEF JobOnce, IsInjective
  <1>7. MediaTypeOK'
    BY <1>1, <1>2, <1>3, <1>4 DEF MediaIInv, MediaTypeOK
  <1> QED
    BY <1>1, <1>2, <1>3, <1>4, <1>5, <1>6, <1>7
    DEF MediaIInv, Unwritten, PointsOwn, OnePointEach

(* The chunks written are those built, in their order. *)
LEMMA WriteChunksStep == ASSUME MediaIInv, WriteChunks PROVE MediaIInv'
  <1>1. PICK textOnly \in BOOLEAN :
          chunks' = [k \in DOMAIN chunks |->
                       [type |-> chunks[k].type,
                        source |-> IF textOnly THEN None ELSE chunks[k].source,
                        media |-> IF textOnly THEN None ELSE chunks[k].media]]
    BY DEF WriteChunks
  <1>2. /\ phase = "built" /\ phase' = "jsonl" /\ material' = <<>>
        /\ UNCHANGED <<base, waiting, embedded, points>>
    BY DEF WriteChunks
  <1>3. points' = {} /\ waiting' = <<>> /\ embedded' = <<>>
    BY <1>2 DEF MediaIInv, Unwritten
  <1>4. Range(waiting') = {} /\ Range(embedded') = {}
    BY <1>3, NoneOf
  <1>5. DOMAIN chunks' = DOMAIN chunks
        /\ \A k \in DOMAIN chunks : chunks'[k].type = chunks[k].type
    BY <1>1
  <1>6. Numbered'
    BY <1>5 DEF MediaIInv, Numbered
  <1>7. JobOnce'
    BY <1>2, <1>3, <1>4 DEF JobOnce, IsInjective
  <1>8. MediaTypeOK'
    BY <1>2, <1>3, <1>4 DEF MediaIInv, MediaTypeOK
  <1> QED
    BY <1>2, <1>3, <1>4, <1>6, <1>7, <1>8 DEF MediaIInv, Unwritten, PointsOwn, OnePointEach

(* A job that dies leaves the points it has written. *)
LEMMA KillJobStep == ASSUME MediaIInv, KillJob PROVE MediaIInv'
  BY Stopped DEF KillJob

(* A job is done only when every chunk is stored. *)
LEMMA ConfirmStep == ASSUME MediaIInv, Confirm PROVE MediaIInv'
  <1>1. phase = "upserting" /\ UNCHANGED <<material, chunks, base, points>>
    BY DEF Confirm
  <1>2. CASE Stop
    BY <1>1, <1>2, Stopped
  <1>3. CASE (\A k \in DOMAIN chunks : Stored(k)) /\ phase' = "indexed"
             /\ UNCHANGED <<waiting, embedded>>
    <2>1. OnePointEach'
      BY <1>1, <1>3 DEF MediaIInv, OnePointEach, Stored
    <2> QED
      BY <1>1, <1>3, <2>1 DEF MediaIInv, MediaTypeOK, Numbered, Unwritten, JobOnce, PointsOwn,
                              Own, PointId, ReferencesValid
  <1> QED
    BY <1>2, <1>3 DEF Confirm

(* A job takes every missing chunk once, and no other. *)
LEMMA StartJobStep == ASSUME MediaIInv, StartJob PROVE MediaIInv'
  <1> DEFINE ids == [k \in DOMAIN chunks |-> k]
             missing == {k \in DOMAIN chunks : ~Stored(k)}
  <1>1. /\ phase \in {"jsonl", "indexed"} /\ base' \in BOOLEAN
        /\ ReferencesValid(base') /\ points' \in {points, {}}
        /\ UNCHANGED <<material, chunks>>
    BY DEF StartJob
  <1>2. \/ /\ waiting' = Kept(ids, missing) /\ embedded' = <<>>
           /\ phase' = IF waiting' = <<>> THEN "upserting" ELSE "embedding"
        \/ Stop
    BY DEF StartJob
  <1>3. PICK n \in Nat : DOMAIN chunks = 1..n
    BY DEF MediaIInv, Numbered
  <1>4. ids \in Seq(DOMAIN chunks) /\ Len(ids) = n /\ \A k \in 1..n : ids[k] = k
    BY <1>3
  <1>5. /\ waiting' \in Seq(DOMAIN chunks) /\ IsInjective(waiting') /\ embedded' = <<>>
        /\ phase' \in {"jsonl", "embedding", "upserting"}
        /\ phase' = "embedding" => waiting' # <<>>
    <2>1. CASE Stop
      <3>1. waiting' = <<>> /\ embedded' = <<>> /\ phase' = "jsonl"
        BY <2>1 DEF Stop
      <3> QED
        BY <3>1 DEF IsInjective
    <2>2. CASE /\ waiting' = Kept(ids, missing) /\ embedded' = <<>>
               /\ phase' = IF waiting' = <<>> THEN "upserting" ELSE "embedding"
      <3> HIDE DEF ids, missing
      <3>1. waiting' \in Seq(DOMAIN chunks) /\ \E at : IsKept(at, waiting', ids, missing)
        BY <1>4, <2>2, KeptOf
      <3>2. PICK at : IsKept(at, waiting', ids, missing)
        BY <3>1
      <3>3. \A j \in 1..Len(waiting') : at[j] \in 1..n /\ waiting'[j] = at[j]
        BY <1>4, <3>2 DEF IsKept
      <3>4. ASSUME NEW i \in 1..Len(waiting'), NEW j \in 1..Len(waiting'),
                   waiting'[i] = waiting'[j]
            PROVE  i = j
        <4>1. Len(waiting') \in Nat
          BY <3>1
        <4>2. ~(i < j) /\ ~(j < i)
          BY <3>2, <3>3, <3>4 DEF IsKept
        <4> QED
          BY <4>1, <4>2
      <3>5. DOMAIN waiting' = 1..Len(waiting')
        BY <3>1
      <3> QED
        BY <2>2, <3>1, <3>4, <3>5 DEF IsInjective
    <2> QED
      BY <1>2, <2>1, <2>2
  <1>6. Range(embedded') = {} /\ points' \subseteq points
    BY <1>1, <1>5, NoneOf
  <1>7. Range(waiting') \subseteq DOMAIN chunks
    BY <1>5 DEF Range
  <1>8. JobOnce'
    BY <1>1, <1>5, <1>6, NoneOf DEF JobOnce, ReferencesValid
  <1>9. PointsOwn'
    BY <1>1, <1>6 DEF MediaIInv, PointsOwn, Own, PointId
  <1>10. MediaTypeOK'
    BY <1>1, <1>5, <1>6, <1>7 DEF MediaIInv, MediaTypeOK
  <1>11. OnePointEach'
    BY <1>5, <1>6 DEF MediaIInv, OnePointEach
  <1>12. Numbered' /\ Unwritten'
    BY <1>1, <1>5 DEF MediaIInv, Numbered, Unwritten
  <1> QED
    BY <1>8, <1>9, <1>10, <1>11, <1>12 DEF MediaIInv

(* What comes back for a batch. *)
LEMMA BatchEmbedded ==
    ASSUME MediaIInv, phase = "embedding",
           NEW rows \in Responses(InputsOfAll(FirstOf(waiting))),
           RowsParsed(rows, Len(InputsOfAll(FirstOf(waiting))))
    PROVE  LET batch == FirstOf(waiting)
               new == Embedded(batch, rows)
           IN /\ new \in Seq(Range(new)) /\ Len(new) = Len(batch) /\ Len(batch) <= BatchSize
              /\ \A n \in 1..Len(new) : /\ n \in DOMAIN waiting
                                        /\ new[n].chunk = waiting[n]
                                        /\ new[n].id = PointId(waiting[n])
                                        /\ {i.of : i \in new[n].vector} = Own(waiting[n])
  <1> DEFINE batch == FirstOf(waiting)
             new == Embedded(batch, rows)
  <1>1. waiting \in Seq(DOMAIN chunks) /\ waiting # <<>> /\ ReferencesValid(base) /\ Numbered
    BY DEF MediaIInv, JobOnce
  <1>2. /\ batch \in Seq(DOMAIN chunks) /\ batch # <<>> /\ Len(batch) <= BatchSize
        /\ \A i \in 1..Len(batch) : i \in DOMAIN waiting /\ batch[i] = waiting[i]
    BY <1>1, BatchOf
  <1>3. /\ DOMAIN new = 1..Len(batch)
        /\ \A n \in 1..Len(batch) :
             new[n] = [id |-> PointId(batch[n]), chunk |-> batch[n],
                       vector |-> Range(InputsOf(batch[n]))]
    <2> HIDE DEF batch
    <2> QED
      BY <1>1, <1>2, EmbeddedOf DEF batch
  <1>4. \A n \in 1..Len(batch) : {i.of : i \in Range(InputsOf(batch[n]))} = Own(batch[n])
    BY <1>1, <1>2, InputsAre
  <1>5. new = [n \in 1..Len(batch) |-> new[n]] /\ Len(batch) \in Nat
    <2>1. new = [n \in DOMAIN batch |-> new[n]]
      BY DEF Embedded
    <2> QED
      BY <1>2, <2>1
  <1> HIDE DEF batch, new
  <1>6. new \in [1..Len(batch) -> Range(new)]
    BY <1>3, <1>5 DEF Range
  <1>7. new \in Seq(Range(new)) /\ Len(new) = Len(batch)
    BY <1>5, <1>6
  <1>8. ASSUME NEW n \in 1..Len(new)
        PROVE  /\ n \in DOMAIN waiting
               /\ new[n].chunk = waiting[n] /\ new[n].id = PointId(waiting[n])
               /\ {i.of : i \in new[n].vector} = Own(waiting[n])
    <2>1. n \in 1..Len(batch) /\ n \in DOMAIN waiting /\ batch[n] = waiting[n]
      BY <1>2, <1>7
    <2>2. new[n] = [id |-> PointId(waiting[n]), chunk |-> waiting[n],
                    vector |-> Range(InputsOf(waiting[n]))]
      BY <1>3, <2>1
    <2>3. {i.of : i \in Range(InputsOf(waiting[n]))} = Own(waiting[n])
      BY <1>4, <2>1
    <2>4. new[n].vector = Range(InputsOf(waiting[n]))
      BY <2>2
    <2>5. {i.of : i \in new[n].vector} = Own(waiting[n])
      BY <2>3, <2>4
    <2> QED
      BY <2>1, <2>2, <2>5
  <1> QED
    BY <1>2, <1>7, <1>8 DEF batch, new

(* A batch leaves the waiting chunks for the embedded ones, each with vectors
   of its own inputs: rows are matched to inputs by their index. *)
LEMMA EmbedBatchStep == ASSUME MediaIInv, EmbedBatch PROVE MediaIInv'
  <1> DEFINE batch == FirstOf(waiting)
             inputs == FlattenSeq([n \in DOMAIN batch |-> InputsOf(batch[n])])
  <1>1. phase = "embedding" /\ UNCHANGED <<material, chunks, base, points>>
    BY DEF EmbedBatch
  <1>2. \/ Stop
        \/ \E rows \in Responses(inputs) :
             /\ RowsParsed(rows, Len(inputs))
             /\ embedded' = embedded \o Embedded(batch, rows)
             /\ waiting' = RestOf(waiting)
             /\ phase' = IF waiting' = <<>> THEN "upserting" ELSE "embedding"
    BY DEF EmbedBatch
  <1>3. inputs = InputsOfAll(batch)
    BY DEF InputsOfAll
  <1>4. CASE Stop
    BY <1>1, <1>4, Stopped
  <1>5. CASE \E rows \in Responses(inputs) :
               /\ RowsParsed(rows, Len(inputs))
               /\ embedded' = embedded \o Embedded(batch, rows)
               /\ waiting' = RestOf(waiting)
               /\ phase' = IF waiting' = <<>> THEN "upserting" ELSE "embedding"
    <2> HIDE DEF inputs
    <2>1. PICK rows \in Responses(inputs) :
             /\ RowsParsed(rows, Len(inputs))
             /\ embedded' = embedded \o Embedded(batch, rows)
             /\ waiting' = RestOf(waiting)
             /\ phase' = IF waiting' = <<>> THEN "upserting" ELSE "embedding"
      BY <1>5
    <2> DEFINE new == Embedded(batch, rows)
    <2>2. /\ new \in Seq(Range(new)) /\ Len(new) <= BatchSize
          /\ \A n \in 1..Len(new) : /\ n \in DOMAIN waiting
                                    /\ new[n].chunk = waiting[n]
                                    /\ new[n].id = PointId(waiting[n])
                                    /\ {i.of : i \in new[n].vector} = Own(waiting[n])
      <3>1. rows \in Responses(InputsOfAll(FirstOf(waiting)))
            /\ RowsParsed(rows, Len(InputsOfAll(FirstOf(waiting))))
        BY <1>3, <2>1
      <3> QED
        BY <1>1, <3>1, BatchEmbedded
    <2> HIDE DEF new, batch
    <2>3. /\ waiting \in Seq(DOMAIN chunks) /\ IsInjective(waiting)
          /\ embedded \in Seq(Range(embedded))
          /\ \A i, j \in DOMAIN embedded : embedded[i].chunk = embedded[j].chunk => i = j
          /\ \A p \in Range(embedded) : p.chunk \notin Range(waiting)
          /\ ReferencesValid(base)
      BY <1>1 DEF MediaIInv, JobOnce
    <2>4. /\ waiting' \in Seq(DOMAIN chunks)
          /\ \A j \in 1..Len(waiting') :
               BatchSize + j \in DOMAIN waiting /\ waiting'[j] = waiting[BatchSize + j]
      BY <2>1, <2>3, RestAfter
    <2> DEFINE S == Range(embedded) \cup Range(new)
    <2>5. embedded \in Seq(S) /\ new \in Seq(S)
      BY <2>2, <2>3, SeqMonotonic
    <2> HIDE DEF S
    <2>6. /\ embedded' \in Seq(S) /\ Len(embedded') = Len(embedded) + Len(new)
          /\ \A i \in 1..Len(embedded) : embedded'[i] = embedded[i]
          /\ \A j \in 1..Len(new) : embedded'[Len(embedded) + j] = new[j]
          /\ Range(embedded') = Range(embedded) \cup Range(new)
      BY <2>1, <2>5, Joined, RangeConcatenation DEF new
    <2>7. /\ Len(embedded) \in Nat /\ Len(new) \in Nat /\ Len(waiting) \in Nat
          /\ Len(waiting') \in Nat /\ BatchSize \in Nat
          /\ DOMAIN embedded = 1..Len(embedded) /\ DOMAIN new = 1..Len(new)
          /\ DOMAIN waiting = 1..Len(waiting) /\ DOMAIN waiting' = 1..Len(waiting')
          /\ DOMAIN embedded' = 1..Len(embedded')
      BY <2>3, <2>4, <2>5, <2>6, MediaAssumption
    <2>8. \A p \in Range(new) : \E n \in 1..Len(new) : n \in DOMAIN waiting /\ p = new[n]
      BY <2>2, <2>7 DEF Range
    <2>9. \A p \in Range(new) :
             /\ p.chunk \in DOMAIN chunks
             /\ p.id = PointId(p.chunk)
             /\ {i.of : i \in p.vector} = Own(p.chunk)
      <3>1. \A n \in DOMAIN waiting : waiting[n] \in DOMAIN chunks
        BY <2>3
      <3>2. ASSUME NEW p \in Range(new)
            PROVE  /\ p.chunk \in DOMAIN chunks
                   /\ p.id = PointId(p.chunk)
                   /\ {i.of : i \in p.vector} = Own(p.chunk)
        <4>1. PICK n \in 1..Len(new) : n \in DOMAIN waiting /\ p = new[n]
          BY <2>8
        <4>2. p.chunk = waiting[n] /\ p.id = PointId(waiting[n])
              /\ {i.of : i \in p.vector} = Own(waiting[n])
          BY <2>2, <4>1
        <4> QED
          BY <3>1, <4>1, <4>2
      <3> QED
        BY <3>2
    <2>10. PointsOwn'
      <3>1. \A p \in points' \cup Range(embedded') :
               p \in points \cup Range(embedded) \/ p \in Range(new)
        BY <1>1, <2>6
      <3>2. \A p \in points' \cup Range(embedded') :
               /\ p.chunk \in DOMAIN chunks
               /\ p.id = PointId(p.chunk)
               /\ {i.of : i \in p.vector} = Own(p.chunk)
        BY <2>9, <3>1 DEF MediaIInv, PointsOwn
      <3> QED
        BY <1>1, <3>2 DEF PointsOwn, Own, PointId
    <2>11. IsInjective(waiting')
      <3>1. ASSUME NEW i \in 1..Len(waiting'), NEW j \in 1..Len(waiting'),
                   waiting'[i] = waiting'[j]
            PROVE  i = j
        <4>1. BatchSize + i = BatchSize + j
          BY <2>3, <2>4, <3>1 DEF IsInjective
        <4> QED
          BY <2>7, <4>1
      <3> QED
        BY <2>7, <3>1 DEF IsInjective
    <2>12. \A i, j \in DOMAIN embedded' : embedded'[i].chunk = embedded'[j].chunk => i = j
      <3>1. ASSUME NEW i \in 1..Len(embedded')
            PROVE  \/ i \in DOMAIN embedded /\ embedded'[i] = embedded[i]
                   \/ \E n \in 1..Len(new) : /\ i = Len(embedded) + n /\ n \in DOMAIN waiting
                                             /\ embedded'[i].chunk = waiting[n]
        <4>1. CASE i <= Len(embedded)
          BY <2>6, <2>7, <4>1
        <4>2. CASE ~(i <= Len(embedded))
          <5>1. i - Len(embedded) \in 1..Len(new) /\ i = Len(embedded) + (i - Len(embedded))
            BY <2>6, <2>7, <4>2
          <5>2. embedded'[i] = new[i - Len(embedded)]
            BY <2>6, <5>1
          <5> QED
            BY <2>2, <5>1, <5>2
        <4> QED
          BY <4>1, <4>2
      <3>2. \A i \in DOMAIN embedded : embedded[i].chunk \notin Range(waiting)
        BY <2>3 DEF Range
      <3>3. \A n \in DOMAIN waiting : waiting[n] \in Range(waiting)
        BY DEF Range
      <3>4. ASSUME NEW i \in 1..Len(embedded'), NEW j \in 1..Len(embedded'),
                   embedded'[i].chunk = embedded'[j].chunk
            PROVE  i = j
        <4>1. \/ i \in DOMAIN embedded /\ embedded'[i] = embedded[i]
              \/ \E n \in 1..Len(new) : /\ i = Len(embedded) + n /\ n \in DOMAIN waiting
                                        /\ embedded'[i].chunk = waiting[n]
          BY <3>1
        <4>2. \/ j \in DOMAIN embedded /\ embedded'[j] = embedded[j]
              \/ \E n \in 1..Len(new) : /\ j = Len(embedded) + n /\ n \in DOMAIN waiting
                                        /\ embedded'[j].chunk = waiting[n]
          BY <3>1
        <4> QED
          BY <2>3, <3>2, <3>3, <3>4, <4>1, <4>2 DEF IsInjective
      <3> QED
        BY <2>7, <3>4
    <2>13. \A p \in Range(embedded') : p.chunk \notin Range(waiting')
      <3>1. ASSUME NEW j \in 1..Len(waiting') PROVE /\ waiting'[j] \in Range(waiting)
                                                    /\ \A p \in Range(new) : p.chunk # waiting'[j]
        <4>1. BatchSize + j \in DOMAIN waiting /\ waiting'[j] = waiting[BatchSize + j]
          BY <2>4
        <4>2. \A n \in 1..Len(new) : n # BatchSize + j
          BY <2>2, <2>7
        <4>3. \A n \in 1..Len(new) : n \in DOMAIN waiting => waiting[n] # waiting[BatchSize + j]
          BY <2>3, <4>1, <4>2 DEF IsInjective
        <4> QED
          BY <2>2, <2>8, <4>1, <4>3 DEF Range
      <3>2. SUFFICES ASSUME NEW p \in Range(embedded'), p.chunk \in Range(waiting')
                     PROVE  FALSE
        OBVIOUS
      <3>3. PICK j \in 1..Len(waiting') : p.chunk = waiting'[j]
        BY <2>7, <3>2 DEF Range
      <3>4. p \in Range(embedded)
        BY <2>6, <3>1, <3>2, <3>3
      <3> QED
        BY <2>3, <3>1, <3>3, <3>4
    <2>14. phase' \in {"embedding", "upserting"} /\ (phase' = "embedding" => waiting' # <<>>)
      BY <2>1
    <2>15. embedded' \in Seq(Range(embedded'))
      BY <2>6, SeqOfRange
    <2>16. JobOnce'
      BY <1>1, <2>3, <2>4, <2>11, <2>12, <2>13, <2>14, <2>15 DEF JobOnce, ReferencesValid
    <2>17. Range(waiting') \subseteq DOMAIN chunks
      BY <2>4 DEF Range
    <2>18. \A p \in points' \cup Range(embedded') : p.chunk \in DOMAIN chunks'
      BY <2>10 DEF PointsOwn
    <2>19. MediaTypeOK'
      BY <1>1, <2>14, <2>17, <2>18 DEF MediaIInv, MediaTypeOK
    <2>20. Numbered' /\ Unwritten' /\ OnePointEach'
      BY <1>1, <2>14 DEF MediaIInv, Numbered, Unwritten, OnePointEach
    <2> QED
      BY <2>10, <2>16, <2>19, <2>20 DEF MediaIInv
  <1> QED
    BY <1>2, <1>4, <1>5

(* A batch is stored whole over what had its ids, or not at all. *)
LEMMA UpsertBatchStep == ASSUME MediaIInv, UpsertBatch PROVE MediaIInv'
  <1> DEFINE first == FirstOf(embedded)
             new == Range(first)
             over == {p \in points : \A q \in new : q.id # p.id} \cup new
  <1>1. phase = "upserting" /\ embedded # <<>> /\ UNCHANGED <<material, chunks, base>>
    BY DEF UpsertBatch
  <1>2. /\ points' \in {over, points}
        /\ \/ Stop
           \/ embedded' = RestOf(embedded) /\ UNCHANGED <<phase, waiting>>
    BY DEF UpsertBatch
  <1>3. /\ embedded \in Seq(Range(embedded))
        /\ \A i, j \in DOMAIN embedded : embedded[i].chunk = embedded[j].chunk => i = j
        /\ \A p \in Range(embedded) : p.chunk \notin Range(waiting)
        /\ waiting \in Seq(DOMAIN chunks) /\ IsInjective(waiting)
    BY DEF MediaIInv, JobOnce
  <1>4. /\ first \in Seq(Range(embedded))
        /\ \A i \in 1..Len(first) : i \in DOMAIN embedded /\ first[i] = embedded[i]
    BY <1>1, <1>3, BatchOf
  <1>5. \A p \in new : \E i \in DOMAIN embedded : p = embedded[i]
    <2> HIDE DEF first
    <2>1. DOMAIN first = 1..Len(first)
      BY <1>4
    <2> QED
      BY <1>4, <2>1 DEF Range
  <1> HIDE DEF first, new
  <1>6. new \subseteq Range(embedded) /\ \A p, q \in new : p.chunk = q.chunk => p = q
    BY <1>3, <1>5 DEF Range
  <1>7. \A p \in points \cup Range(embedded) :
          /\ p.chunk \in DOMAIN chunks
          /\ p.id = PointId(p.chunk)
          /\ {i.of : i \in p.vector} = Own(p.chunk)
    BY DEF MediaIInv, PointsOwn
  <1>8. points' \subseteq points \cup Range(embedded)
    BY <1>2, <1>6
  <1>9. \A p, q \in points' : p.chunk = q.chunk => p = q
    <2>1. \A p, q \in points : p.chunk = q.chunk => p = q
      BY DEF MediaIInv, OnePointEach
    <2>2. CASE points' = points
      BY <2>1, <2>2
    <2>3. CASE points' = over
      <3>1. ASSUME NEW p \in points', NEW q \in points', p.chunk = q.chunk
            PROVE  p = q
        <4>1. p.id = q.id
          BY <1>7, <1>8, <3>1
        <4>2. p \in points \/ p \in new
          BY <2>3
        <4>3. q \in points \/ q \in new
          BY <2>3
        <4>4. ~(p \in new /\ q \notin new) /\ ~(q \in new /\ p \notin new)
          BY <2>3, <4>1
        <4> QED
          BY <1>6, <2>1, <3>1, <4>2, <4>3, <4>4
      <3> QED
        BY <3>1
    <2> QED
      BY <1>2, <2>2, <2>3
  <1>10. /\ waiting' \in Seq(DOMAIN chunks) /\ IsInjective(waiting')
         /\ Range(waiting') \subseteq Range(waiting)
         /\ Range(embedded') \subseteq Range(embedded)
         /\ embedded' \in Seq(Range(embedded'))
         /\ \A i, j \in DOMAIN embedded' : embedded'[i].chunk = embedded'[j].chunk => i = j
         /\ phase' \in {"jsonl", "upserting"}
    <2>1. CASE Stop
      <3>1. waiting' = <<>> /\ embedded' = <<>> /\ phase' = "jsonl"
        BY <2>1 DEF Stop
      <3>2. Range(waiting') = {} /\ Range(embedded') = {}
        BY <3>1, NoneOf
      <3> QED
        BY <3>1, <3>2, NoneOf DEF IsInjective
    <2>2. CASE embedded' = RestOf(embedded) /\ UNCHANGED <<phase, waiting>>
      <3>1. /\ embedded' \in Seq(Range(embedded))
            /\ \A j \in 1..Len(embedded') : /\ BatchSize + j \in DOMAIN embedded
                                            /\ embedded'[j] = embedded[BatchSize + j]
        BY <1>3, <2>2, RestAfter
      <3>2. DOMAIN embedded' = 1..Len(embedded') /\ Len(embedded') \in Nat /\ BatchSize \in Nat
        BY <3>1, MediaAssumption
      <3>3. Range(embedded') \subseteq Range(embedded)
        BY <3>1, <3>2 DEF Range
      <3>4. embedded' \in Seq(Range(embedded'))
        BY <3>1, SeqOfRange
      <3>5. ASSUME NEW i \in 1..Len(embedded'), NEW j \in 1..Len(embedded'),
                   embedded'[i].chunk = embedded'[j].chunk
            PROVE  i = j
        <4>1. BatchSize + i = BatchSize + j
          BY <1>3, <3>1, <3>5
        <4> QED
          BY <3>2, <4>1
      <3> QED
        BY <1>1, <1>3, <2>2, <3>2, <3>3, <3>4, <3>5
    <2> QED
      BY <1>2, <2>1, <2>2
  <1>11. JobOnce'
    BY <1>1, <1>3, <1>10 DEF JobOnce
  <1>12. PointsOwn'
    BY <1>1, <1>7, <1>8, <1>10 DEF PointsOwn, Own, PointId
  <1>13. OnePointEach'
    BY <1>9, <1>10 DEF OnePointEach
  <1>14. Range(waiting') \subseteq DOMAIN chunks
    BY <1>10 DEF Range
  <1>15. MediaTypeOK'
    BY <1>1, <1>7, <1>8, <1>10, <1>14 DEF MediaIInv, MediaTypeOK
  <1>16. Numbered' /\ Unwritten'
    BY <1>1, <1>10 DEF MediaIInv, Numbered, Unwritten
  <1> QED
    BY <1>11, <1>12, <1>13, <1>15, <1>16 DEF MediaIInv

-----------------------------------------------------------------------------
(* The theorems *)

(* So the invariant holds in every state of the jobs. *)
LEMMA MediaInductive == MediaSpec => []MediaIInv
  <1>1. MediaInit => MediaIInv
    BY InitHolds
  <1>2. MediaIInv /\ [MediaNext]_mediaVars => MediaIInv'
    <2> SUFFICES ASSUME MediaIInv, [MediaNext]_mediaVars PROVE MediaIInv'
      OBVIOUS
    <2>1. CASE UNCHANGED mediaVars
      BY <2>1 DEF mediaVars, MediaIInv, MediaTypeOK, Numbered, Unwritten, JobOnce, PointsOwn,
                  OnePointEach, Own, PointId, ReferencesValid
    <2>2. CASE MediaNext
      BY <2>2, RefuseStep, BuildStep, WriteChunksStep, StartJobStep, EmbedBatchStep,
         UpsertBatchStep, ConfirmStep, KillJobStep
      DEF MediaNext
    <2> QED
      BY <2>1, <2>2
  <1> QED
    BY <1>1, <1>2, PTL DEF MediaSpec

(* Every variable has its type; what the job holds are chunks of the file. *)
THEOREM MediaTypesCorrect == MediaSpec => []MediaTypeOK
  <1>1. MediaIInv => MediaTypeOK
    BY DEF MediaIInv
  <1> QED
    BY <1>1, MediaInductive, PTL

(* However often the job is killed and started again, whatever it embeds and  *)
(* upserts in which batches: a chunk never has two points, and a job that     *)
(* reports success leaves none without one (index_chunks.main).               *)
THEOREM NoChunkTwice == MediaSpec => []OnePointEach
  <1>1. MediaIInv => OnePointEach
    BY DEF MediaIInv
  <1> QED
    BY <1>1, MediaInductive, PTL

(* In whatever order the service answers, a stored vector is made of the text *)
(* and all the media of its own chunk (ApiMultimodalEmbedder.embed_chunks).   *)
THEOREM VectorsTheirOwn == MediaSpec => []OwnVectors
  <1>1. MediaIInv => OwnVectors
    BY DEF MediaIInv, PointsOwn, OwnVectors, Own
  <1> QED
    BY <1>1, MediaInductive, PTL

(* Every segment and every frame is in exactly one chunk and within the clip  *)
(* cut for it, whatever the window, the speech and the frames (chunk_media).  *)
THEOREM EvidencePlaced == MediaSpec => []EvidenceOnce
  <1>1. MediaIInv => EvidenceOnce
    <2> SUFFICES ASSUME MediaIInv, phase = "built", material.type # "image"
                 PROVE  EvidenceOnce
      BY DEF EvidenceOnce
    <2>1. material \in Materials /\ chunks = BuiltFrom(material)
      BY DEF MediaIInv, Unwritten
    <2> QED
      BY <2>1, EvidenceInChunks DEF EvidenceOnce
  <1> QED
    BY <1>1, MediaInductive, PTL

-----------------------------------------------------------------------------
(***************************************************************************)
(* Then documents: no passage falls between two chunks, and a citation is  *)
(* shown where it stands, for any file, any window and any overlap. The    *)
(* cutting and the locating code lay the same windows out in the same order; *)
(* the windows are in place because code units of joined texts are joined. *)
(***************************************************************************)

(* A block as the parsers make it. *)
TextBlocks == [text : Seq(Characters) \ {<<>>}, heading : Seq(Characters)]

-----------------------------------------------------------------------------
(* What the parsers make *)

(* A list made element by element. *)
LEMMA ListOf ==
    ASSUME NEW S, NEW n \in Nat, NEW f, f \in [1..n -> S]
    PROVE  f \in Seq(S) /\ Len(f) = n /\ DOMAIN f = 1..n
  OBVIOUS

(* Lines of text make blocks without a heading. *)
LEMMA PlainTyped ==
    ASSUME NEW texts \in Seq(Seq(Characters) \ {<<>>})
    PROVE  Plain(texts) \in Seq(TextBlocks)
  <1> DEFINE T == Seq(Characters) \ {<<>>}
             N == Len(texts)
  <1>1. N \in Nat /\ DOMAIN texts = 1..N
    OBVIOUS
  <1>2. <<>> \in Seq(Characters)
    OBVIOUS
  <1>3. \A i \in 1..N : texts[i] \in T
    <2> HIDE DEF T
    <2>1. texts \in Seq(T)
      BY DEF T
    <2> QED
      BY <2>1, ElementOfSeq DEF N
  <1>4. \A i \in 1..N : Block(texts[i], <<>>) \in TextBlocks
    <2> TAKE i \in 1..N
    <2>1. texts[i] \in T
      BY <1>3
    <2>2. texts[i] \in Seq(Characters) \ {<<>>}
      BY <2>1 DEF T
    <2> QED
      BY <1>2, <2>2, Zenon DEF Block, TextBlocks
  <1>5. Plain(texts) = [i \in 1..N |-> Block(texts[i], <<>>)]
    BY <1>1 DEF Plain
  <1> HIDE DEF N
  <1>6. Plain(texts) \in [1..N -> TextBlocks]
    BY <1>4, <1>5
  <1> QED
    BY <1>1, <1>6, ListOf

(* What removing the repeated edges leaves of the pages. *)
LEMMA WithoutEdgesTyped ==
    ASSUME NEW T, NEW pages \in Seq(Seq(T))
    PROVE  WithoutEdges(pages) \in Seq(Seq(T))
  <1> DEFINE N == Len(pages)
             Repeated(text) == EdgeCount(pages, text) >= 2
             kept(page) == {i \in DOMAIN page : ~Repeated(page[i])}
             Clean(page) == IF kept(page) = {} THEN <<>>
                            ELSE SubSeq(page, Min(kept(page)), Max(kept(page)))
  <1>1. N \in Nat /\ DOMAIN pages = 1..N /\ \A p \in 1..N : pages[p] \in Seq(T)
    OBVIOUS
  <1>2. WithoutEdges(pages) = [p \in 1..N |-> Clean(pages[p])]
    BY <1>1, Zenon DEF WithoutEdges
  <1> HIDE DEF N, Repeated
  <1>3. ASSUME NEW page \in Seq(T) PROVE Clean(page) \in Seq(T)
    <2>1. CASE kept(page) = {}
      BY <2>1
    <2>2. CASE kept(page) # {}
      <3>1. Len(page) \in Nat /\ DOMAIN page = 1..Len(page)
        OBVIOUS
      <3>2. kept(page) \in SUBSET Nat /\ kept(page) \in SUBSET (0..Len(page))
            /\ kept(page) \in SUBSET (1..Len(page))
        BY <3>1
      <3> DEFINE K == kept(page)
      <3> HIDE DEF kept
      <3> HIDE DEF K
      <3>3. Min(K) \in K /\ Max(K) \in K
        BY <2>2, <3>1, <3>2, MinOf, MaxOf DEF K
      <3>4. Min(K) \in Nat /\ Min(K) # 0 /\ Max(K) \in Nat /\ Max(K) <= Len(page)
        BY <3>1, <3>2, <3>3 DEF K
      <3>5. SubSeq(page, Min(K), Max(K)) \in Seq(T)
        BY <3>4, PartOf
      <3> QED
        BY <2>2, <3>5 DEF K
    <2> QED
      BY <2>1, <2>2
  <1> HIDE DEF Clean
  <1>4. [p \in 1..N |-> Clean(pages[p])] \in [1..N -> Seq(T)]
    BY <1>1, <1>3
  <1> QED
    BY <1>1, <1>2, <1>4, ListOf

(* A PDF gives blocks with text: pages left empty by the edge filter are read
   whole, and blank pages are left out. *)
LEMMA PdfBlocksTyped ==
    ASSUME NEW pages \in Seq(Seq(Seq(Characters) \ {<<>>}))
    PROVE  PdfBlocks(pages) \in Seq(TextBlocks)
  <1> DEFINE T == Seq(Characters) \ {<<>>}
             N == Len(pages)
             texts == FlattenSeq(WithoutEdges(pages))
             whole == [p \in DOMAIN pages |-> FlattenSeq(pages[p])]
             good == {t \in Range(whole) : ~Blank(t)}
             chosen == IF texts # <<>> THEN texts ELSE Kept(whole, good)
  <1>1. texts \in Seq(T)
    <2> HIDE DEF T
    <2>1. pages \in Seq(Seq(T))
      BY DEF T
    <2>2. WithoutEdges(pages) \in Seq(Seq(T))
      BY <2>1, WithoutEdgesTyped
    <2> QED
      BY <2>2, Flattened
  <1>2. whole \in Seq(Seq(Characters))
    <2> HIDE DEF T
    <2>1. pages \in Seq(Seq(T))
      BY DEF T
    <2>2. N \in Nat /\ DOMAIN pages = 1..N /\ \A p \in 1..N : pages[p] \in Seq(T)
      BY <2>1
    <2>3. T \subseteq Seq(Characters)
      BY DEF T
    <2>4. \A p \in 1..N : pages[p] \in Seq(Seq(Characters))
      <3> DEFINE C == Seq(Characters)
      <3> HIDE DEF C
      <3>1. T \subseteq C
        BY <2>3 DEF C
      <3> HIDE DEF N
      <3>2. \A p \in 1..N : pages[p] \in Seq(C)
        BY <2>2, <3>1
      <3> QED
        BY <3>2 DEF C
    <2>5. \A p \in 1..N : FlattenSeq(pages[p]) \in Seq(Characters)
      <3> HIDE DEF N
      <3> TAKE p \in 1..N
      <3>1. pages[p] \in Seq(Seq(Characters))
        BY <2>4
      <3> QED
        BY <3>1, Flattened
    <2> HIDE DEF N
    <2>6. whole \in [1..N -> Seq(Characters)]
      BY <2>2, <2>5
    <2> HIDE DEF whole
    <2> QED
      BY <2>2, <2>6, ListOf
  <1>3. Kept(whole, good) \in Seq(T)
    <2> DEFINE kept == Kept(whole, good)
               n == Len(kept)
    <2> HIDE DEF whole, good
    <2>1. kept \in Seq(Seq(Characters)) /\ \E at : IsKept(at, kept, whole, good)
      BY <1>2, KeptOf
    <2> HIDE DEF kept
    <2>2. PICK at : IsKept(at, kept, whole, good)
      BY <2>1
    <2>3. n \in Nat /\ kept \in [1..n -> Seq(Characters)]
      BY <2>1
    <2>4. \A k \in 1..n : kept[k] \in good
      BY <2>2 DEF IsKept
    <2>5. \A t \in good : ~Blank(t)
      BY DEF good
    <2>6. Blank(<<>>)
      BY DEF Blank
    <2>7. \A k \in 1..n : kept[k] \in T
      <3> TAKE k \in 1..n
      <3>1. kept[k] \in Seq(Characters)
        BY <2>3
      <3>2. ~Blank(kept[k])
        BY <2>4, <2>5
      <3>3. kept[k] # <<>>
        BY <2>6, <3>2, Zenon
      <3> QED
        BY <3>1, <3>3
    <2> HIDE DEF T, n
    <2>8. kept \in [1..n -> T]
      BY <2>3, <2>7
    <2>9. kept \in Seq(T)
      BY <2>3, <2>8, ListOf
    <2> QED
      BY <2>9 DEF kept
  <1>4. chosen \in Seq(T)
    <2> HIDE DEF texts, whole, good, T
    <2> QED
      BY <1>1, <1>3
  <1>5. PdfBlocks(pages) = Plain(chosen)
    BY Zenon DEF PdfBlocks
  <1> HIDE DEF chosen
  <1> QED
    BY <1>4, <1>5, PlainTyped

(* What belongs to the parts belongs to the whole. *)
LEMMA CarriedOf ==
    ASSUME NEW b \in Seq(TextBlocks), NEW h \in Seq(Characters)
    PROVE  [blocks |-> b, heading |-> h] \in [blocks : Seq(TextBlocks), heading : Seq(Characters)]
  <1> DEFINE B == Seq(TextBlocks)
             C == Seq(Characters)
  <1>1. b \in B /\ h \in C
    OBVIOUS
  <1> HIDE DEF B, C
  <1>2. [blocks |-> b, heading |-> h] \in [blocks : B, heading : C]
    BY <1>1
  <1> QED
    BY <1>2 DEF B, C

(* How DocxParser goes from one element to the next. *)
Elements == [kind : {"heading", "paragraph"}, text : Seq(Characters)]

Carried == [blocks : Seq(TextBlocks), heading : Seq(Characters)]

WithElement(acc, e) ==
    IF Blank(e.text) THEN acc
    ELSE IF e.kind = "heading" THEN [acc EXCEPT !.heading = Strip(e.text)]
    ELSE [acc EXCEPT !.blocks = Append(@, Block(Strip(e.text), acc.heading))]

(* One element of a DOCX adds a block, or is the heading of the next. *)
LEMMA WithElementTyped ==
    ASSUME NEW acc \in Carried, NEW e \in Elements
    PROVE  WithElement(acc, e) \in Carried
  <1>1. e.text \in Seq(Characters)
    BY DEF Elements
  <1>2. acc.blocks \in Seq(TextBlocks) /\ acc.heading \in Seq(Characters)
        /\ acc = [blocks |-> acc.blocks, heading |-> acc.heading]
    <2> DEFINE B == Seq(TextBlocks)
               C == Seq(Characters)
    <2> HIDE DEF B, C
    <2>1. acc \in [blocks : B, heading : C]
      BY DEF Carried, B, C
    <2>2. acc.blocks \in B /\ acc.heading \in C
          /\ acc = [blocks |-> acc.blocks, heading |-> acc.heading]
      BY <2>1
    <2> QED
      BY <2>2 DEF B, C
  <1> DEFINE t == Strip(e.text)
  <1>3. t \in Seq(Characters) /\ (~Blank(e.text) => Len(t) # 0)
    BY <1>1, StripOf
  <1> HIDE DEF t
  <1>4. CASE Blank(e.text)
    BY <1>4 DEF WithElement
  <1>5. CASE ~Blank(e.text) /\ e.kind = "heading"
    <2>1. WithElement(acc, e) = [acc EXCEPT !.heading = t]
      BY <1>5 DEF WithElement, t
    <2>2. WithElement(acc, e) = [blocks |-> acc.blocks, heading |-> t]
      BY <1>2, <2>1
    <2> QED
      BY <1>2, <1>3, <2>2, CarriedOf DEF Carried
  <1>6. CASE ~Blank(e.text) /\ e.kind # "heading"
    <2> DEFINE b == Block(t, acc.heading)
               more == Append(acc.blocks, b)
    <2>1. t # <<>>
      BY <1>3, <1>6
    <2>2. t \in Seq(Characters) \ {<<>>}
      BY <1>3, <2>1
    <2>3. b \in TextBlocks
      BY <1>2, <2>2, Zenon DEF Block, TextBlocks
    <2> HIDE DEF b
    <2>4. more \in Seq(TextBlocks)
      BY <1>2, <2>3
    <2>5. WithElement(acc, e) = [acc EXCEPT !.blocks = more]
      BY <1>6 DEF WithElement, t, b
    <2> HIDE DEF more
    <2>6. WithElement(acc, e) = [blocks |-> more, heading |-> acc.heading]
      BY <1>2, <2>5
    <2> QED
      BY <1>2, <2>4, <2>6, CarriedOf DEF Carried
  <1> QED
    BY <1>4, <1>5, <1>6

(* So a DOCX gives blocks with text, each under the heading above it. *)
LEMMA DocxBlocksTyped ==
    ASSUME NEW elements \in Seq(Elements)
    PROVE  DocxBlocks(elements) \in Seq(TextBlocks)
  <1> DEFINE N == Len(elements)
             g == [p \in Carried \X (1..N) |-> WithElement(p[1], elements[p[2]])]
             b0 == [blocks |-> <<>>, heading |-> <<>>]
  <1>1. N \in Nat /\ DOMAIN elements = 1..N
    OBVIOUS
  <1>2. \A k \in 1..N : elements[k] \in Elements
    <2> DEFINE E == Elements
    <2> HIDE DEF E
    <2>1. elements \in Seq(E)
      BY DEF E
    <2>2. \A k \in 1..N : elements[k] \in E
      BY <2>1
    <2> QED
      BY <2>2 DEF E
  <1>3. b0 \in Carried
    <2>1. <<>> \in Seq(TextBlocks) /\ <<>> \in Seq(Characters)
      OBVIOUS
    <2> QED
      BY <2>1, Zenon DEF Carried
  <1>4. \A a \in Carried : \A k \in 1..N : WithElement(a, elements[k]) \in Carried
    BY <1>2, WithElementTyped
  <1>5. IsStep(g, Carried, N)
    BY <1>4 DEF IsStep
  <1> HIDE DEF N, g, b0
  <1>6. PICK it : IsFold(it, g, b0, Carried, N)
    BY <1>1, <1>3, <1>5, FoldExists
  <1> DEFINE P == SUBSET (1..N)
             Fits(w) == w = [s \in P |-> IF s = {} THEN b0
                                         ELSE WithElement(w[s \ {Max(s)}], elements[Max(s)])]
             c == CHOOSE w : Fits(w)
  <1>7. Fits(it)
    <2>1. /\ it \in [P -> Carried]
          /\ it = [s \in P |-> IF s = {} THEN b0 ELSE g[<<it[s \ {Max(s)}], Max(s)>>]]
      BY <1>6 DEF IsFold
    <2>2. ASSUME NEW s \in P, s # {}
          PROVE  g[<<it[s \ {Max(s)}], Max(s)>>]
                   = WithElement(it[s \ {Max(s)}], elements[Max(s)])
      <3>1. s \in SUBSET (0..N)
        BY <1>1
      <3>2. Max(s) \in s
        BY <1>1, <2>2, <3>1, MaxOf
      <3>3. s \ {Max(s)} \in P /\ Max(s) \in 1..N
        BY <3>2
      <3>4. it[s \ {Max(s)}] \in Carried
        BY <2>1, <3>3
      <3> QED
        BY <3>3, <3>4 DEF g
    <2> HIDE DEF P
    <2> QED
      BY <2>1, <2>2
  <1>8. Fits(c)
    <2> HIDE DEF Fits
    <2> QED
      BY <1>7, Zenon
  <1>9. DocxBlocks(elements) = c[1..N].blocks
    BY <1>1, Zenon DEF DocxBlocks, FoldLeft, MapThenFoldSet, WithElement, b0
  <1> HIDE DEF c
  <1>10. c[{}] = b0
    BY <1>8
  <1>11. ASSUME NEW k \in 1..N PROVE c[1..k] = WithElement(c[1..(k - 1)], elements[k])
    <2>1. k \in Nat /\ k # 0 /\ 1..k \in P
      BY <1>1
    <2>2. Max(1..k) = k /\ (1..k) \ {k} = 1..(k - 1) /\ 1..k # {}
      BY <2>1, UpTo
    <2>3. c[1..k] = WithElement(c[(1..k) \ {Max(1..k)}], elements[Max(1..k)])
      BY <1>8, <2>1, <2>2
    <2> QED
      BY <2>2, <2>3
  <1> HIDE DEF Fits, P
  <1> DEFINE K == {k \in Nat : k <= N => c[1..k] \in Carried}
  <1>12. 0 \in K
    <2>1. 1..0 = {}
      OBVIOUS
    <2> QED
      BY <1>3, <1>10, <2>1
  <1>13. ASSUME NEW k \in Nat, k \in K PROVE k + 1 \in K
    <2>1. SUFFICES ASSUME k + 1 <= N PROVE c[1..(k + 1)] \in Carried
      OBVIOUS
    <2>2. k + 1 \in 1..N /\ (k + 1) - 1 = k /\ k <= N
      BY <1>1, <2>1
    <2>3. c[1..k] \in Carried
      BY <1>13, <2>2
    <2> QED
      BY <1>4, <1>11, <2>2, <2>3
  <1> HIDE DEF K
  <1>14. \A k \in Nat : k \in K
    BY <1>12, <1>13, SetInduction, Zenon
  <1>15. c[1..N] \in Carried
    BY <1>1, <1>14 DEF K
  <1>16. c[1..N].blocks \in Seq(TextBlocks)
    <2> DEFINE B == Seq(TextBlocks)
               C == Seq(Characters)
               x == c[1..N]
    <2> HIDE DEF B, C, x
    <2>1. x \in [blocks : B, heading : C]
      BY <1>15 DEF Carried, B, C, x
    <2>2. x.blocks \in B
      BY <2>1
    <2> QED
      BY <2>2 DEF B, x
  <1> QED
    BY <1>9, <1>16

(* parse_document gives blocks with a text. *)
LEMMA BlocksTyped ==
    ASSUME NEW file \in Files, Readable(file)
    PROVE  /\ Blocks(file) \in Seq(TextBlocks)
           /\ file.kind = "text" =>
                /\ file.text \in Seq(Characters)
                /\ Blocks(file) = IF Blank(file.text) THEN <<>>
                                  ELSE <<Block(Strip(file.text), <<>>)>>
  <1> DEFINE C == Seq(Characters)
             E == Seq(Elements)
             G == Seq(Seq(Seq(Characters) \ {<<>>}))
  <1>1. \/ file \in [kind : {"text"}, text : C \cup {NoText}]
        \/ file \in [kind : {"docx"}, elements : E]
        \/ file \in [kind : {"pdf"}, pages : G]
    BY Zenon DEF Files, Elements
  <1> HIDE DEF C, E, G
  <1>2. CASE file \in [kind : {"text"}, text : C \cup {NoText}]
    <2>1. file.kind = "text" /\ file = [kind |-> file.kind, text |-> file.text]
          /\ file.text \in C \cup {NoText}
      BY <1>2
    <2>2. file.text \in Seq(Characters)
      BY <2>1 DEF Readable, C
    <2> DEFINE t == Strip(file.text)
    <2>3. t \in Seq(Characters) /\ (~Blank(file.text) => Len(t) # 0)
      BY <2>2, StripOf
    <2> HIDE DEF t
    <2>4. Plain(<<t>>) = <<Block(t, <<>>)>>
      BY DEF Plain
    <2>5. Blocks(file) = IF Blank(file.text) THEN <<>> ELSE <<Block(t, <<>>)>>
      BY <2>1, <2>4 DEF Blocks, t
    <2>6. ~Blank(file.text) => Block(t, <<>>) \in TextBlocks
      <3>1. SUFFICES ASSUME ~Blank(file.text) PROVE Block(t, <<>>) \in TextBlocks
        OBVIOUS
      <3>2. t # <<>>
        BY <2>3, <3>1
      <3>3. t \in Seq(Characters) \ {<<>>} /\ <<>> \in Seq(Characters)
        BY <2>3, <3>2
      <3> QED
        BY <3>3, Zenon DEF Block, TextBlocks
    <2>7. Blocks(file) \in Seq(TextBlocks)
      <3> DEFINE b == Block(t, <<>>)
      <3> HIDE DEF b
      <3>1. CASE Blank(file.text)
        BY <2>5, <3>1
      <3>2. CASE ~Blank(file.text)
        <4>1. b \in TextBlocks /\ Blocks(file) = <<b>>
          BY <2>5, <2>6, <3>2 DEF b
        <4> QED
          BY <4>1
      <3> QED
        BY <3>1, <3>2
    <2> QED
      BY <2>2, <2>5, <2>7 DEF t
  <1>3. CASE file \in [kind : {"docx"}, elements : E]
    <2>1. file.kind = "docx" /\ file.elements \in E
      BY <1>3
    <2>2. file.elements \in Seq(Elements) /\ Blocks(file) = DocxBlocks(file.elements)
      BY <2>1 DEF Blocks, E
    <2> QED
      BY <2>1, <2>2, DocxBlocksTyped
  <1>4. CASE file \in [kind : {"pdf"}, pages : G]
    <2>1. file.kind = "pdf" /\ file.pages \in G
      BY <1>4
    <2>2. file.pages \in Seq(Seq(Seq(Characters) \ {<<>>}))
          /\ Blocks(file) = PdfBlocks(file.pages)
      BY <2>1 DEF Blocks, G
    <2> QED
      BY <2>1, <2>2, PdfBlocksTyped
  <1> QED
    BY <1>1, <1>2, <1>3, <1>4

-----------------------------------------------------------------------------
(* The windows of a text *)

(* A window steps forward: the overlap is shorter than the window. *)
LEMMA StepOf == Step \in Nat /\ Step # 0 /\ MaxChars \in Nat /\ Overlap \in Nat
                /\ MaxChars = Step + Overlap /\ MaxChars # 0
  BY SlicingAssumption DEF Step

(* The first window begins the text, and every other one is inside it. *)
LEMMA StartsOf ==
    ASSUME NEW S, NEW text \in Seq(S), Len(text) # 0
    PROVE  /\ PieceStarts(text) \in Seq(Nat)
           /\ Len(PieceStarts(text)) # 0
           /\ PieceStarts(text)[1] = 0
           /\ \A k \in 1..Len(PieceStarts(text)) :
                /\ PieceStarts(text)[k] \in Nat
                /\ PieceStarts(text)[k] < Len(text)
                /\ k # 1 => PieceStarts(text)[k] # 0
  <1> DEFINE L == Len(text)
             starts == PieceStarts(text)
             d == Step
             m == (L + d - 1) \div d
  <1>1. L \in Nat /\ L # 0 /\ d \in Nat /\ d # 0
    BY StepOf
  <1>2. CASE L <= MaxChars
    <2>1. starts = <<0>>
      BY <1>2 DEF PieceStarts
    <2> HIDE DEF starts
    <2>2. starts \in Seq(Nat) /\ Len(starts) = 1 /\ starts[1] = 0
      BY <2>1
    <2> HIDE DEF L
    <2>3. \A k \in 1..Len(starts) : k = 1
      BY <2>2
    <2>4. 0 < L
      BY <1>1
    <2>5. \A k \in 1..Len(starts) : starts[k] \in Nat /\ starts[k] < L /\ (k # 1 => starts[k] # 0)
      BY <2>2, <2>3, <2>4
    <2> QED
      BY <2>2, <2>5 DEF starts, L
  <1>3. CASE ~(L <= MaxChars)
    <2>1. starts = [k \in 1..m |-> (k - 1) * d]
      BY <1>3 DEF PieceStarts
    <2> HIDE DEF starts, d, L
    <2>2. L + d - 1 \in Nat
      BY <1>1
    <2>3. m \in Nat /\ d * m <= L + d - 1 /\ L + d - 1 < d * m + d
      BY <1>1, <2>2, Divided
    <2> HIDE DEF m
    <2>4. m # 0
      <3>1. d * 0 = 0
        BY <1>1
      <3> QED
        BY <1>1, <2>3, <3>1
    <2>5. ASSUME NEW k \in 1..m
          PROVE  (k - 1) * d \in Nat /\ (k - 1) * d < L /\ (k # 1 => (k - 1) * d # 0)
      <3>1. k - 1 \in Nat /\ k - 1 < m
        BY <2>3
      <3>2. d * (k - 1) \in Nat /\ d * m \in Nat /\ d * (k - 1) + d <= d * m
        BY <1>1, <2>3, <3>1, Multiples
      <3>3. d * (k - 1) = (k - 1) * d
        BY <1>1, <3>1
      <3>4. k # 1 => d * (k - 1) # 0
        <4>1. SUFFICES ASSUME k # 1 PROVE d * (k - 1) # 0
          OBVIOUS
        <4>2. 0 < k - 1 /\ 0 \in Nat
          BY <3>1, <4>1
        <4>3. d * 0 + d <= d * (k - 1) /\ d * 0 \in Nat
          BY <1>1, <3>1, <4>2, Multiples
        <4> QED
          BY <1>1, <3>2, <4>3
      <3>5. d * (k - 1) < L
        BY <1>1, <2>3, <3>2
      <3> QED
        BY <3>2, <3>3, <3>4, <3>5
    <2>6. starts \in [1..m -> Nat] /\ \A k \in 1..m : starts[k] = (k - 1) * d
      BY <2>1, <2>5
    <2>7. starts \in Seq(Nat) /\ Len(starts) = m
      BY <2>3, <2>6, ListOf
    <2>8. 1 \in 1..m /\ (1 - 1) * d = 0
      BY <1>1, <2>3, <2>4
    <2>9. starts[1] = 0
      BY <2>6, <2>8
    <2> QED
      BY <2>4, <2>5, <2>6, <2>7, <2>9 DEF starts, L
  <1> QED
    BY <1>2, <1>3

(* Every passage that is at most one character longer than the overlap is *)
(* inside one window.                                                     *)
LEMMA WindowFor ==
    ASSUME NEW S, NEW text \in Seq(S), NEW size \in Nat, NEW i \in Nat, i # 0,
           size <= Overlap + 1, Len(text) # 0, i <= Len(text), i + size - 1 <= Len(text)
    PROVE  \E k \in 1..Len(PieceStarts(text)) :
              PieceStarts(text)[k] < i /\ i + size - 1 <= PieceStarts(text)[k] + MaxChars
  <1> DEFINE L == Len(text)
             starts == PieceStarts(text)
             d == Step
             m == (L + d - 1) \div d
             p == (i - 1) \div d
  <1>1. L \in Nat /\ L # 0 /\ d \in Nat /\ d # 0 /\ MaxChars \in Nat /\ Overlap \in Nat
        /\ MaxChars = d + Overlap
    BY StepOf
  <1>2. CASE L <= MaxChars
    <2>1. starts = <<0>>
      BY <1>2 DEF PieceStarts
    <2> HIDE DEF starts, d
    <2>2. 1 \in 1..Len(starts) /\ starts[1] = 0
      BY <2>1
    <2>3. 0 < i /\ i + size - 1 <= 0 + MaxChars
      BY <1>1, <1>2
    <2> QED
      BY <2>2, <2>3 DEF starts
  <1>3. CASE ~(L <= MaxChars)
    <2>1. starts = [k \in 1..m |-> (k - 1) * d]
      BY <1>3 DEF PieceStarts
    <2> HIDE DEF starts, d, L
    <2>2. L + d - 1 \in Nat /\ i - 1 \in Nat
      BY <1>1
    <2>3. m \in Nat /\ d * m <= L + d - 1 /\ L + d - 1 < d * m + d
      BY <1>1, <2>2, Divided
    <2>4. p \in Nat /\ d * p <= i - 1 /\ i - 1 < d * p + d
      BY <1>1, <2>2, Divided
    <2> HIDE DEF m, p
    <2>5. p < m
      <3>1. SUFFICES ASSUME ~(p < m) PROVE FALSE
        OBVIOUS
      <3>2. d * m <= d * p
        <4>1. CASE m = p
          BY <1>1, <2>3, <4>1
        <4>2. CASE m # p
          <5>1. m < p
            BY <2>3, <2>4, <3>1, <4>2
          <5>2. d * m \in Nat /\ d * p \in Nat /\ d * m + d <= d * p
            BY <1>1, <2>3, <2>4, <5>1, Multiples
          <5> QED
            BY <1>1, <5>2
        <4> QED
          BY <4>1, <4>2
      <3>3. d * m \in Nat /\ d * p \in Nat
        BY <1>1, <2>3, <2>4
      <3>4. i - 1 <= L - 1
        BY <1>1 DEF L
      <3> QED
        BY <1>1, <2>3, <2>4, <3>2, <3>3, <3>4
    <2>6. p + 1 \in 1..m /\ (p + 1) - 1 = p
      BY <2>3, <2>4, <2>5
    <2>7. Len(starts) = m
      BY <2>1, <2>3
    <2>8. starts[p + 1] = p * d /\ p * d = d * p /\ d * p \in Nat
      BY <1>1, <2>1, <2>4, <2>6
    <2>9. starts[p + 1] < i /\ i + size - 1 <= starts[p + 1] + MaxChars
      BY <1>1, <2>4, <2>8
    <2> QED
      BY <2>6, <2>7, <2>9 DEF starts
  <1> QED
    BY <1>2, <1>3

(* A window and what it holds. *)
LEMMA PieceOf ==
    ASSUME NEW S, NEW text \in Seq(S), NEW start \in Nat, start < Len(text)
    PROVE  /\ PieceEnd(text, start) \in Nat
           /\ start < PieceEnd(text, start)
           /\ PieceEnd(text, start) <= Len(text)
           /\ PieceEnd(text, start) = Len(text) \/ PieceEnd(text, start) = start + MaxChars
           /\ Piece(text, start) \in Seq(S)
           /\ Len(Piece(text, start)) = PieceEnd(text, start) - start
           /\ \A i \in 1..Len(Piece(text, start)) : Piece(text, start)[i] = text[start + i]
  <1> DEFINE L == Len(text)
             two == {start + MaxChars, L}
             e == PieceEnd(text, start)
             q == Piece(text, start)
  <1>1. L \in Nat /\ MaxChars \in Nat /\ MaxChars # 0
    BY StepOf
  <1>2. e = Min(two)
    BY DEF PieceEnd
  <1>3. two \in SUBSET Nat /\ two # {}
    BY <1>1
  <1>4. e \in two /\ \A x \in two : e <= x
    BY <1>2, <1>3, MinOf
  <1>5. q = SubSeq(text, start + 1, e)
    BY DEF Piece
  <1> HIDE DEF e, q
  <1>6. e \in Nat /\ start < e /\ e <= L /\ (e = L \/ e = start + MaxChars)
    <2>1. L \in two /\ start + MaxChars \in two /\ (e = L \/ e = start + MaxChars)
      BY <1>4
    <2> HIDE DEF two, L
    <2> QED
      BY <1>1, <1>4, <2>1 DEF L
  <1>7. start + 1 \in Nat /\ start + 1 # 0 /\ e <= Len(text)
    BY <1>6
  <1>8. /\ q \in Seq(S) /\ Len(q) = IF start + 1 <= e THEN e - (start + 1) + 1 ELSE 0
        /\ \A i \in 1..Len(q) : q[i] = text[start + 1 + i - 1]
    BY <1>5, <1>6, <1>7, PartOf
  <1>9. Len(q) = e - start
    BY <1>6, <1>8
  <1>10. \A i \in 1..Len(q) : start + 1 + i - 1 = start + i
    BY <1>6, <1>9
  <1> QED
    BY <1>6, <1>8, <1>9, <1>10 DEF e, q, L

(* A text with the line break behind a heading. *)
Marked == Characters \cup {"nl"}

(* A text of the document is a text that could hold a line break. *)
LEMMA CharactersMarked ==
    ASSUME NEW s \in Seq(Characters)
    PROVE  s \in Seq(Marked)
  <1> DEFINE C == Characters
             M == Marked
  <1>1. C \subseteq M /\ s \in Seq(C)
    BY DEF Marked
  <1> HIDE DEF C, M
  <1>2. s \in Seq(M)
    BY <1>1
  <1> QED
    BY <1>2 DEF M

(* What stands above a window: the heading, on the first one. *)
Above(block, start) ==
    IF block.heading # <<>> /\ start = 0 THEN block.heading \o <<"nl">> ELSE <<>>

(* A block has a text, and a heading that may be empty. *)
LEMMA BlockOf ==
    ASSUME NEW block \in TextBlocks
    PROVE  /\ block.text \in Seq(Characters) /\ block.text # <<>> /\ Len(block.text) # 0
           /\ block.heading \in Seq(Characters)
  <1> DEFINE B == Seq(Characters) \ {<<>>}
             C == Seq(Characters)
  <1> HIDE DEF B, C
  <1>1. block \in [text : B, heading : C]
    BY DEF TextBlocks, B, C
  <1>2. block.text \in B /\ block.heading \in C
    BY <1>1
  <1>3. block.text \in Seq(Characters) /\ block.text # <<>> /\ block.heading \in Seq(Characters)
    BY <1>2 DEF B, C
  <1>4. Len(block.text) # 0
    BY <1>3
  <1> QED
    BY <1>3, <1>4

(* A chunk is its window under what stands above it. *)
LEMMA ContentOf ==
    ASSUME NEW block \in TextBlocks, NEW start \in Nat, start < Len(block.text)
    PROVE  /\ Above(block, start) \in Seq(Marked)
           /\ Piece(block.text, start) \in Seq(Marked)
           /\ Content(block, start) = Above(block, start) \o Piece(block.text, start)
           /\ Content(block, start) \in Seq(Marked)
  <1> DEFINE p == Piece(block.text, start)
             h == block.heading
             a == Above(block, start)
  <1>1. block.text \in Seq(Characters) /\ h \in Seq(Characters)
    BY BlockOf
  <1>2. p \in Seq(Characters)
    BY <1>1, PieceOf
  <1>3. p \in Seq(Marked) /\ h \in Seq(Marked) /\ <<"nl">> \in Seq(Marked) /\ <<>> \in Seq(Marked)
    <2>1. "nl" \in Marked
      BY DEF Marked
    <2> QED
      BY <1>1, <1>2, <2>1, CharactersMarked
  <1> HIDE DEF p
  <1>4. a \in Seq(Marked)
    <2>1. h \o <<"nl">> \in Seq(Marked)
      BY <1>3, Joined
    <2> QED
      BY <1>3, <2>1 DEF Above
  <1>5. Content(block, start) = a \o p
    <2>1. CASE h # <<>> /\ start = 0
      BY <2>1 DEF Content, Above, p
    <2>2. CASE ~(h # <<>> /\ start = 0)
      <3>1. Content(block, start) = p /\ a = <<>>
        BY <2>2 DEF Content, Above, p
      <3>2. <<>> \o p = p
        BY <1>3
      <3> QED
        BY <3>1, <3>2
    <2> QED
      BY <2>1, <2>2
  <1>6. a \o p \in Seq(Marked)
    <2> HIDE DEF a
    <2> QED
      BY <1>3, <1>4, Joined
  <1> QED
    BY <1>3, <1>4, <1>5, <1>6 DEF p

(* The chunks of a block. *)
CutOf(block) ==
    [k \in DOMAIN PieceStarts(block.text) |-> Content(block, PieceStarts(block.text)[k])]

(* A block has a chunk for each of its windows. *)
LEMMA CutTyped ==
    ASSUME NEW block \in TextBlocks
    PROVE  /\ CutOf(block) \in Seq(Seq(Marked))
           /\ Len(CutOf(block)) = Len(PieceStarts(block.text))
           /\ Len(PieceStarts(block.text)) \in Nat
           /\ \A k \in 1..Len(PieceStarts(block.text)) :
                CutOf(block)[k] = Content(block, PieceStarts(block.text)[k])
  <1> DEFINE starts == PieceStarts(block.text)
             m == Len(starts)
  <1>1. block.text \in Seq(Characters) /\ Len(block.text) # 0
    BY BlockOf
  <1>2. starts \in Seq(Nat) /\ \A k \in 1..m : starts[k] \in Nat /\ starts[k] < Len(block.text)
    BY <1>1, StartsOf
  <1>3. \A k \in 1..m : Content(block, starts[k]) \in Seq(Marked)
    BY <1>2, ContentOf
  <1>4. CutOf(block) = [k \in DOMAIN starts |-> Content(block, starts[k])]
    BY DEF CutOf
  <1> HIDE DEF starts
  <1>5. m \in Nat /\ DOMAIN starts = 1..m
    BY <1>2
  <1> HIDE DEF m
  <1>6. CutOf(block) \in [1..m -> Seq(Marked)]
    BY <1>3, <1>4, <1>5
  <1>7. \A k \in 1..m : CutOf(block)[k] = Content(block, starts[k])
    BY <1>4, <1>5
  <1>8. CutOf(block) \in Seq(Seq(Marked)) /\ Len(CutOf(block)) = m
    BY <1>5, <1>6, ListOf
  <1> QED
    BY <1>5, <1>7, <1>8 DEF m, starts

(* The chunks of a document are those of its blocks, in their order. *)
Cuts(blocks) == [b \in DOMAIN blocks |-> CutOf(blocks[b])]

(* And the chunks of a document are those of its blocks, joined. *)
LEMMA CutsTyped ==
    ASSUME NEW blocks \in Seq(TextBlocks)
    PROVE  /\ Len(blocks) \in Nat /\ DOMAIN blocks = 1..Len(blocks)
           /\ \A b \in 1..Len(blocks) : blocks[b] \in TextBlocks
           /\ Cuts(blocks) \in Seq(Seq(Seq(Marked)))
           /\ Len(Cuts(blocks)) = Len(blocks)
           /\ \A b \in 1..Len(blocks) : Cuts(blocks)[b] = CutOf(blocks[b])
           /\ ChunkDocument(blocks) = FlattenSeq(Cuts(blocks))
  <1> DEFINE n == Len(blocks)
             T == TextBlocks
             Q == Seq(Seq(Marked))
  <1>1. n \in Nat /\ DOMAIN blocks = 1..n /\ \A b \in 1..n : blocks[b] \in TextBlocks
    <2> HIDE DEF T
    <2>1. blocks \in Seq(T)
      BY DEF T
    <2>2. n \in Nat /\ DOMAIN blocks = 1..n /\ \A b \in 1..n : blocks[b] \in T
      BY <2>1
    <2> QED
      BY <2>2 DEF T
  <1>2. \A b \in 1..n : CutOf(blocks[b]) \in Q
    BY <1>1, CutTyped
  <1>3. ChunkDocument(blocks) = FlattenSeq(Cuts(blocks))
    BY Zenon DEF ChunkDocument, Cuts, CutOf
  <1> HIDE DEF n, Q
  <1>4. Cuts(blocks) \in [1..n -> Q] /\ \A b \in 1..n : Cuts(blocks)[b] = CutOf(blocks[b])
    BY <1>1, <1>2 DEF Cuts
  <1>5. Cuts(blocks) \in Seq(Q) /\ Len(Cuts(blocks)) = n
    BY <1>1, <1>4, ListOf
  <1> QED
    BY <1>1, <1>3, <1>4, <1>5 DEF n, Q

(* Every window of every block is a chunk. *)
LEMMA ChunkOf ==
    ASSUME NEW blocks \in Seq(TextBlocks), NEW b \in 1..Len(blocks),
           NEW k \in 1..Len(PieceStarts(blocks[b].text))
    PROVE  \E c \in 1..Len(ChunkDocument(blocks)) :
              ChunkDocument(blocks)[c] = Content(blocks[b], PieceStarts(blocks[b].text)[k])
  <1> DEFINE n == Len(blocks)
             cuts == Cuts(blocks)
             all == ChunkDocument(blocks)
             m == Len(PieceStarts(blocks[b].text))
  <1>1. /\ n \in Nat /\ blocks[b] \in TextBlocks
        /\ cuts \in Seq(Seq(Seq(Marked))) /\ Len(cuts) = n
        /\ cuts[b] = CutOf(blocks[b])
        /\ all = FlattenSeq(cuts)
    BY CutsTyped
  <1>2. /\ Len(cuts[b]) = m /\ m \in Nat
        /\ cuts[b][k] = Content(blocks[b], PieceStarts(blocks[b].text)[k])
    BY <1>1, CutTyped
  <1> HIDE DEF cuts, all, m
  <1>3. \E offs : IsLayout(offs, all, cuts)
    BY <1>1, Flattened
  <1>4. PICK offs : IsLayout(offs, all, cuts)
    BY <1>3
  <1>5. k \in Nat /\ k \in 1..Len(cuts[b]) /\ b \in 1..Len(cuts)
    BY <1>1, <1>2 DEF m
  <1>6. offs[b - 1] + k \in 1..Len(all) /\ all[offs[b - 1] + k] = cuts[b][k]
    BY <1>4, <1>5 DEF IsLayout
  <1> QED
    BY <1>2, <1>6 DEF all

(* The chunk of the window at start has what stands at i of the block.      *)
PassageAt(block, start, i, size) ==
    \E j \in 1..Len(Content(block, start)) :
       /\ j + size - 1 <= Len(Content(block, start))
       /\ SubSeq(Content(block, start), j, j + size - 1) = SubSeq(block.text, i, i + size - 1)

(* The chunk that holds a passage of a block. *)
LEMMA PassageIn ==
    ASSUME NEW block \in TextBlocks, NEW size \in Nat, size # 0, size <= Overlap + 1,
           NEW i \in Nat, i # 0, i <= Len(block.text), i + size - 1 <= Len(block.text),
           NEW start \in Nat, start < Len(block.text), start < i,
           i + size - 1 <= start + MaxChars
    PROVE  PassageAt(block, start, i, size)
  <1> DEFINE text == block.text
             p == Piece(text, start)
             a == Above(block, start)
             c == Content(block, start)
             e == PieceEnd(text, start)
             j == Len(a) + (i - start)
             x == SubSeq(c, j, j + size - 1)
             y == SubSeq(text, i, i + size - 1)
  <1>1. text \in Seq(Marked) /\ Len(text) \in Nat
    BY BlockOf, CharactersMarked
  <1>2. a \in Seq(Marked) /\ p \in Seq(Marked) /\ c = a \o p /\ c \in Seq(Marked)
    BY ContentOf
  <1>3. /\ e \in Nat /\ start < e /\ e <= Len(text)
        /\ e = Len(text) \/ e = start + MaxChars
        /\ Len(p) = e - start
        /\ \A l \in 1..Len(p) : p[l] = text[start + l]
    BY <1>1, PieceOf
  <1>4. /\ Len(c) = Len(a) + Len(p)
        /\ \A l \in 1..Len(p) : c[Len(a) + l] = p[l]
    BY <1>2, Joined
  <1>5. Len(a) \in Nat /\ Len(c) \in Nat
    BY <1>2
  <1> HIDE DEF text, p, a, c, e
  <1>6. i + size - 1 <= e
    BY <1>1, <1>3, StepOf DEF text
  <1>7. i <= e
    BY <1>1, <1>3, StepOf DEF text
  <1>8. j \in Nat /\ j # 0 /\ j <= Len(c) /\ j + size - 1 \in Nat /\ j + size - 1 <= Len(c)
    BY <1>3, <1>4, <1>5, <1>6, <1>7
  <1>9. i + size - 1 \in Nat /\ i + size - 1 <= Len(text)
    BY <1>3, <1>6
  <1>10. /\ x \in Seq(Marked)
         /\ Len(x) = IF j <= j + size - 1 THEN j + size - 1 - j + 1 ELSE 0
         /\ \A l \in 1..Len(x) : x[l] = c[j + l - 1]
    <2> DEFINE to == j + size - 1
    <2>1. j \in Nat /\ j # 0 /\ to \in Nat /\ to <= Len(c) /\ c \in Seq(Marked)
      BY <1>2, <1>8
    <2> HIDE DEF j, to
    <2>2. /\ SubSeq(c, j, to) \in Seq(Marked)
          /\ Len(SubSeq(c, j, to)) = IF j <= to THEN to - j + 1 ELSE 0
          /\ \A l \in 1..Len(SubSeq(c, j, to)) : SubSeq(c, j, to)[l] = c[j + l - 1]
      BY <2>1, PartOf
    <2>3. x = SubSeq(c, j, to)
      BY DEF to
    <2> HIDE DEF x
    <2> QED
      BY <2>2, <2>3 DEF to
  <1>11. /\ y \in Seq(Marked)
         /\ Len(y) = IF i <= i + size - 1 THEN i + size - 1 - i + 1 ELSE 0
         /\ \A l \in 1..Len(y) : y[l] = text[i + l - 1]
    BY <1>1, <1>9, PartOf
  <1> HIDE DEF x, y
  <1>12. Len(x) = size /\ Len(y) = size
    <2> HIDE DEF j
    <2> QED
      BY <1>8, <1>10, <1>11
  <1>13. ASSUME NEW l \in 1..Len(x) PROVE x[l] = y[l]
    <2> DEFINE r == i - start + l - 1
    <2>1. /\ j + l - 1 = Len(a) + r /\ start + r = i + l - 1 /\ r \in 1..(e - start)
      BY <1>3, <1>5, <1>6, <1>12
    <2>2. c[Len(a) + r] = p[r] /\ p[r] = text[start + r]
      BY <1>3, <1>4, <2>1
    <2> HIDE DEF j, r
    <2>3. x[l] = c[j + l - 1] /\ y[l] = text[i + l - 1]
      BY <1>10, <1>11, <1>12
    <2> QED
      BY <2>1, <2>2, <2>3
  <1>14. x = y
    BY <1>10, <1>11, <1>12, <1>13, SameSequence
  <1> HIDE DEF j
  <1>15. j \in 1..Len(c)
    BY <1>5, <1>8
  <1> QED
    <2>1. \E l \in 1..Len(c) : l + size - 1 <= Len(c) /\ SubSeq(c, l, l + size - 1) = y
      BY <1>8, <1>14, <1>15 DEF x
    <2> QED
      BY <2>1, Zenon DEF PassageAt, y, c, text

(* The chunks of a file. *)
LEMMA SlicesOf ==
    ASSUME NEW file, NEW contents, contents = ChunkDocument(Blocks(file))
    PROVE  /\ DOMAIN Slices(file) = DOMAIN contents
           /\ \A k \in DOMAIN contents :
                /\ Slices(file)[k].number = k - 1
                /\ Slices(file)[k].content = contents[k]
  <1> DEFINE D == Shown(file)
             W == Windows(file)
             Bare(k) == [number |-> k - 1, content |-> contents[k],
                         document |-> <<>>, ranges |-> <<>>]
             found(k) == Locate(D, W, Bare(k))
             s == Slices(file)
  <1>1. s = [k \in DOMAIN contents |->
               [Bare(k) EXCEPT !.document = D, !.ranges = found(k)]]
    BY Zenon DEF Slices, Annotated
  <1> HIDE DEF D, W, s, found
  <1>2. \A k \in DOMAIN contents :
          s[k] = [number |-> k - 1, content |-> contents[k], document |-> D, ranges |-> found(k)]
    BY <1>1
  <1>3. DOMAIN s = DOMAIN contents
    BY <1>1
  <1>4. \A k \in DOMAIN contents :
          /\ s[k].number = k - 1
          /\ s[k].content = contents[k]
    <2> TAKE k \in DOMAIN contents
    <2> HIDE DEF found
    <2>1. s[k] = [number |-> k - 1, content |-> contents[k], document |-> D, ranges |-> found(k)]
      BY <1>2
    <2> QED
      BY <2>1
  <1> QED
    BY <1>3, <1>4 DEF D, W, s, found

(* Every passage of a block is in one of its chunks. *)
LEMMA PassageKept ==
    ASSUME NEW blocks \in Seq(TextBlocks), NEW b \in 1..Len(blocks), NEW size \in Nat,
           size = Min({Overlap + 1, Len(blocks[b].text)}),
           NEW i \in 1..(Len(blocks[b].text) - size + 1)
    PROVE  \E c \in 1..Len(ChunkDocument(blocks)) :
             \E j \in 1..Len(ChunkDocument(blocks)[c]) :
                /\ j + size - 1 <= Len(ChunkDocument(blocks)[c])
                /\ SubSeq(ChunkDocument(blocks)[c], j, j + size - 1)
                     = SubSeq(blocks[b].text, i, i + size - 1)
  <1> DEFINE block == blocks[b]
             text == block.text
             L == Len(text)
             two == {Overlap + 1, L}
             starts == PieceStarts(text)
             all == ChunkDocument(blocks)
  <1>1. block \in TextBlocks
    BY CutsTyped
  <1>2. text \in Seq(Characters) /\ L \in Nat /\ L # 0
    <2> HIDE DEF block
    <2> QED
      BY <1>1, BlockOf
  <1>3. Overlap + 1 \in Nat /\ Overlap + 1 # 0 /\ two \in SUBSET Nat /\ two # {}
    BY <1>2, StepOf
  <1>4. size \in two /\ \A x \in two : size <= x
    BY <1>3, MinOf
  <1>5. size # 0 /\ size <= Overlap + 1 /\ size <= L
    BY <1>2, <1>3, <1>4
  <1> HIDE DEF block, text, L, two
  <1>6. i \in Nat /\ i # 0 /\ i <= L /\ i + size - 1 <= L
    <2>1. i \in 1..(L - size + 1)
      BY DEF L, text, block
    <2> QED
      BY <1>2, <1>5, <2>1
  <1>7. PICK k \in 1..Len(starts) :
           starts[k] < i /\ i + size - 1 <= starts[k] + MaxChars
    BY <1>2, <1>5, <1>6, WindowFor DEF L
  <1>8. starts[k] \in Nat /\ starts[k] < L
    BY <1>2, StartsOf DEF L
  <1>9. PICK c \in 1..Len(all) : all[c] = Content(block, starts[k])
    BY ChunkOf DEF starts, text, block
  <1> HIDE DEF starts, all
  <1>10. PICK j \in 1..Len(Content(block, starts[k])) :
            /\ j + size - 1 <= Len(Content(block, starts[k]))
            /\ SubSeq(Content(block, starts[k]), j, j + size - 1)
                 = SubSeq(text, i, i + size - 1)
    <2> DEFINE start == starts[k]
    <2>1. /\ i <= Len(block.text) /\ i + size - 1 <= Len(block.text)
          /\ start < Len(block.text)
      BY <1>6, <1>8 DEF text, L
    <2>2. start \in Nat /\ start < i /\ i + size - 1 <= start + MaxChars
      BY <1>7, <1>8
    <2> HIDE DEF start
    <2>3. PassageAt(block, start, i, size)
      <3>1. size # 0 /\ size <= Overlap + 1 /\ i \in Nat /\ i # 0
        BY <1>5, <1>6
      <3> QED
        BY <1>1, <2>1, <2>2, <3>1, PassageIn
    <2> QED
      BY <2>3 DEF PassageAt, start, text
  <1> QED
    BY <1>9, <1>10 DEF all, text, block

-----------------------------------------------------------------------------
(* The invariant *)

(* A file that was indexed or opened can be read. *)
Opened(file) == file \in Originals /\ Readable(file)

(* What the chunks are of: the file that is open, or the one that was before *)
(* the parser changed. A document that was indexed is not empty.             *)
SlicedFrom ==
    /\ reading = "open" =>
         Opened(original) /\ Blocks(original) # <<>> /\ slices = Slices(original)
    /\ reading = "reopened" =>
         Opened(original)
           /\ \E first \in Originals : Opened(first) /\ slices = Slices(first)
    /\ reading \notin {"open", "reopened"} => slices = <<>>

SlicingInv ==
    /\ reading \in {"upload", "index", "open", "reopened", "over"}
    /\ IF reading = "upload" THEN original = <<>> ELSE original \in Originals
    /\ SlicedFrom

(* Before the upload there is nothing to slice. *)
LEMMA SlicingInitially == SlicingInit => SlicingInv
  BY DEF SlicingInit, SlicingInv, SlicedFrom

(* Every step of the life of a file keeps it. *)
LEMMA SlicingInductive == SlicingInv /\ [SlicingNext]_slicingVars => SlicingInv'
  <1> SUFFICES ASSUME SlicingInv, [SlicingNext]_slicingVars PROVE SlicingInv'
    OBVIOUS
  <1>1. CASE Upload
    BY <1>1 DEF SlicingInv, SlicedFrom, Upload
  <1>2. CASE Reject
    BY <1>2 DEF SlicingInv, SlicedFrom, Reject
  <1>3. CASE Index
    BY <1>3 DEF SlicingInv, SlicedFrom, Index, Opened
  <1>4. CASE Reread
    <2>1. /\ reading = "open" /\ reading' = "reopened" /\ slices' = slices
          /\ original' \in Revisions /\ Readable(original')
      BY <1>4 DEF Reread
    <2>2. Opened(original) /\ slices = Slices(original) /\ original \in Originals
      BY <2>1 DEF SlicingInv, SlicedFrom, Opened
    <2>3. Opened(original')
      BY <2>1, SlicingAssumption DEF Opened
    <2>4. original' \in Originals
      BY <2>3 DEF Opened
    <2>5. \E first \in Originals : Opened(first) /\ slices' = Slices(first)
      BY <2>1, <2>2
    <2>6. Opened(original)'
      BY <2>3 DEF Opened
    <2> QED
      BY <2>1, <2>4, <2>5, <2>6 DEF SlicingInv, SlicedFrom
  <1>5. CASE UNCHANGED slicingVars
    BY <1>5 DEF SlicingInv, SlicedFrom, Opened, slicingVars
  <1> QED
    BY <1>1, <1>2, <1>3, <1>4, <1>5 DEF SlicingNext

(* So the invariant holds in every state of the life of a file. *)
LEMMA SlicingInvariant == SlicingSpec => []SlicingInv
  <1>1. SlicingInit => SlicingInv
    BY SlicingInitially
  <1>2. SlicingInv /\ [SlicingNext]_slicingVars => SlicingInv'
    BY SlicingInductive
  <1> QED
    BY <1>1, <1>2, PTL DEF SlicingSpec

(* Chunks are numbered in the order of the document. *)
THEOREM SlicingTypesCorrect == SlicingSpec => []SlicingTypeOK
  <1>1. SlicingInv => SlicingTypeOK
    <2> SUFFICES ASSUME SlicingInv PROVE SlicingTypeOK
      OBVIOUS
    <2>1. ASSUME NEW file, slices = Slices(file)
          PROVE  \A k \in DOMAIN slices : slices[k].number = k - 1
      BY <2>1, SlicesOf
    <2>2. slices = <<>> => \A k \in DOMAIN slices : slices[k].number = k - 1
      OBVIOUS
    <2>3. slices = <<>> \/ \E file : slices = Slices(file)
      BY DEF SlicingInv, SlicedFrom
    <2>4. \A k \in DOMAIN slices : slices[k].number = k - 1
      BY <2>1, <2>2, <2>3
    <2> QED
      BY <2>4 DEF SlicingInv, SlicingTypeOK
  <1> QED
    BY <1>1, SlicingInvariant, PTL

(* chunk_document loses no passage between two windows: they overlap by as  *)
(* much as DOCUMENT_OVERLAP_CHARS says, whatever the file and its blocks.   *)
THEOREM PassagesStayWhole == SlicingSpec => []PassagesWhole
  <1>1. SlicingInv => PassagesWhole
    <2> SUFFICES ASSUME SlicingInv, reading = "open"
                 PROVE  PassagesWhole
      BY DEF PassagesWhole
    <2> DEFINE blocks == Blocks(original)
               all == ChunkDocument(blocks)
    <2>1. Opened(original) /\ slices = Slices(original)
      BY DEF SlicingInv, SlicedFrom
    <2>2. original \in Files /\ Readable(original)
      BY <2>1, SlicingAssumption DEF Opened
    <2>3. blocks \in Seq(TextBlocks)
      BY <2>2, BlocksTyped
    <2>4. DOMAIN slices = DOMAIN all /\ \A k \in DOMAIN all : slices[k].content = all[k]
      BY <2>1, SlicesOf
    <2>5. DOMAIN blocks = 1..Len(blocks) /\ all \in Seq(Seq(Marked))
      <3>1. all = FlattenSeq(Cuts(blocks)) /\ Cuts(blocks) \in Seq(Seq(Seq(Marked)))
            /\ DOMAIN blocks = 1..Len(blocks)
        BY <2>3, CutsTyped
      <3> HIDE DEF all
      <3>2. all \in Seq(Seq(Marked))
        BY <3>1, Flattened
      <3> QED
        BY <3>1, <3>2
    <2> HIDE DEF blocks, all
    <2>6. DOMAIN all = 1..Len(all) /\ \A c \in 1..Len(all) : all[c] \in Seq(Marked)
      BY <2>5
    <2>7. \A c \in 1..Len(all) : DOMAIN all[c] = 1..Len(all[c])
      BY <2>6
    <2>8. ASSUME NEW b \in DOMAIN blocks, NEW size, size = Min({Overlap + 1, Len(blocks[b].text)}),
                 NEW i \in 1..(Len(blocks[b].text) - size + 1)
          PROVE  \E k \in DOMAIN slices : \E j \in DOMAIN slices[k].content :
                    /\ j + size - 1 <= Len(slices[k].content)
                    /\ SubSeq(slices[k].content, j, j + size - 1)
                         = SubSeq(blocks[b].text, i, i + size - 1)
      <3>1. size \in Nat
        <4> DEFINE two == {Overlap + 1, Len(blocks[b].text)}
        <4>1. blocks[b] \in TextBlocks
          BY <2>3, <2>5, CutsTyped
        <4>2. two \in SUBSET Nat /\ two # {}
          <5>1. blocks[b].text \in Seq(Characters)
            BY <4>1, BlockOf
          <5> QED
            BY <5>1, StepOf
        <4> HIDE DEF two
        <4>3. Min(two) \in two
          BY <4>2, MinOf
        <4> QED
          BY <2>8, <4>2, <4>3 DEF two
      <3>2. PICK c \in 1..Len(all) :
              \E j \in 1..Len(all[c]) :
                 /\ j + size - 1 <= Len(all[c])
                 /\ SubSeq(all[c], j, j + size - 1) = SubSeq(blocks[b].text, i, i + size - 1)
        <4>1. b \in 1..Len(blocks)
          BY <2>5
        <4>2. \E c \in 1..Len(ChunkDocument(blocks)) :
                \E j \in 1..Len(ChunkDocument(blocks)[c]) :
                   /\ j + size - 1 <= Len(ChunkDocument(blocks)[c])
                   /\ SubSeq(ChunkDocument(blocks)[c], j, j + size - 1)
                        = SubSeq(blocks[b].text, i, i + size - 1)
          BY <2>3, <2>8, <3>1, <4>1, PassageKept
        <4> QED
          BY <4>2 DEF all
      <3>3. c \in DOMAIN slices /\ slices[c].content = all[c]
            /\ DOMAIN slices[c].content = 1..Len(all[c])
        BY <2>4, <2>6, <2>7
      <3> QED
        BY <3>2, <3>3
    <2> QED
      BY <2>8, Zenon DEF PassagesWhole, blocks
  <1> QED
    BY <1>1, SlicingInvariant, PTL

-----------------------------------------------------------------------------
(* Code units *)

(* The middle of three. *)
LEMMA MiddlePart ==
    ASSUME NEW S, NEW p \in Seq(S), NEW q \in Seq(S), NEW r \in Seq(S)
    PROVE  SubSeq((p \o q) \o r, Len(p) + 1, Len(p \o q)) = q
  <1> DEFINE pq == p \o q
             u == pq \o r
             n == Len(p)
             m == Len(q)
             x == SubSeq(u, n + 1, n + m)
  <1>1. n \in Nat /\ m \in Nat /\ Len(r) \in Nat
    OBVIOUS
  <1>2. /\ pq \in Seq(S) /\ Len(pq) = n + m
        /\ \A j \in 1..m : pq[n + j] = q[j]
    BY Joined
  <1> HIDE DEF pq, n, m
  <1>3. /\ u \in Seq(S) /\ Len(u) = Len(pq) + Len(r)
        /\ \A j \in 1..Len(pq) : u[j] = pq[j]
    BY <1>2, Joined
  <1> HIDE DEF u
  <1>4. n + 1 \in Nat /\ n + 1 # 0 /\ n + m \in Nat /\ n + m <= Len(u)
    BY <1>1, <1>2, <1>3
  <1>5. /\ x \in Seq(S) /\ Len(x) = IF n + 1 <= n + m THEN (n + m) - (n + 1) + 1 ELSE 0
        /\ \A i \in 1..Len(x) : x[i] = u[n + 1 + i - 1]
    <2> DEFINE from == n + 1
               to == n + m
    <2>1. from \in Nat /\ from # 0 /\ to \in Nat /\ to <= Len(u) /\ u \in Seq(S)
      BY <1>3, <1>4
    <2> HIDE DEF from, to
    <2>2. /\ SubSeq(u, from, to) \in Seq(S)
          /\ Len(SubSeq(u, from, to)) = IF from <= to THEN to - from + 1 ELSE 0
          /\ \A i \in 1..Len(SubSeq(u, from, to)) : SubSeq(u, from, to)[i] = u[from + i - 1]
      BY <2>1, PartOf
    <2>3. x = SubSeq(u, from, to)
      BY DEF from, to
    <2> HIDE DEF x
    <2>4. /\ x \in Seq(S) /\ Len(x) = IF from <= to THEN to - from + 1 ELSE 0
          /\ \A i \in 1..Len(x) : x[i] = u[from + i - 1]
      BY <2>2, <2>3, Zenon
    <2> QED
      BY <2>4, Zenon DEF from, to
  <1> HIDE DEF x
  <1>6. Len(x) = m
    BY <1>1, <1>5
  <1>7. ASSUME NEW i \in 1..Len(x) PROVE x[i] = q[i]
    <2>1. i \in 1..m /\ n + i \in 1..(n + m) /\ n + 1 + i - 1 = n + i
      BY <1>1, <1>6
    <2> QED
      BY <1>2, <1>3, <1>5, <2>1
  <1>8. x = q
    BY <1>5, <1>6, <1>7, SameSequence DEF m
  <1>9. x = SubSeq(u, n + 1, Len(pq))
    BY <1>2 DEF x
  <1> QED
    BY <1>8, <1>9 DEF u, pq, n

(* The code units of a text. *)
Code == Marked \cup {"high", "low"}

Codes(text) ==
    [i \in DOMAIN text |-> IF text[i] = "w" THEN <<"high", "low">> ELSE <<text[i]>>]

(* The code units of a text are those of its characters, joined. *)
LEMMA UnitsTyped ==
    ASSUME NEW text \in Seq(Marked)
    PROVE  /\ Codes(text) \in Seq(Seq(Code))
           /\ Len(Codes(text)) = Len(text)
           /\ \A i \in 1..Len(text) :
                Codes(text)[i] = IF text[i] = "w" THEN <<"high", "low">> ELSE <<text[i]>>
           /\ Units(text) = FlattenSeq(Codes(text))
           /\ Units(text) \in Seq(Code)
  <1> DEFINE n == Len(text)
             one(i) == IF text[i] = "w" THEN <<"high", "low">> ELSE <<text[i]>>
             Q == Seq(Code)
  <1>1. n \in Nat /\ DOMAIN text = 1..n /\ \A i \in 1..n : text[i] \in Marked
    OBVIOUS
  <1>2. "high" \in Code /\ "low" \in Code /\ Marked \subseteq Code
    BY DEF Code
  <1>3. \A i \in 1..n : one(i) \in Q
    <2> TAKE i \in 1..n
    <2>1. text[i] \in Code
      BY <1>1, <1>2
    <2>2. <<"high", "low">> \in Seq(Code) /\ <<text[i]>> \in Seq(Code)
      BY <1>2, <2>1
    <2> QED
      BY <2>2
  <1>4. Codes(text) = [i \in 1..n |-> one(i)]
    BY <1>1 DEF Codes
  <1>5. Units(text) = FlattenSeq(Codes(text))
    BY DEF Units, Codes
  <1> HIDE DEF n, one, Q
  <1>6. Codes(text) \in [1..n -> Q] /\ \A i \in 1..n : Codes(text)[i] = one(i)
    BY <1>3, <1>4
  <1>7. Codes(text) \in Seq(Q) /\ Len(Codes(text)) = n
    BY <1>1, <1>6, ListOf
  <1>8. Codes(text) \in Seq(Seq(Code))
    BY <1>7 DEF Q
  <1>9. Units(text) \in Seq(Code)
    BY <1>5, <1>8, Flattened
  <1> QED
    BY <1>5, <1>6, <1>7, <1>8, <1>9 DEF n, one

(* The code units of joined texts are their code units, joined. *)
LEMMA UnitsJoined ==
    ASSUME NEW s \in Seq(Marked), NEW t \in Seq(Marked)
    PROVE  s \o t \in Seq(Marked) /\ Units(s \o t) = Units(s) \o Units(t)
  <1> DEFINE n == Len(s)
             m == Len(t)
             st == s \o t
             one(c) == IF c = "w" THEN <<"high", "low">> ELSE <<c>>
             cs == Codes(s)
             ct == Codes(t)
             cst == Codes(st)
             Q == Seq(Code)
  <1>1. /\ st \in Seq(Marked) /\ Len(st) = n + m
        /\ \A i \in 1..n : st[i] = s[i]
        /\ \A j \in 1..m : st[n + j] = t[j]
    BY Joined
  <1>2. n \in Nat /\ m \in Nat
    OBVIOUS
  <1> HIDE DEF st
  <1>3. /\ cs \in Seq(Seq(Code)) /\ Len(cs) = n /\ Units(s) = FlattenSeq(cs)
        /\ \A i \in 1..n : cs[i] = one(s[i])
    BY UnitsTyped
  <1>4. /\ ct \in Seq(Seq(Code)) /\ Len(ct) = m /\ Units(t) = FlattenSeq(ct)
        /\ \A i \in 1..m : ct[i] = one(t[i])
    BY UnitsTyped
  <1>5. /\ cst \in Seq(Seq(Code)) /\ Len(cst) = Len(st) /\ Units(st) = FlattenSeq(cst)
        /\ \A i \in 1..Len(st) : cst[i] = one(st[i])
    BY <1>1, UnitsTyped
  <1> HIDE DEF cs, ct, cst, n, m, one
  <1>6. /\ cs \o ct \in Seq(Q) /\ Len(cs \o ct) = n + m
        /\ \A i \in 1..n : (cs \o ct)[i] = cs[i]
        /\ \A j \in 1..m : (cs \o ct)[n + j] = ct[j]
    <2> HIDE DEF Q
    <2>1. cs \in Seq(Q) /\ ct \in Seq(Q)
      BY <1>3, <1>4 DEF Q
    <2>2. /\ cs \o ct \in Seq(Q) /\ Len(cs \o ct) = Len(cs) + Len(ct)
          /\ \A i \in 1..Len(cs) : (cs \o ct)[i] = cs[i]
          /\ \A j \in 1..Len(ct) : (cs \o ct)[Len(cs) + j] = ct[j]
      BY <2>1, Joined
    <2> QED
      BY <1>3, <1>4, <2>2
  <1>7. ASSUME NEW i \in 1..(n + m) PROVE cst[i] = (cs \o ct)[i]
    <2>1. cst[i] = one(st[i])
      BY <1>1, <1>5
    <2>2. CASE i <= n
      <3>1. i \in 1..n
        BY <1>2, <2>2
      <3> QED
        BY <1>1, <1>3, <1>6, <2>1, <3>1
    <2>3. CASE ~(i <= n)
      <3>1. i - n \in 1..m /\ n + (i - n) = i
        BY <1>2, <2>3
      <3>2. st[n + (i - n)] = t[i - n] /\ (cs \o ct)[n + (i - n)] = ct[i - n]
            /\ ct[i - n] = one(t[i - n])
        BY <1>1, <1>4, <1>6, <3>1
      <3> QED
        BY <2>1, <3>1, <3>2
    <2> QED
      BY <2>2, <2>3
  <1>8. cst = cs \o ct
    <2> HIDE DEF Q
    <2>1. cst \in Seq(Q) /\ Len(cst) = n + m
      BY <1>1, <1>5 DEF Q
    <2> QED
      BY <1>6, <1>7, <2>1, SameSequence
  <1>9. FlattenSeq(cs \o ct) = FlattenSeq(cs) \o FlattenSeq(ct)
    BY <1>3, <1>4, FlattenJoined
  <1> QED
    BY <1>1, <1>3, <1>4, <1>5, <1>8, <1>9 DEF st

(* TextOffsets.utf16, character by character. *)
LEMMA OffsetSteps ==
    ASSUME NEW text, NEW k \in Nat
    PROVE  /\ Offset(text, 0) = 0
           /\ Offset(text, k) \in Nat
           /\ Offset(text, k + 1) = Offset(text, k) + IF text[k + 1] = "w" THEN 2 ELSE 1
  <1> DEFINE wide(n) == {i \in 1..n : text[i] = "w"}
  <1>1. \A n \in Nat : IsFiniteSet(wide(n)) /\ Cardinality(wide(n)) \in Nat
    <2> TAKE n \in Nat
    <2>1. IsFiniteSet(1..n) /\ wide(n) \subseteq 1..n
      BY FS_Interval
    <2> HIDE DEF wide
    <2>2. IsFiniteSet(wide(n))
      BY <2>1, FS_Subset
    <2> QED
      BY <2>2, FS_CardinalityType
  <1>2. wide(0) = {}
    OBVIOUS
  <1>3. wide(k + 1) = IF text[k + 1] = "w" THEN wide(k) \cup {k + 1} ELSE wide(k)
    <2>1. 1..(k + 1) = (1..k) \cup {k + 1}
      OBVIOUS
    <2> QED
      BY <2>1
  <1>4. k + 1 \notin wide(k)
    OBVIOUS
  <1>5. /\ Offset(text, 0) = 0 + Cardinality(wide(0))
        /\ Offset(text, k) = k + Cardinality(wide(k))
        /\ Offset(text, k + 1) = k + 1 + Cardinality(wide(k + 1))
    BY DEF Offset
  <1> HIDE DEF wide
  <1>6. Cardinality(wide(0)) = 0
    BY <1>2, FS_EmptySet
  <1>7. Cardinality(wide(k) \cup {k + 1}) = Cardinality(wide(k)) + 1
    BY <1>1, <1>4, FS_AddElement
  <1>8. Cardinality(wide(k)) \in Nat
    BY <1>1
  <1> QED
    BY <1>3, <1>5, <1>6, <1>7, <1>8

(* A text has as many code units as its end is from its beginning. *)
LEMMA UnitsLength ==
    ASSUME NEW text \in Seq(Marked)
    PROVE  Len(Units(text)) = Offset(text, Len(text))
  <1> DEFINE n == Len(text)
             codes == Codes(text)
             flat == FlattenSeq(codes)
  <1>1. /\ codes \in Seq(Seq(Code)) /\ Len(codes) = n /\ Units(text) = flat
        /\ \A i \in 1..n : codes[i] = IF text[i] = "w" THEN <<"high", "low">> ELSE <<text[i]>>
    BY UnitsTyped
  <1>2. n \in Nat
    OBVIOUS
  <1> HIDE DEF codes, n
  <1>3. \E offs : IsLayout(offs, flat, codes)
    BY <1>1, Flattened
  <1>4. PICK offs : IsLayout(offs, flat, codes)
    BY <1>3
  <1>5. /\ offs[0] = 0 /\ offs[n] = Len(flat)
        /\ \A k \in 1..n : offs[k] = offs[k - 1] + Len(codes[k])
    BY <1>1, <1>4 DEF IsLayout
  <1> HIDE DEF flat
  <1>6. \A k \in 1..n : Len(codes[k]) = IF text[k] = "w" THEN 2 ELSE 1
    <2> TAKE k \in 1..n
    <2>1. codes[k] = IF text[k] = "w" THEN <<"high", "low">> ELSE <<text[k]>>
      BY <1>1
    <2> QED
      BY <2>1
  <1> DEFINE K == {k \in Nat : k <= n => offs[k] = Offset(text, k)}
  <1>7. 0 \in K
    BY <1>5, OffsetSteps
  <1>8. ASSUME NEW k \in Nat, k \in K PROVE k + 1 \in K
    <2>1. SUFFICES ASSUME k + 1 <= n PROVE offs[k + 1] = Offset(text, k + 1)
      OBVIOUS
    <2>2. k + 1 \in 1..n /\ (k + 1) - 1 = k /\ k <= n
      BY <1>2, <2>1
    <2>3. offs[k + 1] = offs[k] + IF text[k + 1] = "w" THEN 2 ELSE 1
      BY <1>5, <1>6, <2>2
    <2>4. offs[k] = Offset(text, k)
      BY <1>8, <2>2
    <2> QED
      BY <2>3, <2>4, OffsetSteps
  <1> HIDE DEF K
  <1>9. \A k \in Nat : k \in K
    BY <1>7, <1>8, SetInduction, Zenon
  <1>10. offs[n] = Offset(text, n)
    <2>1. n <= n
      BY <1>2
    <2> QED
      BY <1>2, <1>9, <2>1 DEF K
  <1> QED
    BY <1>1, <1>5, <1>10 DEF n

(* Offsets count the characters before an index only. *)
LEMMA OffsetOfFirst ==
    ASSUME NEW s, NEW t, NEW k \in Nat, \A i \in 1..k : s[i] = t[i]
    PROVE  Offset(s, k) = Offset(t, k)
  <1>1. {i \in 1..k : s[i] = "w"} = {i \in 1..k : t[i] = "w"}
    OBVIOUS
  <1> QED
    BY <1>1 DEF Offset

(* The characters from a to b are, in the code units of the text, those from *)
(* the one offset to the other.                                              *)
LEMMA UnitsOfPart ==
    ASSUME NEW text \in Seq(Marked), NEW a \in Nat, NEW b \in Nat, a <= b, b <= Len(text)
    PROVE  SubSeq(Units(text), Offset(text, a) + 1, Offset(text, b))
             = Units(SubSeq(text, a + 1, b))
  <1> DEFINE x == SubSeq(text, 1, a)
             y == SubSeq(text, a + 1, b)
             xy == SubSeq(text, 1, b)
             z == SubSeq(text, b + 1, Len(text))
  <1>1. Len(text) \in Nat /\ a <= Len(text) /\ 1 # 0 /\ 1 \in Nat /\ a + 1 \in Nat /\ a + 1 # 0
        /\ b + 1 \in Nat /\ b + 1 # 0 /\ Len(text) <= Len(text)
    OBVIOUS
  <1>2. /\ x \in Seq(Marked) /\ Len(x) = IF 1 <= a THEN a - 1 + 1 ELSE 0
        /\ \A i \in 1..Len(x) : x[i] = text[1 + i - 1]
    BY <1>1, PartOf
  <1>3. y \in Seq(Marked)
    BY <1>1, PartOf
  <1>4. /\ xy \in Seq(Marked) /\ Len(xy) = IF 1 <= b THEN b - 1 + 1 ELSE 0
        /\ \A i \in 1..Len(xy) : xy[i] = text[1 + i - 1]
    BY <1>1, PartOf
  <1>5. z \in Seq(Marked)
    BY <1>1, PartOf
  <1>6. xy = x \o y
    BY <1>1, PartsJoined
  <1>7. text = xy \o z
    <2>1. SubSeq(text, 1, Len(text)) = xy \o z
      BY <1>1, PartsJoined
    <2>2. SubSeq(text, 1, Len(text)) = text
      BY WholePart
    <2> QED
      BY <2>1, <2>2
  <1> HIDE DEF x, y, xy, z
  <1>8. Len(x) = a /\ Len(xy) = b
    BY <1>2, <1>4
  <1>9. (\A i \in 1..a : x[i] = text[i]) /\ \A i \in 1..b : xy[i] = text[i]
    <2>1. (\A i \in 1..a : 1 + i - 1 = i) /\ \A i \in 1..b : 1 + i - 1 = i
      OBVIOUS
    <2> QED
      BY <1>2, <1>4, <1>8, <2>1
  <1>10. Offset(x, a) = Offset(text, a) /\ Offset(xy, b) = Offset(text, b)
    BY <1>9, OffsetOfFirst
  <1> DEFINE p == Units(x)
             q == Units(y)
             r == Units(z)
  <1>11. p \in Seq(Code) /\ q \in Seq(Code) /\ r \in Seq(Code)
    BY <1>2, <1>3, <1>5, UnitsTyped
  <1>12. Units(xy) = p \o q /\ Units(text) = (p \o q) \o r
    <2>1. Units(xy) = p \o q
      BY <1>2, <1>3, <1>6, UnitsJoined
    <2>2. Units(xy \o z) = Units(xy) \o r
      BY <1>4, <1>5, UnitsJoined
    <2> QED
      BY <1>7, <2>1, <2>2
  <1>13. Len(p) = Offset(text, a) /\ Len(Units(xy)) = Offset(text, b)
    BY <1>2, <1>4, <1>8, <1>10, UnitsLength
  <1> HIDE DEF p, q, r
  <1>14. SubSeq((p \o q) \o r, Len(p) + 1, Len(p \o q)) = q
    BY <1>11, MiddlePart
  <1> QED
    BY <1>12, <1>13, <1>14 DEF q, y

-----------------------------------------------------------------------------
(* Places *)

(* The run of blocks under one heading begins at a block with that heading, *)
(* and at the same block for all of them.                                   *)
LEMMA HeadingAtOf ==
    ASSUME NEW blocks, NEW b \in Nat, b # 0
    PROVE  /\ HeadingAt(blocks, b) \in 1..b
           /\ blocks[HeadingAt(blocks, b)].heading = blocks[b].heading
           /\ HeadingAt(blocks, HeadingAt(blocks, b)) = HeadingAt(blocks, b)
  <1> DEFINE Begins(c) == {i \in 1..c : /\ blocks[i].heading = blocks[c].heading
                                        /\ i = 1 \/ blocks[i - 1].heading # blocks[i].heading}
             run == {i \in 1..b : \A j \in Nat : j \in i..b => blocks[j].heading = blocks[b].heading}
             first == Min(run)
             h == HeadingAt(blocks, b)
  <1>1. \A c \in Nat : c # 0 => HeadingAt(blocks, c) = Max(Begins(c))
    BY DEF HeadingAt
  <1>2. b \in run /\ run \in SUBSET Nat /\ run # {}
    <2>1. \A j \in Nat : j \in b..b => j = b
      OBVIOUS
    <2>2. b \in 1..b
      OBVIOUS
    <2> QED
      BY <2>1, <2>2
  <1>3. first \in run /\ \A i \in run : first <= i
    BY <1>2, MinOf
  <1>4. first \in 1..b /\ \A j \in Nat : j \in first..b => blocks[j].heading = blocks[b].heading
    BY <1>3
  <1>5. blocks[first].heading = blocks[b].heading
    BY <1>4
  <1>6. first # 1 => blocks[first - 1].heading # blocks[first].heading
    <2>1. SUFFICES ASSUME first # 1, blocks[first - 1].heading = blocks[first].heading
                   PROVE  FALSE
      OBVIOUS
    <2> HIDE DEF first
    <2>2. first - 1 \in 1..b
      BY <1>4, <2>1
    <2>3. \A j \in Nat : j \in (first - 1)..b => blocks[j].heading = blocks[b].heading
      <3> TAKE j \in Nat
      <3>1. j \in (first - 1)..b => j = first - 1 \/ j \in first..b
        BY <1>4, <2>2
      <3> QED
        BY <1>4, <1>5, <2>1, <3>1
    <2>4. first - 1 \in run
      BY <2>2, <2>3
    <2> HIDE DEF run
    <2>5. first <= first - 1
      BY <1>3, <2>4
    <2> QED
      BY <1>4, <2>5
  <1> HIDE DEF first, run
  <1>7. first \in Begins(b) /\ Begins(b) \in SUBSET (0..b) /\ Begins(b) # {}
    <2>1. first \in Begins(b)
      BY <1>4, <1>5, <1>6, Zenon
    <2>2. Begins(b) \subseteq 1..b /\ 1..b \subseteq 0..b
      OBVIOUS
    <2> HIDE DEF Begins
    <2> QED
      BY <2>1, <2>2
  <1>8. h = Max(Begins(b))
    BY <1>1
  <1> HIDE DEF h
  <1>9. h \in Begins(b)
    <2> HIDE DEF Begins
    <2> QED
      BY <1>7, <1>8, MaxOf
  <1>10. h \in 1..b /\ blocks[h].heading = blocks[b].heading /\ h \in Nat /\ h # 0
    BY <1>9
  <1>11. h \in Begins(h)
    BY <1>9
  <1>12. Begins(h) \in SUBSET (0..h) /\ Begins(h) \in SUBSET (1..h) /\ Begins(h) # {}
    BY <1>11
  <1>13. HeadingAt(blocks, h) = Max(Begins(h))
    BY <1>1, <1>10
  <1> HIDE DEF Begins
  <1>14. Max(Begins(h)) \in Begins(h) /\ h <= Max(Begins(h))
    BY <1>10, <1>11, <1>12, MaxOf
  <1>15. Max(Begins(h)) = h
    BY <1>10, <1>12, <1>14
  <1> QED
    BY <1>10, <1>13, <1>15 DEF h

(* The text of a block stands in the body that is shown, behind its lead. *)
LEMMA BodyOf ==
    ASSUME NEW file \in Files, Readable(file), NEW b \in 1..Len(Blocks(file))
    PROVE  /\ Blocks(file)[b] \in TextBlocks
           /\ Body(file, Blocks(file)[b]) \in Seq(Characters)
           /\ Lead(file, Blocks(file)[b]) \in Nat
           /\ Lead(file, Blocks(file)[b]) + Len(Blocks(file)[b].text)
                <= Len(Body(file, Blocks(file)[b]))
           /\ \A i \in 1..Len(Blocks(file)[b].text) :
                Blocks(file)[b].text[i]
                  = Body(file, Blocks(file)[b])[Lead(file, Blocks(file)[b]) + i]
  <1> DEFINE blocks == Blocks(file)
             block == blocks[b]
             text == block.text
             body == Body(file, block)
             lead == Lead(file, block)
  <1>1. blocks \in Seq(TextBlocks)
    BY BlocksTyped
  <1>2. file.kind = "text" =>
          /\ file.text \in Seq(Characters)
          /\ blocks = IF Blank(file.text) THEN <<>> ELSE <<Block(Strip(file.text), <<>>)>>
    BY BlocksTyped
  <1> HIDE DEF blocks
  <1>3. block \in TextBlocks /\ b \in 1..Len(blocks)
    BY <1>1, CutsTyped DEF blocks
  <1> HIDE DEF block
  <1>4. text \in Seq(Characters) /\ Len(text) \in Nat
    BY <1>3, BlockOf
  <1>5. CASE file.kind = "text"
    <2> DEFINE whole == file.text
               u == LeftStrip(whole)
               v == Strip(whole)
    <2>1. whole \in Seq(Characters)
      BY <1>2, <1>5
    <2>2. blocks = <<Block(v, <<>>)>>
      <3>1. blocks # <<>>
        BY <1>3
      <3> QED
        BY <1>2, <1>5, <3>1
    <2>3. text = v
      <3> HIDE DEF v
      <3>1. b = 1
        BY <1>3, <2>2
      <3>2. block = Block(v, <<>>)
        BY <2>2, <3>1 DEF block
      <3> QED
        BY <3>2 DEF Block
    <2>4. body = whole /\ lead = Len(whole) - Len(u)
      BY <1>5 DEF Body, Lead
    <2>5. /\ u \in Seq(Characters) /\ Len(u) \in 0..Len(whole)
          /\ \A i \in 1..Len(u) : u[i] = whole[Len(whole) - Len(u) + i]
      BY <2>1, LeftStripOf
    <2>6. /\ v \in Seq(Characters) /\ Len(v) \in 0..Len(u)
          /\ \A i \in 1..Len(v) : v[i] = u[i]
      BY <2>1, StripOf
    <2> HIDE DEF u, v, whole, body, lead, text
    <2>7. Len(whole) \in Nat
      BY <2>1
    <2>8. lead \in Nat /\ lead + Len(v) <= Len(whole)
      BY <2>4, <2>5, <2>6, <2>7
    <2>9. \A i \in 1..Len(v) : v[i] = whole[lead + i]
      <3> TAKE i \in 1..Len(v)
      <3>1. i \in 1..Len(u)
        BY <2>5, <2>6, <2>7
      <3> QED
        BY <2>4, <2>5, <2>6, <3>1
    <2> QED
      BY <1>3, <2>1, <2>3, <2>4, <2>8, <2>9 DEF body, lead, text, block, blocks
  <1>6. CASE file.kind # "text"
    <2>1. body = text /\ lead = 0
      BY <1>6 DEF Body, Lead
    <2> HIDE DEF text, body, lead
    <2>2. lead + Len(text) <= Len(body) /\ lead \in Nat /\ \A i \in 1..Len(text) : lead + i = i
      BY <1>4, <2>1
    <2> QED
      BY <1>3, <1>4, <2>1, <2>2 DEF body, lead, text, block, blocks
  <1> QED
    BY <1>5, <1>6

(* So the code units of a window stand between the offsets of its ends. *)
LEMMA PieceSpelled ==
    ASSUME NEW text \in Seq(Characters), NEW body \in Seq(Characters), NEW lead \in Nat,
           lead + Len(text) <= Len(body),
           \A i \in 1..Len(text) : text[i] = body[lead + i],
           NEW start \in Nat, start < Len(text)
    PROVE  SubSeq(Units(body), Offset(body, lead + start) + 1,
                  Offset(body, lead + PieceEnd(text, start)))
             = Units(Piece(text, start))
  <1> DEFINE e == PieceEnd(text, start)
             p == Piece(text, start)
             from == lead + start
             to == lead + e
             x == SubSeq(body, from + 1, to)
  <1>1. /\ e \in Nat /\ start < e /\ e <= Len(text)
        /\ p \in Seq(Characters) /\ Len(p) = e - start
        /\ \A i \in 1..Len(p) : p[i] = text[start + i]
    BY PieceOf
  <1>2. body \in Seq(Marked) /\ Len(body) \in Nat /\ Len(text) \in Nat
    BY CharactersMarked
  <1> HIDE DEF e, p
  <1>3. from \in Nat /\ to \in Nat /\ from <= to /\ to <= Len(body) /\ from + 1 \in Nat /\ from + 1 # 0
    BY <1>1, <1>2
  <1>4. /\ x \in Seq(Characters)
        /\ Len(x) = IF from + 1 <= to THEN to - (from + 1) + 1 ELSE 0
        /\ \A i \in 1..Len(x) : x[i] = body[from + 1 + i - 1]
    <2> HIDE DEF from, to
    <2> QED
      BY <1>3, PartOf
  <1>5. SubSeq(Units(body), Offset(body, from) + 1, Offset(body, to)) = Units(x)
    <2> HIDE DEF from, to
    <2> QED
      BY <1>2, <1>3, UnitsOfPart
  <1> HIDE DEF x
  <1>6. Len(x) = Len(p)
    BY <1>1, <1>3, <1>4
  <1>7. ASSUME NEW i \in 1..Len(x) PROVE x[i] = p[i]
    <2>1. start + i \in 1..Len(text) /\ from + 1 + i - 1 = lead + (start + i)
      BY <1>1, <1>2, <1>6
    <2>2. text[start + i] = body[lead + (start + i)]
      BY <2>1
    <2>3. p[i] = text[start + i]
      BY <1>1, <1>6
    <2>4. x[i] = body[from + 1 + i - 1]
      BY <1>4
    <2> HIDE DEF from
    <2> QED
      BY <2>1, <2>2, <2>3, <2>4
  <1>8. x = p
    BY <1>1, <1>4, <1>6, <1>7, SameSequence
  <1> QED
    BY <1>5, <1>8 DEF p, e

(* What is shown of the blocks: every one of them ... *)
LEMMA ShownBody ==
    ASSUME NEW file, NEW blocks, NEW b \in DOMAIN blocks
    PROVE  ShownBlocks(file, blocks)[<<"block", b>>] = Body(file, blocks[b])
  <1> DEFINE headings == {c \in DOMAIN blocks :
                            blocks[c].heading # <<>> /\ HeadingAt(blocks, c) = c}
             ids == ({"heading"} \X headings) \cup ({"block"} \X DOMAIN blocks)
             one(id) == IF id[1] = "heading" THEN blocks[id[2]].heading
                                             ELSE Body(file, blocks[id[2]])
  <1>1. ShownBlocks(file, blocks) = [id \in ids |-> one(id)]
    BY Zenon DEF ShownBlocks
  <1>2. <<"block", b>> \in ids /\ one(<<"block", b>>) = Body(file, blocks[b])
    <2> HIDE DEF headings
    <2> QED
      OBVIOUS
  <1> HIDE DEF ids, one
  <1> QED
    BY <1>1, <1>2

(* ... and the heading of a run of blocks where the run begins. *)
LEMMA ShownHeading ==
    ASSUME NEW file, NEW blocks, NEW b \in DOMAIN blocks,
           blocks[b].heading # <<>>, HeadingAt(blocks, b) = b
    PROVE  ShownBlocks(file, blocks)[<<"heading", b>>] = blocks[b].heading
  <1> DEFINE headings == {c \in DOMAIN blocks :
                            blocks[c].heading # <<>> /\ HeadingAt(blocks, c) = c}
             ids == ({"heading"} \X headings) \cup ({"block"} \X DOMAIN blocks)
             one(id) == IF id[1] = "heading" THEN blocks[id[2]].heading
                                             ELSE Body(file, blocks[id[2]])
  <1>1. ShownBlocks(file, blocks) = [id \in ids |-> one(id)]
    BY Zenon DEF ShownBlocks
  <1>2. b \in headings
    OBVIOUS
  <1> HIDE DEF headings
  <1>3. <<"heading", b>> \in ids /\ one(<<"heading", b>>) = blocks[b].heading
    BY <1>2
  <1> HIDE DEF ids, one
  <1> QED
    BY <1>1, <1>3

(* Two sequences of one make one of two. *)
LEMMA Pair ==
    ASSUME NEW a, NEW b
    PROVE  <<a>> \o <<b>> = <<a, b>>
  <1> DEFINE S == {a, b}
             s == <<a>>
             t == <<b>>
             u == <<a, b>>
  <1>1. /\ s \in Seq(S) /\ t \in Seq(S) /\ u \in Seq(S)
        /\ Len(s) = 1 /\ Len(t) = 1 /\ Len(u) = 2
        /\ s[1] = a /\ t[1] = b /\ u[1] = a /\ u[2] = b
    OBVIOUS
  <1> HIDE DEF s, t, u, S
  <1>2. /\ s \o t \in Seq(S) /\ Len(s \o t) = Len(s) + Len(t)
        /\ \A i \in 1..Len(s) : (s \o t)[i] = s[i]
        /\ \A j \in 1..Len(t) : (s \o t)[Len(s) + j] = t[j]
    BY <1>1, Joined
  <1>3. Len(s \o t) = Len(u)
    BY <1>1, <1>2
  <1>4. (s \o t)[1] = u[1] /\ (s \o t)[2] = u[2]
    <2>1. 1 \in 1..1 /\ 1 + 1 = 2
      OBVIOUS
    <2>2. (s \o t)[1 + 1] = t[1]
      BY <1>1, <1>2, <2>1
    <2> QED
      BY <1>1, <1>2, <2>1, <2>2
  <1>5. \A i \in 1..Len(s \o t) : i = 1 \/ i = 2
    BY <1>1, <1>2
  <1>6. s \o t = u
    BY <1>1, <1>2, <1>3, <1>4, <1>5, SameSequence
  <1> QED
    BY <1>6 DEF s, t, u

(* A window stands where it says: its ranges spell its content. *)
LEMMA WindowSpelled ==
    ASSUME NEW file \in Files, Readable(file), NEW b \in 1..Len(Blocks(file)),
           NEW start \in Nat, start < Len(Blocks(file)[b].text)
    PROVE  /\ PieceWindow(file, Blocks(file), b, start).content
                = Content(Blocks(file)[b], start)
           /\ PieceWindow(file, Blocks(file), b, start).ranges # <<>>
           /\ Spelled(Shown(file), PieceWindow(file, Blocks(file), b, start).ranges)
                = Units(Content(Blocks(file)[b], start))
  <1> DEFINE blocks == Blocks(file)
             block == blocks[b]
             text == block.text
             heading == block.heading
             body == Body(file, block)
             lead == Lead(file, block)
             e == PieceEnd(text, start)
             D == Shown(file)
             w == PieceWindow(file, blocks, b, start)
             at == HeadingAt(blocks, b)
             piece == Piece(text, start)
             above == Span(<<"heading", at>>, 0, Offset(heading, Len(heading)))
             below == Span(<<"block", b>>, Offset(body, lead + start), Offset(body, lead + e))
  <1>1. /\ w.content = Content(block, start)
        /\ w.ranges = HeadingRange(blocks, b, start) \o BodyRange(body, lead, b, start, e)
    BY DEF PieceWindow
  <1>2. BodyRange(body, lead, b, start, e) = <<below>>
    BY DEF BodyRange
  <1>3. HeadingRange(blocks, b, start) =
          IF heading = <<>> \/ start # 0 THEN <<>> ELSE <<above>>
    BY DEF HeadingRange
  <1>4. /\ blocks \in Seq(TextBlocks) /\ Len(blocks) \in Nat /\ DOMAIN blocks = 1..Len(blocks)
        /\ block \in TextBlocks
    <2>1. blocks \in Seq(TextBlocks)
      BY BlocksTyped
    <2> HIDE DEF blocks
    <2>2. b \in 1..Len(blocks)
      BY DEF blocks
    <2> QED
      BY <2>1, <2>2, CutsTyped
  <1>5. /\ body \in Seq(Characters) /\ lead \in Nat /\ lead + Len(text) <= Len(body)
        /\ \A i \in 1..Len(text) : text[i] = body[lead + i]
    BY BodyOf
  <1>6. D = ShownBlocks(file, blocks)
    BY DEF Shown
  <1>7. b \in 1..Len(blocks) /\ start < Len(text)
    OBVIOUS
  <1> HIDE DEF blocks, w, e
  <1> HIDE DEF block
  <1>8. text \in Seq(Characters) /\ heading \in Seq(Characters)
    BY <1>4, BlockOf
  <1> HIDE DEF body, lead, text, heading, D, at
  <1>9. Says(D, below) = Units(piece)
    <2>1. D[<<"block", b>>] = body
      <3>1. b \in DOMAIN blocks
        BY <1>4, <1>7
      <3>2. ShownBlocks(file, blocks)[<<"block", b>>] = Body(file, blocks[b])
        BY <3>1, ShownBody
      <3> QED
        BY <1>6, <3>2 DEF body, block
    <2>2. SubSeq(Units(body), Offset(body, lead + start) + 1, Offset(body, lead + e)) = Units(piece)
      BY <1>5, <1>7, <1>8, PieceSpelled DEF e
    <2>3. /\ below.block = <<"block", b>> /\ below.start = Offset(body, lead + start)
          /\ below.end = Offset(body, lead + e)
      BY DEF Span
    <2> HIDE DEF below
    <2> QED
      BY <2>1, <2>2, <2>3 DEF Says
  <1>10. piece \in Seq(Characters) /\ piece \in Seq(Marked) /\ heading \in Seq(Marked)
    BY <1>7, <1>8, PieceOf, CharactersMarked
  <1>11. CASE heading = <<>> \/ start # 0
    <2>1. w.ranges = <<below>>
      <3> HIDE DEF below, above
      <3>1. w.ranges = <<>> \o <<below>>
        BY <1>1, <1>2, <1>3, <1>11
      <3> QED
        BY <3>1
    <2>2. Content(block, start) = piece
      BY <1>11 DEF Content, heading, text
    <2>3. Spelled(D, <<below>>) = Says(D, below)
      <3> DEFINE rs == <<below>>
      <3> HIDE DEF below
      <3>1. Len(rs) = 1 /\ rs[1] = below
        OBVIOUS
      <3> HIDE DEF rs
      <3>2. Spelled(D, rs) = Says(D, rs[1])
        BY <3>1 DEF Spelled
      <3> QED
        BY <3>1, <3>2 DEF rs
    <2> HIDE DEF below
    <2>4. w.ranges # <<>>
      BY <2>1
    <2> QED
      BY <1>1, <1>9, <2>1, <2>2, <2>3, <2>4 DEF w, D, block, blocks
  <1>12. CASE ~(heading = <<>> \/ start # 0)
    <2>1. w.ranges = <<above, below>>
      <3> HIDE DEF below, above
      <3>1. w.ranges = <<above>> \o <<below>>
        BY <1>1, <1>2, <1>3, <1>12
      <3>2. <<above>> \o <<below>> = <<above, below>>
        BY Pair
      <3> QED
        BY <3>1, <3>2
    <2>2. Content(block, start) = heading \o <<"nl">> \o piece
      BY <1>12 DEF Content, heading, text
    <2>3. Spelled(D, <<above, below>>) = Says(D, above) \o <<"nl">> \o Says(D, below)
      <3> DEFINE rs == <<above, below>>
      <3> HIDE DEF below, above
      <3>1. Len(rs) = 2 /\ rs[1] = above /\ rs[2] = below
        OBVIOUS
      <3> HIDE DEF rs
      <3>2. Spelled(D, rs) = Says(D, rs[1]) \o <<"nl">> \o Says(D, rs[2])
        BY <3>1 DEF Spelled
      <3> QED
        BY <3>1, <3>2 DEF rs
    <2>4. Says(D, above) = Units(heading)
      <3>1. b \in Nat /\ b # 0
        BY <1>4, <1>7
      <3>2. /\ at \in 1..b /\ blocks[at].heading = blocks[b].heading
            /\ HeadingAt(blocks, at) = at
        BY <3>1, HeadingAtOf DEF at
      <3>3. at \in DOMAIN blocks /\ blocks[at].heading = heading /\ heading # <<>>
        BY <1>4, <1>7, <1>12, <3>2 DEF heading, block
      <3>4. D[<<"heading", at>>] = heading
        <4>1. ShownBlocks(file, blocks)[<<"heading", at>>] = blocks[at].heading
          BY <3>2, <3>3, ShownHeading
        <4> QED
          BY <1>6, <3>3, <4>1
      <3>5. /\ above.block = <<"heading", at>> /\ above.start = 0
            /\ above.end = Offset(heading, Len(heading))
        BY DEF Span
      <3>6. Says(D, above) = SubSeq(Units(heading), 0 + 1, Offset(heading, Len(heading)))
        <4> HIDE DEF above
        <4> QED
          BY <3>4, <3>5 DEF Says
      <3> DEFINE u == Units(heading)
      <3>7. u \in Seq(Code) /\ Len(u) = Offset(heading, Len(heading))
        BY <1>10, UnitsTyped, UnitsLength
      <3> HIDE DEF u
      <3>8. SubSeq(u, 1, Len(u)) = u
        BY <3>7, WholePart
      <3>9. 0 + 1 = 1
        OBVIOUS
      <3> HIDE DEF above
      <3> QED
        BY <3>6, <3>7, <3>8, <3>9 DEF u
    <2>5. Units(heading \o <<"nl">> \o piece) = Units(heading) \o <<"nl">> \o Units(piece)
      <3>1. <<"nl">> \in Seq(Marked)
        <4>1. "nl" \in Marked
          BY DEF Marked
        <4> QED
          BY <4>1
      <3>2. Units(<<"nl">>) = <<"nl">>
        <4> DEFINE nl == <<"nl">>
                   codes == Codes(nl)
        <4>1. codes = <<nl>>
          <5>1. DOMAIN nl = 1..1 /\ nl[1] = "nl"
            OBVIOUS
          <5>2. codes = [i \in 1..1 |-> nl]
            BY <5>1 DEF Codes
          <5> QED
            BY <5>2
        <4>2. Units(nl) = FlattenSeq(codes) /\ nl \in Seq(Code)
          BY <3>1, UnitsTyped DEF Code, Marked
        <4>3. FlattenSeq(<<nl>>) = nl
          <5>1. \E f : /\ IsPath(f, AppendStep(Code, <<nl>>), <<>>, Seq(Code), Len(<<nl>>))
                       /\ FlattenSeq(<<nl>>) = f[Len(<<nl>>)]
            <6>1. <<nl>> \in Seq(Seq(Code))
              BY <4>2
            <6> QED
              BY <6>1, FlattenPath
          <5>2. PICK f : /\ IsPath(f, AppendStep(Code, <<nl>>), <<>>, Seq(Code), Len(<<nl>>))
                         /\ FlattenSeq(<<nl>>) = f[Len(<<nl>>)]
            BY <5>1
          <5> HIDE DEF nl
          <5>3. Len(<<nl>>) = 1 /\ <<nl>>[1] = nl /\ 1 \in 1..1 /\ 1 - 1 = 0 /\ <<>> \in Seq(Code)
            OBVIOUS
          <5>4. f[0] = <<>> /\ f[1] = AppendStep(Code, <<nl>>)[<<f[0], 1>>]
            BY <5>2, <5>3 DEF IsPath
          <5>5. f[1] = <<>> \o nl
            BY <5>3, <5>4 DEF AppendStep
          <5> QED
            BY <4>2, <5>2, <5>3, <5>5
        <4> QED
          BY <4>1, <4>2, <4>3
      <3>3. /\ heading \o <<"nl">> \in Seq(Marked)
            /\ Units(heading \o <<"nl">>) = Units(heading) \o Units(<<"nl">>)
        BY <1>10, <3>1, UnitsJoined
      <3> DEFINE x == heading \o <<"nl">>
      <3> HIDE DEF x
      <3>4. Units(x \o piece) = Units(x) \o Units(piece)
        BY <1>10, <3>3, UnitsJoined DEF x
      <3> HIDE DEF piece
      <3> QED
        BY <3>2, <3>3, <3>4 DEF x
    <2> HIDE DEF above, below
    <2>6. w.ranges # <<>>
      BY <2>1
    <2> QED
      BY <1>1, <1>9, <2>1, <2>2, <2>3, <2>4, <2>5, <2>6 DEF w, D, block, blocks
  <1> QED
    BY <1>11, <1>12

(* The windows are those of the chunks, in the same order. *)
LEMMA WindowsMatch ==
    ASSUME NEW file \in Files, Readable(file)
    PROVE  /\ DOMAIN Windows(file) = DOMAIN ChunkDocument(Blocks(file))
           /\ \A i \in DOMAIN Windows(file) :
                \E b \in 1..Len(Blocks(file)) : \E start \in Nat :
                   /\ start < Len(Blocks(file)[b].text)
                   /\ Windows(file)[i] = PieceWindow(file, Blocks(file), b, start)
                   /\ ChunkDocument(Blocks(file))[i] = Content(Blocks(file)[b], start)
  <1> DEFINE blocks == Blocks(file)
             n == Len(blocks)
             all == ChunkDocument(blocks)
             cuts == Cuts(blocks)
             starts(b) == PieceStarts(blocks[b].text)
             Q == {PieceWindow(file, blocks, p[1], p[2]) : p \in (1..n) \X Nat}
             lists == [b \in 1..n |-> BlockWindows(file, blocks, b)]
             W == Windows(file)
  <1>1. blocks \in Seq(TextBlocks)
    BY BlocksTyped
  <1>2. W = FlattenSeq([b \in DOMAIN blocks |-> BlockWindows(file, blocks, b)])
    BY Zenon DEF Windows, WindowsOf
  <1> HIDE DEF blocks
  <1>3. /\ n \in Nat /\ DOMAIN blocks = 1..n
        /\ \A b \in 1..n : blocks[b] \in TextBlocks
        /\ cuts \in Seq(Seq(Seq(Marked))) /\ Len(cuts) = n
        /\ \A b \in 1..n : cuts[b] = CutOf(blocks[b])
        /\ all = FlattenSeq(cuts)
    BY <1>1, CutsTyped
  <1>4. ASSUME NEW b \in 1..n
        PROVE  /\ starts(b) \in Seq(Nat)
               /\ \A k \in 1..Len(starts(b)) :
                    starts(b)[k] \in Nat /\ starts(b)[k] < Len(blocks[b].text)
               /\ Len(cuts[b]) = Len(starts(b))
               /\ \A k \in 1..Len(starts(b)) : cuts[b][k] = Content(blocks[b], starts(b)[k])
    <2>1. blocks[b] \in TextBlocks /\ cuts[b] = CutOf(blocks[b])
      BY <1>3
    <2>2. blocks[b].text \in Seq(Characters) /\ Len(blocks[b].text) # 0
      BY <2>1, BlockOf
    <2>3. /\ starts(b) \in Seq(Nat)
          /\ \A k \in 1..Len(starts(b)) :
               starts(b)[k] \in Nat /\ starts(b)[k] < Len(blocks[b].text)
      BY <2>2, StartsOf
    <2>4. /\ Len(cuts[b]) = Len(starts(b))
          /\ \A k \in 1..Len(starts(b)) : cuts[b][k] = Content(blocks[b], starts(b)[k])
      <3> HIDE DEF cuts
      <3> QED
        BY <2>1, CutTyped
    <2> QED
      BY <2>3, <2>4
  <1>5. ASSUME NEW b \in 1..n
        PROVE  /\ BlockWindows(file, blocks, b) \in Seq(Q)
               /\ Len(BlockWindows(file, blocks, b)) = Len(starts(b))
               /\ \A k \in 1..Len(starts(b)) :
                    BlockWindows(file, blocks, b)[k] = PieceWindow(file, blocks, b, starts(b)[k])
    <2> DEFINE m == Len(starts(b))
               bw == BlockWindows(file, blocks, b)
    <2>1. bw = [k \in DOMAIN starts(b) |-> PieceWindow(file, blocks, b, starts(b)[k])]
      BY DEF BlockWindows
    <2>2. starts(b) \in Seq(Nat) /\ \A k \in 1..m : starts(b)[k] \in Nat
      BY <1>4
    <2>3. \A k \in 1..m : PieceWindow(file, blocks, b, starts(b)[k]) \in Q
      <3> TAKE k \in 1..m
      <3>1. <<b, starts(b)[k]>> \in (1..n) \X Nat
        BY <2>2
      <3> DEFINE p == <<b, starts(b)[k]>>
      <3>2. p[1] = b /\ p[2] = starts(b)[k]
        OBVIOUS
      <3> HIDE DEF p, starts, n
      <3> QED
        BY <3>1, <3>2 DEF p
    <2> HIDE DEF starts, Q, bw
    <2>4. m \in Nat /\ DOMAIN starts(b) = 1..m
      BY <2>2
    <2> HIDE DEF m
    <2>5. bw \in [1..m -> Q]
      BY <2>1, <2>3, <2>4
    <2>6. bw \in Seq(Q) /\ Len(bw) = m
      BY <2>4, <2>5, ListOf
    <2>7. \A k \in 1..m : bw[k] = PieceWindow(file, blocks, b, starts(b)[k])
      BY <2>1, <2>4
    <2> QED
      BY <2>6, <2>7 DEF bw, m
  <1> HIDE DEF starts, Q, n, cuts
  <1>6. /\ lists \in Seq(Seq(Q)) /\ Len(lists) = n
        /\ \A b \in 1..n : lists[b] = BlockWindows(file, blocks, b)
    <2> DEFINE R == Seq(Q)
    <2>1. \A b \in 1..n : BlockWindows(file, blocks, b) \in R
      BY <1>5
    <2> HIDE DEF R
    <2>2. lists \in [1..n -> R]
      BY <2>1
    <2>3. \A b \in 1..n : lists[b] = BlockWindows(file, blocks, b)
      OBVIOUS
    <2> HIDE DEF lists
    <2>4. lists \in Seq(R) /\ Len(lists) = n
      BY <1>3, <2>2, ListOf
    <2> QED
      BY <2>3, <2>4 DEF R
  <1>7. W = FlattenSeq(lists)
    BY <1>2, <1>3
  <1> HIDE DEF lists, W, all
  <1>8. all \in Seq(Seq(Marked)) /\ \E offs : IsLayout(offs, all, cuts)
    BY <1>3, Flattened
  <1>9. PICK at : IsLayout(at, all, cuts)
    BY <1>8
  <1>10. W \in Seq(Q) /\ \E offs : IsLayout(offs, W, lists)
    BY <1>6, <1>7, Flattened
  <1>11. PICK by : IsLayout(by, W, lists)
    BY <1>10
  <1>12. \A k \in 1..n : Len(cuts[k]) = Len(lists[k])
    BY <1>4, <1>5, <1>6
  <1>13. \A k \in Nat : k <= n => at[k] = by[k]
    BY <1>3, <1>6, <1>9, <1>11, <1>12, SameLayout
  <1>14. Len(W) = Len(all)
    <2>1. at[n] = Len(all)
      BY <1>3, <1>9 DEF IsLayout
    <2>2. by[n] = Len(W)
      BY <1>6, <1>11 DEF IsLayout
    <2>3. n <= n
      BY <1>3
    <2> QED
      BY <1>3, <1>13, <2>1, <2>2, <2>3
  <1>15. DOMAIN W = 1..Len(all) /\ DOMAIN all = 1..Len(all)
    BY <1>8, <1>10, <1>14
  <1>16. ASSUME NEW i \in 1..Len(all)
         PROVE  \E b \in 1..n : \E start \in Nat :
                   /\ start < Len(blocks[b].text)
                   /\ W[i] = PieceWindow(file, blocks, b, start)
                   /\ all[i] = Content(blocks[b], start)
    <2>1. \E k \in 1..n, j \in Nat : j \in 1..Len(lists[k]) /\ i = by[k - 1] + j
      BY <1>6, <1>11, <1>14 DEF IsLayout
    <2>2. PICK b \in 1..n, j \in Nat : j \in 1..Len(lists[b]) /\ i = by[b - 1] + j
      BY <2>1
    <2>3. W[i] = lists[b][j]
      BY <1>6, <1>11, <2>2 DEF IsLayout
    <2>4. at[b - 1] = by[b - 1]
      <3>1. b - 1 \in Nat /\ b - 1 <= n
        BY <1>3
      <3> QED
        BY <1>13, <3>1
    <2>5. all[i] = cuts[b][j]
      <3>1. j \in 1..Len(cuts[b])
        BY <1>12, <2>2
      <3>2. all[at[b - 1] + j] = cuts[b][j]
        BY <1>3, <1>9, <3>1 DEF IsLayout
      <3> QED
        BY <2>2, <2>4, <3>2
    <2>6. j \in 1..Len(starts(b))
      BY <1>4, <1>12, <2>2
    <2> DEFINE start == starts(b)[j]
    <2>7. start \in Nat /\ start < Len(blocks[b].text) /\ cuts[b][j] = Content(blocks[b], start)
      BY <1>4, <2>6
    <2>8. lists[b][j] = PieceWindow(file, blocks, b, start)
      BY <1>5, <1>6, <2>6
    <2> HIDE DEF start
    <2> QED
      BY <2>3, <2>5, <2>7, <2>8
  <1> QED
    BY <1>15, <1>16 DEF W, all, n, blocks

(* The places of an indexed document, and what they spell. *)
LEMMA PlacesSpelled ==
    ASSUME NEW file \in Files, Readable(file), NEW slice,
           Locate(Shown(file), Windows(file), slice) # <<>>
    PROVE  Spelled(Shown(file), Locate(Shown(file), Windows(file), slice))
             = Units(slice.content)
  <1> DEFINE D == Shown(file)
             W == Windows(file)
             R == Locate(D, W, slice)
             saved == {k \in DOMAIN W : /\ slice.document = D
                                        /\ W[k].ranges = slice.ranges
                                        /\ W[k].content = slice.content}
             numbered == {k \in DOMAIN W : /\ k = slice.number + 1
                                           /\ W[k].content = slice.content}
  <1>1. R = IF saved # {} THEN slice.ranges
            ELSE IF numbered # {} THEN W[slice.number + 1].ranges
            ELSE <<>>
    BY Zenon DEF Locate
  <1>2. \E k \in DOMAIN W : R = W[k].ranges /\ W[k].content = slice.content
    <2>1. CASE saved # {}
      <3>1. PICK k \in DOMAIN W : W[k].ranges = slice.ranges /\ W[k].content = slice.content
        BY <2>1
      <3>2. R = slice.ranges
        <4> HIDE DEF saved, R
        <4> QED
          BY <1>1, <2>1
      <3> QED
        BY <3>1, <3>2
    <2>2. CASE saved = {} /\ numbered # {}
      <3>1. PICK k \in DOMAIN W : k = slice.number + 1 /\ W[k].content = slice.content
        BY <2>2
      <3>2. R = W[slice.number + 1].ranges
        <4> HIDE DEF saved, numbered, R
        <4> QED
          BY <1>1, <2>2
      <3> QED
        BY <3>1, <3>2
    <2>3. CASE saved = {} /\ numbered = {}
      <3> HIDE DEF saved, numbered
      <3>1. Locate(D, W, slice) = <<>>
        BY <1>1, <2>3
      <3> QED
        BY <3>1
    <2> QED
      BY <2>1, <2>2, <2>3
  <1>3. PICK k \in DOMAIN W : R = W[k].ranges /\ W[k].content = slice.content
    BY <1>2
  <1>4. PICK b \in 1..Len(Blocks(file)), start \in Nat :
           /\ start < Len(Blocks(file)[b].text)
           /\ W[k] = PieceWindow(file, Blocks(file), b, start)
    BY WindowsMatch
  <1> HIDE DEF D, W, R
  <1>5. W[k].content = Content(Blocks(file)[b], start)
        /\ Spelled(D, W[k].ranges) = Units(Content(Blocks(file)[b], start))
    BY <1>4, WindowSpelled DEF D
  <1>6. Spelled(D, R) = Units(slice.content)
    BY <1>3, <1>5
  <1> QED
    BY <1>6 DEF D, W, R

(* ... and every chunk has one. *)
LEMMA PlacesFound ==
    ASSUME NEW file \in Files, Readable(file), NEW k \in DOMAIN Slices(file)
    PROVE  Locate(Shown(file), Windows(file), Slices(file)[k]) # <<>>
  <1> DEFINE D == Shown(file)
             W == Windows(file)
             all == ChunkDocument(Blocks(file))
             slice == Slices(file)[k]
             R == Locate(D, W, slice)
             saved == {c \in DOMAIN W : /\ slice.document = D
                                        /\ W[c].ranges = slice.ranges
                                        /\ W[c].content = slice.content}
             numbered == {c \in DOMAIN W : /\ c = slice.number + 1
                                           /\ W[c].content = slice.content}
  <1>1. R = IF saved # {} THEN slice.ranges
            ELSE IF numbered # {} THEN W[slice.number + 1].ranges
            ELSE <<>>
    BY Zenon DEF Locate
  <1>2. k \in DOMAIN all /\ slice.number = k - 1 /\ slice.content = all[k]
    <2>1. all = ChunkDocument(Blocks(file))
      OBVIOUS
    <2> HIDE DEF all, slice
    <2>2. /\ DOMAIN Slices(file) = DOMAIN all
          /\ \A c \in DOMAIN all :
               Slices(file)[c].number = c - 1 /\ Slices(file)[c].content = all[c]
      BY <2>1, SlicesOf
    <2> QED
      BY <2>2 DEF slice
  <1>3. ASSUME NEW c \in DOMAIN W PROVE W[c].ranges # <<>> /\ W[c].content = all[c]
    <2>1. PICK b \in 1..Len(Blocks(file)), start \in Nat :
             /\ start < Len(Blocks(file)[b].text)
             /\ W[c] = PieceWindow(file, Blocks(file), b, start)
             /\ all[c] = Content(Blocks(file)[b], start)
      BY WindowsMatch
    <2> HIDE DEF W, all
    <2> QED
      BY <2>1, WindowSpelled
  <1>4. DOMAIN W = DOMAIN all
    BY WindowsMatch
  <1>5. k \in Nat
    <2>1. /\ Cuts(Blocks(file)) \in Seq(Seq(Seq(Marked)))
          /\ all = FlattenSeq(Cuts(Blocks(file)))
      <3>1. Blocks(file) \in Seq(TextBlocks)
        BY BlocksTyped
      <3> HIDE DEF all
      <3> QED
        BY <3>1, CutsTyped DEF all
    <2>2. all \in Seq(Seq(Marked))
      BY <2>1, Flattened
    <2> HIDE DEF all
    <2> QED
      BY <1>2, <2>2
  <1> HIDE DEF W, all, D, R, slice
  <1>6. (k - 1) + 1 = k
    BY <1>5
  <1>7. k \in numbered
    BY <1>2, <1>3, <1>4, <1>6
  <1>8. CASE saved # {}
    <2>1. PICK c \in DOMAIN W : W[c].ranges = slice.ranges
      BY <1>8
    <2>2. slice.ranges # <<>>
      BY <1>3, <2>1
    <2> HIDE DEF saved, numbered
    <2>3. R # <<>>
      BY <1>1, <1>8, <2>2
    <2> QED
      BY <2>3 DEF R, D, W, slice
  <1>9. CASE saved = {}
    <2>1. W[slice.number + 1].ranges # <<>>
      BY <1>2, <1>3, <1>4, <1>6
    <2>2. numbered # {}
      BY <1>7
    <2> HIDE DEF saved, numbered
    <2>3. R # <<>>
      BY <1>1, <1>9, <2>1, <2>2
    <2> QED
      BY <2>3 DEF R, D, W, slice
  <1> QED
    BY <1>8, <1>9

(* DocumentText.locations never shows a citation in the wrong place: every  *)
(* chunk of the indexed document is found, and a range that is found, also  *)
(* in a document another parser made, spells the chunk to the character, in *)
(* UTF-16 code units.                                                       *)
THEOREM CitationsLocated == SlicingSpec => []Located
  <1>1. SlicingInv => Located
    <2> SUFFICES ASSUME SlicingInv, reading \in {"open", "reopened"}, NEW k \in DOMAIN slices
                 PROVE  InPlace(Shown(original), Windows(original), slices[k])
      BY Zenon DEF Located
    <2>1. Opened(original)
      BY DEF SlicingInv, SlicedFrom
    <2>2. original \in Files /\ Readable(original)
      BY <2>1, SlicingAssumption DEF Opened
    <2>3. ASSUME reading = "open"
          PROVE  Locate(Shown(original), Windows(original), slices[k]) # <<>>
      <3>1. slices = Slices(original)
        BY <2>3 DEF SlicingInv, SlicedFrom
      <3> QED
        BY <2>2, <3>1, PlacesFound
    <2>4. ASSUME Locate(Shown(original), Windows(original), slices[k]) # <<>>
          PROVE  Spelled(Shown(original), Locate(Shown(original), Windows(original), slices[k]))
                   = Units(slices[k].content)
      BY <2>2, <2>4, PlacesSpelled
    <2> QED
      BY <2>3, <2>4 DEF InPlace
  <1> QED
    BY <1>1, SlicingInvariant, PTL

===============================================================================
