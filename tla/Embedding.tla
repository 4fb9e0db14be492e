----------------------------- MODULE Embedding -----------------------------
(***************************************************************************)
(* How a document's text becomes vectors: the chunker and the batcher      *)
(* (engine/embed/chunker.go), the vector cache that all lanes share        *)
(* (worker/vector_cache.go), and what an embed lane does with them before  *)
(* its transaction (worker/embed_worker.go, Prepare).                      *)
(*                                                                         *)
(* A text is a sequence of bytes, each known by its kind: "s" prose, "d"   *)
(* encoded data, "w" a blank, "n" a newline, "." the end of a sentence,    *)
(* "m" the first byte of a longer character, "c" a byte that continues     *)
(* one.  A vector is known by the text it was computed from.               *)
(***************************************************************************)
EXTENDS Integers, Sequences, SequencesExt, FiniteSets

ByteKinds == {"s", "d", "w", "n", ".", "m", "c"}
\* What is stored is UTF-8: a character has up to three bytes that continue it.
IsText(t) ==
    /\ t \in Seq(ByteKinds)
    /\ \A i \in DOMAIN t : t[i] = "c" =>
          \E k \in 1..3 : /\ i - k \in DOMAIN t /\ t[i - k] = "m"
                        /\ \A j \in (i - k + 1)..i : t[j] = "c"

CONSTANTS Embedders,      \* embed lanes
          Papers,         \* documents whose text is stored
          TextOf,         \* of each, the texts it may have
          Samples,        \* texts to split
          Target,         \* TargetChars
          Overlap,        \* OverlapChars
          MaxBatchChunks,
          MaxBatchTokens,
          VectorBytes,    \* what one vector takes
          CacheSizes,     \* what embedcacheBytes may be
          MaxAttempts     \* of a job, before it fails

ASSUME EmbeddingAssumption ==
    /\ {Overlap, Target, MaxBatchChunks, MaxBatchTokens, VectorBytes} \subseteq Nat \ {0}
    /\ 4 * Overlap <= Target
    /\ CacheSizes \subseteq Nat /\ MaxAttempts \in Nat /\ IsFiniteSet(Papers)
    /\ \A t \in Samples \union UNION {TextOf[d] : d \in Papers} : IsText(t)

VARIABLES cacheBytes, \* VectorCache.max
          pieces,     \* of each document, what its text is split into
          cache,    \* the cached texts, last used first, and VectorCache.size
          embedder, \* what each lane is preparing
          stored,   \* of each document, the passages handed to the store
          tries,    \* of each document's job: ingestion_jobs.attempts
          received, \* history of the process: the texts a vector came back for,
          got,      \* of each document, its pieces an answer was for,
          ended     \* and what its last attempt lacked

embeddingVars == <<cacheBytes, pieces, cache, embedder, stored, tries, received, got, ended>>

-----------------------------------------------------------------------------
(* The chunker.  Offsets count bytes from zero, as in the code.            *)

Blanks == {"w", "n"}
Starts(t, i) == i >= Len(t) \/ t[i + 1] # "c"
Solid(t) == {i \in DOMAIN t : t[i] \notin Blanks}
\* The characters, and what strings.TrimSpace leaves, of the bytes after `from'
\* up to `to'.
Runes(t, from, to) == Cardinality({i \in (from + 1)..to : t[i] # "c"})
Trimmed(t, from, to) ==
    LET solid == {i \in Solid(t) : from < i /\ i <= to}
    IN IF solid = {} THEN [from |-> from, to |-> from]
       ELSE [from |-> (CHOOSE i \in solid : \A j \in solid : i <= j) - 1,
             to   |-> CHOOSE i \in solid : \A j \in solid : i >= j]

\* The rune boundaries of t; moving n of them forwards or back, to the last one at
\* most.
Boundaries(t) == {i \in 0..Len(t) : Starts(t, i)}
Advance(t, start, n, last) ==
    CHOOSE i \in Boundaries(t) :
        /\ start <= i /\ i <= last
        /\ Runes(t, start, i) <= n /\ (i = last \/ Runes(t, start, i) = n)
Retreat(t, end, n, first) ==
    CHOOSE i \in Boundaries(t) :
        /\ first <= i /\ i <= end
        /\ Runes(t, i, end) <= n /\ (i = first \/ Runes(t, i, end) = n)
Align(t, i) == CHOOSE j \in Boundaries(t) : j >= i /\ \A k \in Boundaries(t) : k >= i => j <= k

\* The last place after a paragraph, a line, a sentence or a word in the final
\* two fifths of the window, in this order of preference.
Boundary(t, start, hardEnd) ==
    LET from == start + ((hardEnd - start) * 6) \div 10
        after(kind) == {i \in (from + 1)..hardEnd : t[i] = kind}
        paragraphs == {i \in after("n") : i > from + 1 /\ t[i - 1] = "n"}
        sentences == IF hardEnd \in after(".") THEN {} ELSE after(".")
        found == IF paragraphs # {} THEN paragraphs
                 ELSE IF after("n") # {} THEN after("n")
                 ELSE IF sentences # {} THEN sentences
                 ELSE IF after("w") # {} THEN after("w") ELSE {hardEnd}
    IN Align(t, CHOOSE i \in found : \A j \in found : i >= j)

\* Split: the pieces, as their ranges in full.  `text' is what of it is split, and
\* `rest' what a window that starts there and those after it come to.
EndOf(full, text, start) ==
    LET hard == Advance(full, start, Target, text.to)
    IN IF hard < text.to THEN Boundary(full, start, hard) ELSE hard
NextOf(full, text, start) ==
    LET end == EndOf(full, text, start)
        next == Retreat(full, end, Overlap, text.from)
    IN IF next <= start THEN end ELSE next
Piece(full, from, to) ==
    IF Trimmed(full, from, to).to = from THEN <<>> ELSE <<Trimmed(full, from, to)>>
Split(full) ==
    LET text == Trimmed(full, 0, Len(full))
        rest[start \in {i \in Boundaries(full) : text.from <= i /\ i < text.to}] ==
            Piece(full, start, EndOf(full, text, start)) \o
            (IF EndOf(full, text, start) >= text.to THEN <<>> ELSE rest[NextOf(full, text, start)])
    IN IF text.to = 0 THEN <<>>
       ELSE IF Runes(full, text.from, text.to) <= Target THEN <<text>> ELSE rest[text.from]

Pieces(t) == LET cut == Split(t) IN [i \in DOMAIN cut |-> SubSeq(t, cut[i].from + 1, cut[i].to)]

-----------------------------------------------------------------------------
(* The batcher.  ratio: characters per token, as a fraction.               *)

Densest == <<13, 10>>
CharsPerToken == <<4, 1>>
Count(texts, kinds) ==
    Cardinality(UNION {{i} \X {k \in DOMAIN texts[i] : texts[i][k] \in kinds} : i \in DOMAIN texts})
Chars(texts) == Count(texts, ByteKinds \ {"c"})
Exceeds(texts, ratio) == Chars(texts) * ratio[2] > MaxBatchTokens * ratio[1]
\* Next: the longest batch within both limits, of one piece at least.
BatchOf(todo, ratio) ==
    LET fits(n) == n <= MaxBatchChunks /\ ~Exceeds(SubSeq(todo, 1, n), ratio)
        n == CHOOSE n \in 1..Len(todo) :
                /\ \A k \in 2..n : fits(k)
                /\ n = Len(todo) \/ ~fits(n + 1)
    IN SubSeq(todo, 1, n)
\* Observe.
Observed(ratio, chars, tokens) ==
    CASE tokens = 0 -> ratio
      [] tokens > 0 /\ chars * 2 < tokens -> <<1, 2>>
      [] tokens > 0 /\ chars > 4 * tokens -> CharsPerToken
      [] OTHER -> <<chars, tokens>>

\* What the endpoint counts: four characters of prose to a token, or four of
\* encoded data to three.
Tokens(texts) == (Chars(texts) + 2 * Count(texts, {"d"})) \div 4

-----------------------------------------------------------------------------
(* The cache.                                                              *)

Cached == ToSet(cache.order)
\* MoveToFront.
Used(t) ==
    LET at == CHOOSE i \in DOMAIN cache.order : cache.order[i] = t
    IN [cache EXCEPT !.order = <<t>> \o RemoveAt(@, at)]
\* Mutant: what is cached already is counted again.
PutAgain(t) == [order |-> IF t \in Cached THEN Used(t).order ELSE <<t>> \o cache.order,
                size |-> cache.size + VectorBytes]
Put(t) ==
    IF t \in Cached THEN Used(t)
    ELSE LET order == <<t>> \o cache.order
             size == cache.size + VectorBytes
             drop == CHOOSE n \in 0..Len(order) :
                        /\ size - n * VectorBytes <= cacheBytes
                        /\ \A k \in 0..(n - 1) : size - k * VectorBytes > cacheBytes
         IN [order |-> SubSeq(order, 1, Len(order) - drop), size |-> size - drop * VectorBytes]

-----------------------------------------------------------------------------
(* A lane.  have: the passages with their vectors; todo: indexes of the    *)
(* pieces still to be sent; count: how many of them an answer was for.     *)

NoPaper == "none"
Resting == [at |-> "idle", doc |-> NoPaper, have |-> {}, todo |-> <<>>, next |-> 1,
            ratio |-> Densest, count |-> 0]
SetEmbedder(l, state) == embedder' = [embedder EXCEPT ![l] = state]
PiecesOf(l, indexes) == [i \in DOMAIN indexes |-> pieces[embedder[l].doc][indexes[i]]]
Todo(l) == PiecesOf(l, embedder[l].todo)
Batch(l) == BatchOf(Todo(l), embedder[l].ratio)

EmbeddingInit ==
    /\ cacheBytes \in CacheSizes
    /\ \E text \in [Papers -> UNION {TextOf[d] : d \in Papers}] :
          /\ \A d \in Papers : text[d] \in TextOf[d]
          /\ pieces = [d \in Papers |-> Pieces(text[d])]
    /\ cache = [order |-> <<>>, size |-> 0]
    /\ embedder = [l \in Embedders |-> Resting]
    /\ stored = [d \in Papers |-> {}]
    /\ tries = [d \in Papers |-> 0]
    /\ received = {}
    /\ got = [d \in Papers |-> {}]
    /\ ended = [d \in Papers |-> "nothing"]

\* A claim charges an attempt, and Prepare loads and splits the text; an empty
\* one is declined.
Load(l, d) ==
    /\ embedder[l].at = "idle" /\ stored[d] = {}
    /\ tries[d] < MaxAttempts
    /\ \A other \in Embedders : embedder[other].doc # d
    /\ pieces[d] # <<>>
    /\ SetEmbedder(l, [Resting EXCEPT !.at = "look", !.doc = d])
    /\ tries' = [tries EXCEPT ![d] = @ + 1]
    /\ UNCHANGED <<cacheBytes, pieces, cache, stored, received, got, ended>>

\* Mutant: the cache is never asked.
LookPast(l) ==
    /\ embedder[l].at = "look"
    /\ SetEmbedder(l, [embedder[l] EXCEPT !.at = "batch",
                          !.todo = [i \in DOMAIN pieces[embedder[l].doc] |-> i]])
    /\ UNCHANGED <<cacheBytes, pieces, cache, stored, tries, received, got, ended>>

\* Get, piece by piece.
LookUp(l) ==
    /\ embedder[l].at = "look"
    /\ LET e == embedder[l]
           t == pieces[e.doc][e.next]
           on == IF e.next = Len(pieces[e.doc])
                 THEN [e EXCEPT !.at = "batch", !.next = 1] ELSE [e EXCEPT !.next = @ + 1]
       IN IF t \in Cached
          THEN /\ SetEmbedder(l, [on EXCEPT !.have = @ \union {<<e.next, t>>}])
               /\ cache' = Used(t)
          ELSE /\ SetEmbedder(l, [on EXCEPT !.todo = Append(@, e.next)])
               /\ UNCHANGED cache
    /\ UNCHANGED <<cacheBytes, pieces, stored, tries, received, got, ended>>

\* A vector for each text of the batch, by its index in the answer.
Answer(l) ==
    /\ embedder[l].at = "batch" /\ Todo(l) # <<>>
    /\ \E batch \in {Batch(l)} :
          /\ SetEmbedder(l, [embedder[l] EXCEPT !.at = "keep", !.next = 1, !.count = Len(batch),
                !.ratio = Observed(@, Chars(batch), Tokens(batch))])
          /\ received' = received \union ToSet(batch)
          /\ got' = [got EXCEPT ![embedder[l].doc] =
                        @ \union {embedder[l].todo[i] : i \in 1..Len(batch)}]
    /\ UNCHANGED <<cacheBytes, pieces, cache, stored, tries, ended>>

\* An attempt is over: its job is queued again, or has failed with the last one.
Ends(l, lacked) ==
    /\ SetEmbedder(l, Resting)
    /\ ended' = [ended EXCEPT ![embedder[l].doc] = lacked]

\* The request fails, or the handler's deadline passes.
Abandon(l) ==
    /\ embedder[l].at = "batch" /\ Todo(l) # <<>>
    /\ Ends(l, "answers")
    /\ UNCHANGED <<cacheBytes, pieces, cache, stored, tries, received, got>>

\* Put, vector by vector.
Keep(l) ==
    /\ embedder[l].at = "keep"
    /\ LET e == embedder[l]
           i == e.todo[e.next]
           t == pieces[e.doc][i]
           kept == [e EXCEPT !.have = @ \union {<<i, t>>}, !.next = @ + 1]
       IN /\ cache' = Put(t)
          /\ SetEmbedder(l, IF e.next < e.count THEN kept
                ELSE [kept EXCEPT !.at = "batch", !.next = 1, !.count = 0,
                                  !.todo = SubSeq(@, e.count + 1, Len(@))])
    /\ UNCHANGED <<cacheBytes, pieces, stored, tries, received, got, ended>>

\* Every piece has its vector; the handler stores them.
HandOver(l) ==
    /\ embedder[l].at = "batch" /\ Todo(l) = <<>>
    /\ stored' = [stored EXCEPT ![embedder[l].doc] = embedder[l].have]
    /\ SetEmbedder(l, Resting)
    /\ UNCHANGED <<cacheBytes, pieces, cache, tries, received, got, ended>>

\* Their transaction fails; an attempt that met a deadlock or a busy job is
\* refunded.
StoreFails(l) ==
    /\ embedder[l].at = "batch" /\ Todo(l) = <<>>
    /\ Ends(l, "commit")
    /\ \/ UNCHANGED tries
       \/ tries' = [tries EXCEPT ![embedder[l].doc] = @ - 1]
    /\ UNCHANGED <<cacheBytes, pieces, cache, stored, received, got>>

\* The process ends, and the cache with it; the operator may have failed jobs
\* tried again (--recover) before the next one runs.
Restart ==
    /\ embedder' = [l \in Embedders |-> Resting]
    /\ cache' = [order |-> <<>>, size |-> 0]
    /\ \E again \in SUBSET {d \in Papers : tries[d] = MaxAttempts} :
          tries' = [d \in Papers |-> IF d \in again THEN 0 ELSE tries[d]]
    /\ received' = {}
    /\ got' = [d \in Papers |-> {}]
    /\ ended' = [d \in Papers |-> "nothing"]
    /\ UNCHANGED <<cacheBytes, pieces, stored>>

EmbedderStep(l) ==
    \/ LookUp(l) \/ Answer(l) \/ Abandon(l) \/ Keep(l) \/ HandOver(l) \/ StoreFails(l)
    \/ \E d \in Papers : Load(l, d)
EmbeddingNext == Restart \/ \E l \in Embedders : EmbedderStep(l)

EmbeddingSpec == EmbeddingInit /\ [][EmbeddingNext]_embeddingVars

-----------------------------------------------------------------------------
(* Properties.                                                             *)

\* What Split returns: each piece a range of the text as it is stored, of whole
\* characters and no more than the target, without blanks around it; pieces go
\* forward, and together they leave nothing out but blanks (chunker.go: a
\* citation resolves by range, a chunk never splits a character).
SplitSound(t) ==
    LET cut == Split(t)
    IN /\ \A i \in DOMAIN cut :
             /\ {cut[i].from, cut[i].to} \subseteq Boundaries(t)
             /\ Runes(t, cut[i].from, cut[i].to) \in 1..Target
             /\ {cut[i].from + 1, cut[i].to} \subseteq Solid(t)
       /\ \A i \in 2..Len(cut) :
             /\ cut[i - 1].from <= cut[i].from /\ cut[i - 1].to <= cut[i].to
             /\ cut[i].from >= cut[i - 1].to \/ Runes(t, cut[i].from, cut[i - 1].to) <= Overlap
       /\ \A k \in Solid(t) : \E i \in DOMAIN cut : cut[i].from < k /\ k <= cut[i].to

SplitsSound == \A t \in Samples : SplitSound(t)

\* The cache holds every piece there may be.
Everything == UNION {ToSet(pieces[d]) : d \in Papers}
Fits == Cardinality(Everything) * VectorBytes <= cacheBytes

\* The cache's account is that of its entries and within the bound, and while
\* everything fits nothing that was ever received and kept is gone: a retry
\* sends only what it never had (vector_cache.go).  What is stored for a
\* document is every piece of it, once, with the vector of its own text.  A
\* first request is within the budget whatever the text is, and none is larger
\* than the fixed estimate allows (chunker.go, Batcher).
EmbeddingSound ==
    /\ SplitsSound
    /\ cache.size = VectorBytes * Len(cache.order) /\ cache.size <= cacheBytes
    /\ IsInjective(cache.order)
    /\ \A d \in Papers : stored[d] \in {{}, {<<i, pieces[d][i]>> : i \in DOMAIN pieces[d]}}
    /\ \A l \in Embedders : embedder[l].at = "batch" /\ Len(Todo(l)) > 1 /\ Len(Batch(l)) > 1 =>
          /\ Len(Batch(l)) <= MaxBatchChunks
          /\ ~Exceeds(Batch(l), CharsPerToken)
          /\ embedder[l].ratio = Densest => Tokens(Batch(l)) <= MaxBatchTokens
    /\ Fits => \A t \in received :
          \/ t \in Cached
          \/ \E l \in Embedders : embedder[l].at = "keep" /\ t \in ToSet(Todo(l))

\* Attempts that are cut short add up, while everything fits the cache: no piece
\* that an attempt of the process had an answer for is asked for by a later one,
\* and no attempt ends for want of answers once there was one for every piece
\* (vector_cache.go: a retry "resumes from the batches it already has").  A job
\* has MaxAttempts of them, and a new process begins with nothing.
AttemptsAddUp ==
    Fits =>
        /\ \A l \in Embedders : embedder[l].at = "batch" =>
              ToSet(embedder[l].todo) \intersect got[embedder[l].doc] = {}
        /\ \A d \in Papers :
              (ended[d] = "answers" /\ \A l \in Embedders : embedder[l].doc # d) =>
                  stored[d] # {} \/ got[d] # DOMAIN pieces[d]
=============================================================================
