------------------------------ MODULE Retrieval ------------------------------
(***************************************************************************)
(* One chat request of a project: the condensed query, hybrid retrieval    *)
(* over Chroma and Postgres, the relevance floor, the fit into the model's *)
(* context window and the answer (services/chat.py, services/rag.py,       *)
(* services/embeddings.py), while files of the project are being deleted   *)
(* and each of the services it calls may fail.                             *)
(*                                                                         *)
(* A query is what the two legs see of it: sim, the cosine of every chunk  *)
(* as a level (0 is not positive), and terms, its lexemes.  Chunk ids are  *)
(* numbers; Key is the content-derived tie-break (filename, chunk index),  *)
(* which two files of the same name share.                                 *)
(***************************************************************************)
EXTENDS Integers, Sequences, FiniteSets, SequencesExt, FiniteSetsExt

CONSTANTS
    Chunks,      \* chunk ids, a set of numbers
    FileOf,      \* chunk -> its file
    Key,         \* chunk -> its tie-break key
    Terms,       \* chunk -> the lexemes of its text
    Fits,        \* chunks that satisfy the page, review and field filters
    Tokens,      \* chunk -> what it adds to the prompt
    Queries,     \* the questions: [sim |-> ..., terms |-> ...]
    Filters,     \* request filters: [files |-> set, sql |-> BOOLEAN]
    TopKs,       \* values of top_k, of a request, an organisation or the default
    Limits,      \* values of max_tokens in a request, 0 for none
    MaxTokens,   \* settings.max_tokens
    Images,      \* what a request may carry as images: sequences of images
    MaxImages,   \* settings.max_images_per_request
    Settings,    \* [rerank |-> rag_reranker_model is set, min |-> rag_min_score]
    Scores,      \* levels a reranker may give
    FetchFactor, \* settings.rag_hybrid_fetch_multiplier
    SparseFactor,\* settings.rag_sparse_fetch_multiplier
    MaxDf,       \* settings.rag_sparse_max_df, in hundredths
    Idf,         \* Idf[n][df], the weight of a lexeme in df of n chunks
    K, Scale,    \* the fusion's k, and a common multiple of k + 1, k + 2, ...
    NCtx,        \* the model's context window
    Base,        \* tokens of the prompt without any chunk
    Reserve      \* _MIN_GEN_RESERVE

ASSUME RetrievalAssumption ==
    /\ Chunks \subseteq Nat /\ IsFiniteSet(Chunks) /\ Fits \subseteq Chunks
    /\ Key \in [Chunks -> Nat] /\ Tokens \in [Chunks -> Nat]
    /\ \A c \in Chunks : IsFiniteSet(Terms[c])
    /\ \A q \in Queries : q.sim \in [Chunks -> Nat]
    /\ \A n \in 1 .. Cardinality(Chunks) : \A df \in 1 .. n : Idf[n][df] \in Nat
    /\ TopKs \subseteq Nat \ {0} /\ Limits \subseteq Int /\ MaxTokens \in Nat \ {0}
    /\ Settings \subseteq [rerank : BOOLEAN, min : Nat] /\ Scores \subseteq Nat
    /\ FetchFactor \in Nat /\ SparseFactor \in Nat
    /\ K \in Nat /\ Scale \in Nat \ {0}
    /\ \A r \in 1 .. Cardinality(Chunks) : Scale % (K + r) = 0
    /\ Images \subseteq Seq([width : Nat, height : Nat, usable : BOOLEAN])
    /\ NCtx \in Nat /\ Base \in Nat /\ Reserve \in Nat \ {0}

VARIABLES
    conf,      \* the settings of the process: [rerank, min]
    req,       \* the request
    pc,        \* where it is
    queries,   \* what it retrieves on
    turn,      \* which query is being run
    vec, fts,  \* the ranked lists of the legs so far, one per query
    byId,      \* candidate -> [score, lexical]
    fused,     \* the fused order
    final,     \* the entries retrieve() returns: [id, score, lexical, kind, prov]
    kept,      \* those at or above the floor
    call,      \* the call of the model: [chunks, max, images]
    answer,    \* what the request returned
    rows,      \* chunk rows in Postgres
    vectors    \* chunk vectors in Chroma

vars == <<conf, req, pc, queries, turn, vec, fts, byId, fused, final, kept,
          call, answer, rows, vectors>>

store == <<rows, vectors>>
legs == <<queries, turn, vec, fts, byId>>
ranking == <<fused, final, kept>>

NoRequest == [images |-> <<>>, query |-> CHOOSE q \in Queries : TRUE,
              turns |-> 1, condense |-> FALSE, topK |-> 1, max |-> 1,
              filter |-> [files |-> {}, sql |-> FALSE]]
NoCall == [chunks |-> <<>>, max |-> 0, images |-> 0]

Init ==
    /\ conf \in Settings
    /\ req = NoRequest /\ pc = "idle"
    /\ queries = <<>> /\ turn = 1 /\ vec = <<>> /\ fts = <<>>
    /\ byId = <<>>
    /\ fused = <<>> /\ final = <<>> /\ kept = <<>>
    /\ call = NoCall /\ answer = "none"
    /\ rows = Chunks /\ vectors = Chunks

\* The request ends with a typed error or a response.
End(kind) == pc' = "done" /\ answer' = kind

Continue(l) == pc' = l /\ UNCHANGED answer

-----------------------------------------------------------------------------
(* The request and its query.                                               *)

\* max_tokens or settings.max_tokens, capped by the latter.
CapTokens(m) == IF m = 0 \/ m > MaxTokens THEN MaxTokens ELSE m

\* chat: the request arrives; one that carries images skips retrieval.
Arrive ==
    /\ pc = "idle"
    /\ \E q \in Queries, f \in Filters, m \in Limits, i \in Images,
          t \in {1, 2}, c \in BOOLEAN :
        /\ t = 1 => c
        /\ i # <<>> => t = 1
        /\ req' = [images |-> i, query |-> q, turns |-> t, condense |-> c,
                   topK |-> 1, max |-> CapTokens(m), filter |-> f]
        /\ Continue(IF i = <<>> THEN "condense" ELSE "vision")
    /\ UNCHANGED <<conf, legs, ranking, call, store>>

\* _retrieval_queries: a first turn, or condense = false, retrieves on the raw
\* message without a call of the model.
RawQuery ==
    /\ pc = "condense"
    /\ ~req.condense \/ req.turns < 2
    /\ queries' = <<req.query>>
    /\ Continue("resolve")
    /\ UNCHANGED <<conf, req, turn, vec, fts, byId, ranking, call, store>>

\* _condense_query: the model's standalone question goes first and the raw one
\* is never dropped; a failure, an empty output or the same question leaves the
\* raw one.  backend.prepare runs before and its failure ends the request.
CondenseQuery ==
    /\ pc = "condense"
    /\ req.condense /\ req.turns >= 2
    /\ \/ /\ \/ queries' = <<req.query>>
             \/ \E q \in Queries \ {req.query} : queries' = <<q, req.query>>
          /\ Continue("resolve")
       \/ End("model_error") /\ UNCHANGED queries
    /\ UNCHANGED <<conf, req, turn, vec, fts, byId, ranking, call, store>>

\* _resolve_rag_top_k: the request's top_k, the organisation's or the default;
\* the last two need the project's team from Postgres.
ResolveTopK ==
    /\ pc = "resolve"
    /\ \/ /\ \E k \in TopKs : req' = [req EXCEPT !.topK = k]
          /\ Continue("open")
       \/ End("internal_error") /\ UNCHANGED req
    /\ UNCHANGED <<conf, legs, ranking, call, store>>

-----------------------------------------------------------------------------
(* Retrieval.                                                               *)

\* RetrievalFilters: files as a Chroma where and in SQL, the rest in SQL only.
InFiles(c, filter) == filter.files = {} \/ FileOf[c] \in filter.files
Passes(c, filter) == InFiles(c, filter) /\ (filter.sql => c \in Fits)

FirstOf(s, n) == SubSeq(s, 1, IF n < Len(s) THEN n ELSE Len(s))

\* The elements of S in the strict order R: each has its rank's place.
Sorted(S, R) ==
    [i \in 1 .. Cardinality(S) |->
        CHOOSE c \in S : Cardinality({b \in S : <<b, c>> \in R}) = i - 1]

\* The elements of s at the places I, in the order of s.
At(s, I) ==
    LET ix == Sorted(I, {p \in I \X I : p[1] < p[2]})
    IN  [k \in DOMAIN ix |-> s[ix[k]]]

\* By weight, then the tie-break key, then the id.
ByWeight(S, w) ==
    Sorted(S, {p \in S \X S :
        LET a == p[1]
            b == p[2]
        IN  \/ w[a] > w[b]
            \/ w[a] = w[b] /\ Key[a] < Key[b]
            \/ w[a] = w[b] /\ Key[a] = Key[b] /\ a < b})

RankIn(c, s) == CHOOSE i \in DOMAIN s : s[i] = c

\* max(top_k * multiplier, top_k + 1), four times that under an SQL filter.
FetchK ==
    LET n == IF req.topK * FetchFactor > req.topK THEN req.topK * FetchFactor
             ELSE req.topK + 1
    IN  IF req.filter.sql THEN 4 * n ELSE n

\* get_collection and the embedding-model guard.  A collection that is missing
\* or cannot be reached gives no hits.
OpenCollection ==
    /\ pc = "open"
    /\ \/ Continue("vector")
       \/ Continue("floor")
       \/ End("embedding_mismatch")
    /\ UNCHANGED <<conf, req, legs, ranking, call, store>>

\* The elements of S by weight and the tie-break key, ties of the key in any order.
Rankings(S, w) ==
    {s \in SetToSeqs(S) : \A i, j \in DOMAIN s : i < j =>
        \/ w[s[i]] > w[s[j]]
        \/ w[s[i]] = w[s[j]] /\ Key[s[i]] <= Key[s[j]]}

\* What Chroma may give for q: as many of the nearest as were asked for, which
\* of several at the same distance is arbitrary.
Nearest(q) ==
    LET cands == {c \in vectors : InFiles(c, req.filter)}
        n == Cardinality(cands)
    IN  {S \in SUBSET cands :
            /\ Cardinality(S) = IF FetchK < n THEN FetchK ELSE n
            /\ \A c \in S, d \in cands \ S : q.sim[c] >= q.sim[d]}

\* The dense lists for q: what Chroma gave, sorted.
DenseLists(q) == UNION {Rankings(S, q.sim) : S \in Nearest(q)}

\* collection.query for the query of this turn; embedding or Chroma may fail.
VectorLeg ==
    /\ pc = "vector"
    /\ \/ /\ \E s \in DenseLists(queries[turn]) : vec' = Append(vec, s)
          /\ Continue("filter")
       \/ End("retrieval_error") /\ UNCHANGED vec
    /\ UNCHANGED <<conf, req, queries, turn, fts, byId, ranking, call, store>>

\* Mutant: the last query's cosine replaces an earlier one.
KeepLast(cands, q, s) ==
    [c \in DOMAIN cands \cup Range(s) |->
        IF c \in Range(s) THEN [score |-> q.sim[c], lexical |-> FALSE] ELSE cands[c]]

\* by_id after the vector leg returned s for q: the best cosine is kept.
KeepBest(cands, q, s) ==
    [c \in DOMAIN cands \cup Range(s) |->
        IF c \in Range(s) /\ (c \notin DOMAIN cands \/ q.sim[c] > cands[c].score)
        THEN [score |-> q.sim[c], lexical |-> FALSE]
        ELSE cands[c]]

\* Without an SQL filter no row is read.
Selected(c) == ~req.filter.sql \/ (c \in rows /\ Passes(c, req.filter))

\* Mutant: a Postgres failure drops the filter, as it does the sparse leg.
FilterVectorIdsBestEffort ==
    /\ pc = "filter"
    /\ \E s \in {vec[turn],
               At(vec[turn], {i \in DOMAIN vec[turn] : Selected(vec[turn][i])})} :
        /\ vec' = [vec EXCEPT ![turn] = s]
        /\ byId' = KeepBest(byId, queries[turn], s)
    /\ Continue("sparse")
    /\ UNCHANGED <<conf, req, queries, turn, fts, ranking, call, store>>

\* _filter_vector_ids: the candidates that pass, read from Postgres.  When that
\* fails the filter is not dropped, the request is.
FilterVectorIds ==
    /\ pc = "filter"
    /\ \/ LET s == At(vec[turn], {i \in DOMAIN vec[turn] : Selected(vec[turn][i])})
          IN  /\ vec' = [vec EXCEPT ![turn] = s]
              /\ byId' = KeepBest(byId, queries[turn], s)
              /\ Continue("sparse")
       \/ req.filter.sql /\ End("retrieval_error") /\ UNCHANGED <<vec, byId>>
    /\ UNCHANGED <<conf, req, queries, turn, fts, ranking, call, store>>

\* _FTS_SQL: the lexemes of q that are not statistical stopwords of the project,
\* and the summed weight of those a chunk contains.  The counts are over the
\* whole project, whatever the filters.
Df(t) == Cardinality({c \in rows : t \in Terms[c]})
Lexemes(q) ==
    {t \in q.terms : /\ Df(t) > 0
                     /\ Df(t) <= 3 \/ 100 * Df(t) <= MaxDf * Cardinality(rows)}
Weight(c, q) ==
    SumFunction([t \in Terms[c] \cap Lexemes(q) |-> Idf[Cardinality(rows)][Df(t)]])
\* The content hash, not modelled, orders the chunks of one name and index.
SparseLists(q) ==
    LET hits == {c \in rows : /\ Terms[c] \cap Lexemes(q) # {}
                              /\ Passes(c, req.filter)}
    IN  {FirstOf(s, req.topK * SparseFactor) :
            s \in Rankings(hits, [c \in hits |-> Weight(c, q)])}

\* by_id.setdefault: a hit the vector leg has not returned is lexical only.
AddHits(cands, s) ==
    [c \in DOMAIN cands \cup Range(s) |->
        IF c \in DOMAIN cands THEN cands[c]
        ELSE [score |-> 0, lexical |-> TRUE]]

\* _fts_search, then the next query.  When Postgres fails or is out of reach the
\* vector leg is left alone; any other error ends the request.
FtsSearch ==
    /\ pc = "sparse"
    /\ \/ /\ \E s \in {<<>>} \cup SparseLists(queries[turn]) :
             /\ fts' = Append(fts, s)
             /\ byId' = AddHits(byId, s)
          /\ IF turn < Len(queries)
             THEN turn' = turn + 1 /\ Continue("vector")
             ELSE Continue("fuse") /\ UNCHANGED turn
       \/ End("retrieval_error") /\ UNCHANGED <<fts, byId, turn>>
    /\ UNCHANGED <<conf, req, queries, vec, ranking, call, store>>

\* Mutant: a later list's term replaces the sum instead of adding to it.
RrfLast(c, lists) ==
    LET in == {i \in DOMAIN lists : c \in Range(lists[i])}
        last == CHOOSE i \in in : \A j \in in : j <= i
    IN  Scale \div (K + RankIn(c, lists[last]))

\* _rrf_fuse: the sum of 1 / (k + rank) over the lists, in units of 1 / Scale.
Share(c, s) == IF c \in Range(s) THEN Scale \div (K + RankIn(c, s)) ELSE 0
Rrf(c, lists) == SumFunction([i \in DOMAIN lists |-> Share(c, lists[i])])
Candidates(lists) == UNION {Range(lists[i]) : i \in DOMAIN lists}
RrfFuse(lists) ==
    ByWeight(Candidates(lists), [c \in Candidates(lists) |-> Rrf(c, lists)])

Entry(c, score, lexical, kind) ==
    [id |-> c, score |-> score, lexical |-> lexical, kind |-> kind, prov |-> FALSE]

\* The fusion without a reranker, or of a single candidate.
Fuse ==
    /\ pc = "fuse"
    /\ fused' = RrfFuse(vec \o fts)
    /\ ~conf.rerank \/ Len(fused') <= 1
    /\ final' = [i \in 1 .. Len(FirstOf(fused', req.topK)) |->
                    LET c == fused'[i] IN
                    Entry(c, byId[c].score, byId[c].lexical, "vector")]
    /\ Continue("hydrate")
    /\ UNCHANGED <<conf, req, legs, kept, call, store>>

\* The reranked candidates: a stable sort by the new scores.
RerankOrder(top, raw) ==
    Sorted(Range(top), {p \in Range(top) \X Range(top) :
        \/ raw[p[1]] > raw[p[2]]
        \/ raw[p[1]] = raw[p[2]] /\ RankIn(p[1], top) < RankIn(p[2], top)})

\* The cross-encoder scores the first 2 * top_k candidates against the first
\* query.  It may fail.
Rerank ==
    /\ pc = "fuse"
    /\ fused' = RrfFuse(vec \o fts)
    /\ conf.rerank /\ Len(fused') > 1
    /\ \/ LET top == FirstOf(fused', 2 * req.topK) IN
          \E raw \in [Range(top) -> Scores] :
            LET order == RerankOrder(top, raw)
            IN  /\ final' = [i \in 1 .. Len(FirstOf(order, req.topK)) |->
                               Entry(order[i], raw[order[i]], FALSE, "reranker")]
                /\ Continue("hydrate")
       \/ End("retrieval_error") /\ UNCHANGED final
    /\ UNCHANGED <<conf, req, legs, kept, call, store>>

\* _hydrate_provenance: from the row, when Postgres answers and it exists.
HydrateProvenance ==
    /\ pc = "hydrate"
    /\ \/ final' = [i \in DOMAIN final |->
                      [final[i] EXCEPT !.prov = final[i].id \in rows]]
       \/ UNCHANGED final
    /\ Continue("floor")
    /\ UNCHANGED <<conf, req, legs, fused, kept, call, store>>

\* apply_min_score: 0 disables the floor, a keyword-only hit is not judged.
ApplyMinScore(s, min) ==
    IF min = 0 THEN s
    ELSE At(s, {i \in DOMAIN s : s[i].lexical \/ s[i].score >= min})

\* _retrieve's end, and the answer without a model when no chunk is left.
Floor ==
    /\ pc = "floor"
    /\ kept' = ApplyMinScore(final, conf.min)
    /\ IF kept' = <<>> THEN End("abstained") ELSE Continue("fit")
    /\ UNCHANGED <<conf, req, legs, fused, final, call, store>>

\* retrieve() is running: what is deleted before or after it does not matter.
Retrieving == pc \in {"open", "vector", "filter", "sparse", "fuse", "hydrate"}

\* The timeout around the retrieval thread.
RetrieveTimeout ==
    /\ Retrieving
    /\ End("timeout")
    /\ UNCHANGED <<conf, req, legs, ranking, call, store>>

-----------------------------------------------------------------------------
(* The prompt and the answer.                                               *)

\* _build_system and count_prompt_tokens: the prompt with the chunks of s.
PromptTokens(s) == Base + SumFunction([i \in DOMAIN s |-> Tokens[s[i].id]])

Room(n, max) == n + (IF Reserve < max THEN Reserve ELSE max) <= NCtx

Clamp(n, max) ==
    LET m == IF max < NCtx - n THEN max ELSE NCtx - n IN IF m < 1 THEN 1 ELSE m

\* Mutant: the first chunk goes instead of the last.
FitContextPopFirst(s, max) ==
    LET fitting == {n \in 0 .. Len(s) :
                      Room(PromptTokens(SubSeq(s, Len(s) - n + 1, Len(s))), max)}
        n == CHOOSE i \in fitting : \A j \in fitting : j <= i
        left == SubSeq(s, Len(s) - n + 1, Len(s))
    IN  IF fitting = {} THEN NoCall
        ELSE [chunks |-> left, images |-> 0, max |-> Clamp(PromptTokens(left), max)]

\* _fit_context: the last chunk goes until the prompt leaves room.
FitContext(s, max) ==
    LET fitting == {n \in 0 .. Len(s) : Room(PromptTokens(SubSeq(s, 1, n)), max)}
        n == CHOOSE i \in fitting : \A j \in fitting : j <= i
    IN  IF fitting = {} THEN NoCall
        ELSE [chunks |-> SubSeq(s, 1, n), images |-> 0,
              max |-> Clamp(PromptTokens(SubSeq(s, 1, n)), max)]

\* prepare, unless the condensation did it, which may fail; and the fit.
Fit ==
    /\ pc = "fit"
    /\ \/ /\ ~req.condense \/ req.turns < 2
          /\ End("model_error") /\ UNCHANGED call
       \/ /\ call' = FitContext(kept, req.max)
          /\ IF call' = NoCall THEN End("too_long") ELSE Continue("generate")
    /\ UNCHANGED <<conf, req, legs, ranking, store>>

\* backend.generate: a failure, an answer with its citations, or an answer that
\* is_abstention and is given without citations.
Generate ==
    /\ pc = "generate"
    /\ \E kind \in {"answered", "uncited", "inference_error"} : End(kind)
    /\ UNCHANGED <<conf, req, legs, ranking, call, store>>

\* validate_image_parts: the first part over the limit or unusable ends the
\* request; each of the others costs one token per 56 x 56 patch, rounded up,
\* and 8.
ImageTokens(image) ==
    ((image.width + 55) \div 56) * ((image.height + 55) \div 56) + 8
ValidImages(images) ==
    Len(images) <= MaxImages /\ \A i \in DOMAIN images : images[i].usable
AllImageTokens(images) ==
    SumFunction([i \in DOMAIN images |-> ImageTokens(images[i])])

\* _chat_vision: the fit of text and images, which drops nothing.  Before it, a
\* base model that takes no images, or an invalid image, ends the request.
ChatVision ==
    /\ pc = "vision"
    /\ LET n == Base + AllImageTokens(req.images) IN
       \/ End("invalid_image") /\ UNCHANGED call
       \/ /\ ValidImages(req.images)
          /\ \/ End("model_error") /\ UNCHANGED call
             \/ ~Room(n, req.max) /\ End("too_long") /\ UNCHANGED call
             \/ /\ Room(n, req.max)
                /\ call' = [chunks |-> <<>>, max |-> Clamp(n, req.max),
                            images |-> AllImageTokens(req.images)]
                /\ Continue("generate")
    /\ UNCHANGED <<conf, req, legs, ranking, store>>

-----------------------------------------------------------------------------
(* The files of the project, meanwhile.                                     *)

\* delete_file: the vectors go first ...
DropVectors(f) ==
    /\ Retrieving
    /\ \E c \in vectors : FileOf[c] = f
    /\ vectors' = {c \in vectors : FileOf[c] # f}
    /\ UNCHANGED <<conf, req, pc, legs, ranking, call, answer, rows>>

\*  ... then the file row, and by cascade its chunk rows.
DropRows(f) ==
    /\ Retrieving
    /\ \A c \in vectors : FileOf[c] # f
    /\ \E c \in rows : FileOf[c] = f
    /\ rows' = {c \in rows : FileOf[c] # f}
    /\ UNCHANGED <<conf, req, pc, legs, ranking, call, answer, vectors>>

Files == {FileOf[c] : c \in Chunks}

Next ==
    \/ Arrive \/ RawQuery \/ CondenseQuery \/ ResolveTopK
    \/ OpenCollection \/ VectorLeg \/ FilterVectorIds \/ FtsSearch
    \/ Fuse \/ Rerank \/ HydrateProvenance \/ Floor \/ RetrieveTimeout
    \/ Fit \/ Generate \/ ChatVision
    \/ \E f \in Files : DropVectors(f) \/ DropRows(f)

Spec == Init /\ [][Next]_vars

-----------------------------------------------------------------------------
(* Properties.                                                              *)

\* Every passage in the prompt satisfies the filters of the request: whichever
\* leg found it, whichever service failed on the way and whatever was deleted
\* meanwhile, retrieve() never falls back to unfiltered candidates.
FilteredOnly ==
    \A i \in DOMAIN call.chunks : Passes(call.chunks[i].id, req.filter)

\* _rrf_fuse is fair to its lists: every candidate of a leg is ranked, once; a
\* chunk that no list puts behind another, and one puts before it, comes first;
\* and chunks that have every rank equally often are ordered by content.
Behind(a, b, s) == b \in Range(s) /\ (a \notin Range(s) \/ RankIn(b, s) < RankIn(a, s))
Ranked(c, r, lists) ==
    {l \in DOMAIN lists : c \in Range(lists[l]) /\ RankIn(c, lists[l]) = r}
SameRanks(a, b, lists) ==
    \A r \in 1 .. Cardinality(Chunks) :
        Cardinality(Ranked(a, r, lists)) = Cardinality(Ranked(b, r, lists))
RankedFairly ==
    LET lists == vec \o fts
    IN  fused # <<>> =>
        /\ Range(fused) = Candidates(lists)
        /\ \A i, j \in DOMAIN fused : i < j =>
             /\ fused[i] # fused[j]
             /\ \/ \E l \in DOMAIN lists : Behind(fused[j], fused[i], lists[l])
                \/ \A l \in DOMAIN lists : ~Behind(fused[i], fused[j], lists[l])
             /\ SameRanks(fused[i], fused[j], lists) => Key[fused[i]] <= Key[fused[j]]

\* The floor judges every passage by the best evidence the code counts: a reranked
\* one by its new score, one with a positive cosine under some query by the best
\* of them, and by its keywords only one without such a cosine that the full-text
\* leg found before any vector leg did.  The documents say otherwise of two of these
\* cases: KeywordHitsKept and VectorHitsJudged.
\* What is kept is exactly what is relevant, so the request abstains without
\* calling the model exactly when nothing is.
Best(c) ==
    LET seen == {queries[i].sim[c] : i \in {j \in DOMAIN vec : c \in Range(vec[j])}}
    IN  CHOOSE n \in seen \cup {0} : \A m \in seen : m <= n
Relevant(e) ==
    \/ conf.min = 0
    \/ e.kind = "reranker" /\ e.score >= conf.min
    \/ e.kind = "vector" /\ Best(e.id) >= conf.min
    \/ /\ e.kind = "vector" /\ Best(e.id) = 0
       /\ \E i \in DOMAIN fts : /\ e.id \in Range(fts[i])
                              /\ \A j \in 1 .. i : e.id \notin Range(vec[j])
JudgedOnBestEvidence ==
    /\ pc \in {"fit", "generate"} =>
          kept = At(final, {i \in DOMAIN final : Relevant(final[i])})
    /\ answer = "abstained" => \A i \in DOMAIN final : ~Relevant(final[i])

\* "Keyword-only hits are kept" (apply_min_score, openapi.yaml), reranked or not.
KeywordOnly(c) ==
    /\ \E i \in DOMAIN fts : c \in Range(fts[i])
    /\ \A i \in DOMAIN vec : c \notin Range(vec[i])
KeywordHitsKept ==
    pc = "fit" => \A i \in DOMAIN final :
        KeywordOnly(final[i].id) => final[i] \in Range(kept)

\* "Keyword-only hit: the vector leg never returned it" (RetrievedChunk).
VectorHitsJudged ==
    \A i \in DOMAIN final : final[i].lexical => KeywordOnly(final[i].id)

\* A call of the model fits: unless max_tokens is negative, the prompt and the
\* answer are within the window, with the reserve or all the tokens asked for
\* left for the answer; the passages are the best ones, as many as fit; and a
\* request is rejected as too long only when it does not fit without any.
PromptFits ==
    /\ call # NoCall =>
         LET n == PromptTokens(call.chunks) + call.images
             m == Len(call.chunks)
         IN  /\ req.max > 0 => /\ n + call.max <= NCtx
                               /\ call.max >= Reserve \/ call.max = req.max
             /\ call.chunks = SubSeq(kept, 1, m)
             /\ m < Len(kept) => ~Room(n + Tokens[kept[m + 1].id], req.max)
    /\ answer = "too_long" => ~Room(Base + AllImageTokens(req.images), req.max)

\* "We never let the prompt consume so much of n_ctx that there's no room left
\* to generate" (chat.py, at _MIN_GEN_RESERVE), whatever max_tokens is.
RoomToGenerate ==
    call # NoCall => PromptTokens(call.chunks) + call.images + call.max <= NCtx

=============================================================================
