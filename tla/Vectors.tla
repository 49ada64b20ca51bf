------------------------------ MODULE Vectors ------------------------------
(***************************************************************************)
(* The vectors of photos: the embedding job computes them with the embedder *)
(* that is enabled, stores them beside the photo and in an index, and the   *)
(* search by meaning and by appearance asks the index.                      *)
(*                                                                         *)
(* A vector is the picture it was computed from.  There are two spaces,     *)
(* each with its own model; the index of the first has a fixed width, and   *)
(* only embedders of that width can write to it.                            *)
(***************************************************************************)
EXTENDS Models

CONSTANTS
    Ids, Pictures, People,
    Fits,          \* embedders whose vectors have the width of the index
    Alike,         \* how much two pictures resemble each other, in either space
    Limits,        \* lengths of the page a search is asked for
    Factor, Slack, \* _CANDIDATE_FACTOR, _CANDIDATE_FLOOR
    Pool,          \* rerank.candidate_pool_size
    MinScore,      \* reverse_search.min_score
    SimilarMost,   \* hits get_similar_assets asks for
    SimilarFloor   \* similar_clip_threshold, as the least likeness

VARIABLES
    photo,       \* asset with its ledger row: picture, persons with an instance, favourites, flags
    vec,         \* asset_embedding: a vector for each space
    index,       \* vec_asset_embedding and vec_asset_dino
    dino,        \* a model for the second space is enabled
    task,        \* jobs under way, in the background worker and in the main one
    astray       \* vectors a job has left that read before somebody else wrote
stored == <<photo, vec, index>>
vectors == <<stored, dino, task, astray>>

Spaces == {"semantic", "visual"}
Flags  == Spaces \cup {"classified"}
Lanes == {"background", "main"}
\* asset with asset_instance and pipeline_state.
PhotoRows == [pic : Pictures, people : SUBSET People, favourite : SUBSET People, done : SUBSET Flags]

\* Ids are given out from one; likeness is a number; nothing else is None.
ASSUME IdAssumption    == /\ IsFiniteSet(Ids) /\ Ids \subseteq Nat \ {0}
                          /\ IsFiniteSet(People) /\ People \subseteq Nat \ {0}
ASSUME AlikeAssumption == Alike \in [Pictures -> [Pictures -> Nat]]
ASSUME SearchAssumption ==
    /\ Limits \subseteq Nat \ {0} /\ Factor \in Nat \ {0} /\ {Slack, Pool, MinScore, SimilarMost, SimilarFloor} \subseteq Nat
ASSUME NoneAssumption  == None \notin Pictures /\ None \notin PhotoRows

There == {p \in Ids : photo[p] # None}
Live == {p \in There : photo[p].people # {}}
NoTask == [at |-> "none"]
Free(l) == task[l].at = "none"
Finish(l) == task' = [task EXCEPT ![l] = NoTask]

NewPhoto(pic, people) == [pic |-> pic, people |-> people, favourite |-> {}, done |-> {}]

\* resolve_image_embedder, on rows of which it has disabled all but one.
Embedder(rows) == IF Enabled(rows) = {} THEN None ELSE CHOOSE m \in Enabled(Healed(rows)) : TRUE

(***************************************************************************)
(* The embedding job.                                                       *)
(***************************************************************************)
Marked(p, flags) == [photo EXCEPT ![p].done = @ \cup flags]

\* The embedders and the file are looked up and the picture is read.  A rerun, in the main worker,
\* takes the flag of its step back first, and goes over photos outside the trash.
EmbedStart(l, p, spaces) ==
    LET flag == IF "semantic" \in spaces THEN "semantic" ELSE "visual"
        used == {s \in spaces : IF s = "visual" THEN dino ELSE Embedder(row) # None}
    IN  /\ Free(l) /\ p \in There /\ (l = "main" => p \in Live) /\ Bounded("embeds")
        /\ photo' = IF l = "main" THEN [photo EXCEPT ![p].done = @ \ {flag}] ELSE photo
        /\ row' = Healed(row)
        /\ task' = IF used = {} \/ p \notin Live THEN task
                   ELSE [task EXCEPT ![l] = [at |-> "opened", photo |-> p, pic |-> photo[p].pic,
                                             spaces |-> used, model |-> Embedder(row)]]
        /\ UNCHANGED <<fixed, files, job, deleting, page, ghosts, vec, index, dino, astray>>

\* The job's session loads the photo and its ledger row.
EmbedLook(l) ==
    LET t == task[l]
    IN  /\ t.at = "opened"
        /\ task' = [task EXCEPT ![l] = IF t.photo \notin There THEN NoTask
                                       ELSE [at |-> "loaded", photo |-> t.photo, pic |-> t.pic,
                                             spaces |-> t.spaces, model |-> t.model,
                                             hash |-> photo[t.photo].pic, done |-> photo[t.photo].done]]
        /\ UNCHANGED <<vars, stored, dino, astray>>

Put(store, t) == [s \in Spaces |-> IF s \in t.spaces THEN [store[s] EXCEPT ![t.photo] = t.pic] ELSE store[s]]

\* set_semantic, upsert_embedding and the same of the second space.
Embedded(t) == [vec |-> Put(vec, t), index |-> Put(index, t)]

\* One transaction from the first vector to the commit.  Vectors of another width do not go into the
\* index; flags the session has seen set are not written; a ledger row that has gone with its photo
\* fails the commit.  That the photo itself is gone is not noticed: the session answers from what it
\* has loaded.
EmbedWrite(l) ==
    LET t      == task[l]
        owners == {q \in There : photo[q].pic = t.hash}
        flags  == t.spaces \ t.done
        fails  == ("semantic" \in t.spaces /\ t.model \notin Fits) \/ (flags # {} /\ owners = {})
        own    == t.photo \in There /\ photo[t.photo].pic = t.pic
        lost   == (flags \X owners) \ (t.spaces \X {t.photo})
    IN  /\ t.at = "loaded" /\ Finish(l)
        /\ IF fails THEN UNCHANGED <<stored, astray>>
           ELSE /\ vec' = Embedded(t).vec /\ index' = Embedded(t).index
                /\ photo' = [q \in Ids |-> IF q \in owners THEN Marked(q, flags)[q] ELSE photo[q]]
                /\ astray' = lost \cup (IF own THEN astray \ (t.spaces \X {t.photo})
                                      ELSE astray \cup (t.spaces \X {t.photo}))
        /\ UNCHANGED <<vars, dino>>

\* A model fails, or the database stays locked: both spaces are rolled back.
EmbedFails(l) == task[l].at \in {"opened", "loaded"} /\ Bounded("breaks") /\ Finish(l)
                 /\ UNCHANGED <<fixed, files, row, job, deleting, page, ghosts, stored, dino, astray>>

\* rebuild_index reads all vectors of the first space, and then writes the index anew.
RebuildLoad ==
    /\ Free("main") /\ Bounded("rebuilds")
    /\ task' = [task EXCEPT !["main"] = [at |-> "rebuild", vectors |-> vec["semantic"]]]
    /\ UNCHANGED <<fixed, files, row, job, deleting, page, ghosts, stored, dino, astray>>

RebuildWrite ==
    LET read == task["main"].vectors
    IN  /\ task["main"].at = "rebuild" /\ Finish("main")
        /\ index' = [index EXCEPT !["semantic"] = read]
        /\ astray' = astray \cup {<<"semantic", p>> : p \in {q \in Ids : read[q] # vec["semantic"][q]}}
        /\ UNCHANGED <<vars, photo, vec, dino>>

(***************************************************************************)
(* Photos come and go (ids are given out again).                            *)
(***************************************************************************)
ImportPhoto(pic, who) ==
    LET p == 1 + Max({0} \cup There)
    IN  /\ p \in Ids /\ (\A q \in There : photo[q].pic # pic) /\ Bounded("imports")
        /\ photo' = [photo EXCEPT ![p] = NewPhoto(pic, {who})]
        /\ UNCHANGED <<fixed, files, row, job, deleting, page, ghosts, vec, index, dino, task, astray>>

TrashAll(p) ==
    /\ p \in Live /\ Bounded("purges")
    /\ photo' = [photo EXCEPT ![p].people = {}]
    /\ UNCHANGED <<fixed, files, row, job, deleting, page, ghosts, vec, index, dino, task, astray>>

Gone(store, p) == [s \in Spaces |-> [store[s] EXCEPT ![p] = None]]

Purged(p) == [vec |-> Gone(vec, p), index |-> Gone(index, p)]

\* The last instance goes from the trash, and with it the photo, its ledger row and its vectors.
PurgePhoto(p) ==
    /\ p \in There \ Live
    /\ photo' = [photo EXCEPT ![p] = None]
    /\ vec' = Purged(p).vec /\ index' = Purged(p).index
    /\ astray' = astray \ (Spaces \X {p})
    /\ UNCHANGED <<vars, dino, task>>

(***************************************************************************)
(* Search.                                                                  *)
(***************************************************************************)
\* p resembles the picture more than q does, by the vectors of `store'.
Nearer(pic, store, p, q) ==
    LET x == Alike[pic][store[p]]
        y == Alike[pic][store[q]]
    IN  x > y \/ (x = y /\ p < q)

\* The first n of s in the order that `before' gives.
Topmost(s, before(_, _), n) == {p \in s : Cardinality({q \in s : before(q, p)}) < n}

\* The index answers from all that is in it, of the trash as well.
Indexed == {p \in Ids : index["semantic"][p] # None}
Closest(pic, n) == Topmost(Indexed, LAMBDA p, q : Nearer(pic, index["semantic"], p, q), n)

\* Mutant: the index is asked for as many as the page shows.
CandidatesShown(limit, ranked) == limit

\* How many the index is asked for, so that some of them can be left out.
Candidates(limit, ranked) == Max({limit * Factor, limit + Slack} \cup (IF ranked THEN {Pool} ELSE {}))

\* _rerank_pool: by appearance those that have a vector of the second space, then the others as they
\* were.
Ahead(pic, look, p, q) ==
    LET seen(r) == look # None /\ vec["visual"][r] # None
    IN  \/ seen(p) /\ ~seen(q)
        \/ seen(p) /\ seen(q) /\ Nearer(look, vec["visual"], p, q)
        \/ ~seen(p) /\ ~seen(q) /\ Nearer(pic, index["semantic"], p, q)

\* Of the candidates those the search is for, re-ranked by `look' unless that is None, and the first
\* of them.
Found(pic, look, sought, limit) ==
    Topmost(Closest(pic, Candidates(limit, look # None)) \cap sought, LAMBDA p, q : Ahead(pic, look, p, q), limit)

\* semantic_search for photos like one: those outside the trash but for itself; re-ranking may be
\* switched off.
LikePhoto(p, limit, ranks) ==
    IF vec["semantic"][p] = None THEN {}
    ELSE Found(vec["semantic"][p], IF ranks THEN vec["visual"][p] ELSE None, Live \ {p}, limit)

\* search_by_image, for a picture of which nothing is stored: what resembles it too little is not shown.
LikeImage(pic, limit, ranks) ==
    IF Embedder(row) \notin Fits THEN {}
    ELSE Found(pic, IF ranks /\ dino THEN pic ELSE None,
               {q \in Live \cap Indexed : Alike[pic][index["semantic"][q]] >= MinScore}, limit)

\* get_similar_assets, if it is switched on: photos that are there, the trash included.
SimilarTo(p, on) ==
    IF ~on \/ vec["semantic"][p] = None THEN {}
    ELSE {q \in Closest(vec["semantic"][p], SimilarMost) \ {p} :
             q \in There /\ Alike[vec["semantic"][p]][index["semantic"][q]] >= SimilarFloor}

(***************************************************************************)
(* All together.                                                            *)
(***************************************************************************)
VectorSteps ==
    \/ \E l \in Lanes : \/ EmbedLook(l) \/ EmbedWrite(l) \/ EmbedFails(l)
                        \/ \E p \in Ids : \E spaces \in {Spaces} \cup (IF l = "main" THEN {{"visual"}} ELSE {}) :
                              EmbedStart(l, p, spaces)
    \/ RebuildLoad \/ RebuildWrite
    \/ \E pic \in Pictures, who \in People : ImportPhoto(pic, who)
    \/ \E p \in Ids : TrashAll(p) \/ PurgePhoto(p)

(***************************************************************************)
(* Properties.                                                              *)
(***************************************************************************)
\* The index says what is stored beside the photo, and that is the vector of the photo's own picture.
IndexFollows ==
    \A s \in Spaces, p \in Ids : <<s, p>> \notin astray =>
        /\ index[s][p] = vec[s][p]
        /\ vec[s][p] # None => p \in There /\ photo[p].pic = vec[s][p]
        /\ p \in There /\ s \in photo[p].done => vec[s][p] # None

\* Those with a vector that resemble the picture at least so much.
Resembling(pic, least) == {q \in Ids : vec["semantic"][q] # None /\ Alike[pic][vec["semantic"][q]] >= least}

\* How many photos a search can pass over and still fill its page.
Spare(limit) == Max({limit * (Factor - 1), Slack})

\* Of those sought one is missing only if the page is full, or if more photos that are not sought are
\* nearer than the search can pass over; and without re-ranking the nearest are found.
Finds(found, pic, look, sought, limit) ==
    /\ found \subseteq sought
    /\ \A q \in sought \ found :
          /\ \/ Cardinality(found) = limit
             \/ Cardinality({d \in Resembling(pic, 0) \ sought : Nearer(pic, vec["semantic"], d, q)}) > Spare(limit)
          /\ look = None => \A d \in found : Nearer(pic, vec["semantic"], d, q)

\* By a photo, by a picture from elsewhere; and the list of similar photos holds those of the trash
\* too, as far as the index is asked for them.
FindsNearest ==
    astray = {} =>
       /\ \A p \in There, limit \in Limits, ranks \in BOOLEAN : vec["semantic"][p] # None =>
             Finds(LikePhoto(p, limit, ranks), vec["semantic"][p], IF ranks THEN vec["visual"][p] ELSE None,
                   (Resembling(vec["semantic"][p], 0) \cap Live) \ {p}, limit)
       /\ \A pic \in Pictures, limit \in Limits, ranks \in BOOLEAN : Embedder(row) \in Fits =>
             Finds(LikeImage(pic, limit, ranks), pic, IF ranks /\ dino THEN pic ELSE None,
                   Resembling(pic, MinScore) \cap Live, limit)
       /\ \A p \in There : vec["semantic"][p] # None =>
             LET pic == vec["semantic"][p]
             IN  SimilarTo(p, TRUE) = {q \in Resembling(pic, SimilarFloor) \ {p} :
                    Cardinality({d \in Resembling(pic, 0) : Nearer(pic, vec["semantic"], d, q)}) < SimilarMost}

\* The vectors of the library stay true while jobs of both workers embed and rebuild, and photos
\* come and go (embedding_job.py, vector_index.py, purge in moves.py): index and photo agree, no
\* photo counts as embedded that is not, nothing of a purged photo is left, and a search fills its
\* page with photos outside the trash though the index, which also holds the trash, is asked for no
\* more than a number of candidates: the over-fetch (api/search.py:34) suffices for as many hidden
\* photos as it is wide. Not so for what a job leaves that was overtaken by a purge or, in case of a
\* rebuild, by any change.
SearchTrue == IndexFollows /\ FindsNearest
=============================================================================
