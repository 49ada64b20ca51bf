------------------------------ MODULE Curation ------------------------------
(***************************************************************************)
(* Albums, tags, captions and duplicates beside the knowledge base.         *)
(*                                                                         *)
(* The members of a smart album are rows, put in by hand or by an           *)
(* evaluation of its triggers.  Who changes what triggers look at puts a    *)
(* re-evaluation on the main queue of the backend, which works them off one *)
(* after the other; the tagger and the captioner evaluate their photo       *)
(* themselves, in the worker process and beside it.                         *)
(***************************************************************************)
EXTENDS Knowledge, Sequences, SequencesExt

CONSTANTS
    Albums, Tags,
    Words,         \* phrases of caption triggers, which are captions as well
    Shelves,       \* initial albums, members, tags and captions
    MaxRow         \* row ids of review_item

VARIABLES
    album,       \* kind, match mode and triggers
    items,       \* collection_item: source of the member, or "no"
    tag,         \* asset_tag
    alias,       \* tag.alias_of
    caption,     \* text, and whether the user has edited it
    active,      \* photos with an instance outside the trash
    queue,       \* re-evaluations and scans that wait on the main queue
    eval,        \* evaluations under way, on the main queue and in the worker process
    captioner,   \* the caption job under way
    review,       \* review_item, by id
    listed,       \* pairs a page has been told of, with the id of the row they had then
    scan,        \* the scan for duplicates under way
    deciding,    \* decisions under way
    decided,     \* pairs whose row a decision has reached
    stale        \* members nothing has evaluated since their triggers' subject changed
curated == <<album, items, tag, alias, caption, active, queue, eval, captioner, review, listed, scan, deciding, decided, stale>>
shelf   == <<album, items, tag, alias, caption>>
jobs    == <<queue, eval, captioner, scan>>
dupes   == <<review, listed, deciding, decided>>

Triggers == [type : {"tag"}, arg : Tags, negate : BOOLEAN] \cup [type : {"caption"}, arg : Words, negate : BOOLEAN]
              \cup [type : {"person"}, arg : People, negate : BOOLEAN]

AlbumSet == [kind : {"none", "smart", "plain"}, mode : {"any", "all"}, triggers : SUBSET Triggers]
Marks == {"no", "auto", "manual", "rejected", "hidden"}
Captions == [text : Words \cup {""}, edited : BOOLEAN]

\* The shelves hold albums, tags and captions.
ShelvesAssumption ==
    /\ Shelves # {}
    /\ \A s \in Shelves : /\ s.album \in [Albums -> AlbumSet] /\ s.tag \in [Photos -> [Tags -> Marks]]
                           /\ s.caption \in [Photos -> Captions]
ASSUME ShelvesAssumption

\* There is an end to the photos.
PhotosAssumption == IsFiniteSet(Photos)
ASSUME PhotosAssumption

MaxRowAssumption == MaxRow \in Nat
ASSUME MaxRowAssumption

Places == Albums \X Photos
NoAlbum == [kind |-> "none", mode |-> "any", triggers |-> {}]
Smart == {al \in Albums : album[al].kind = "smart"}

(***************************************************************************)
(* Triggers (collections/engine.py).                                        *)
(***************************************************************************)
\* A tag counts when it was not removed by hand, for its direct aliases too.
Has(p, t) == \E u \in {t} \cup {v \in Tags : alias[v] = t} : tag[p][u] \in {"auto", "manual"}

\* _trigger_match_ids
Hit(t, p) ==
    CASE t.type = "tag"     -> Has(p, t.arg)
      [] t.type = "caption" -> caption[p].text = t.arg
      [] OTHER              -> t.arg \in shows[p]

\* compute_smart_members
Matches(al, p) ==
    LET positive == {t \in album[al].triggers : ~t.negate}
    IN  /\ p \in active /\ positive # {}
        /\ IF album[al].mode = "all" THEN \A t \in positive : Hit(t, p) ELSE \E t \in positive : Hit(t, p)
        /\ \A t \in album[al].triggers : t.negate => ~Hit(t, p)

Wanted == {x \in Places : album[x[1]].kind = "smart" /\ Matches(x[1], x[2])}

\* Everything an action may change without asking for an evaluation, but for what it asks for.
Unasked(asked) == stale' = stale \cup {x \in Places \ asked : (x \in Wanted) # (x \in Wanted')}
Of(photos) == Albums \X photos

\* What requests and evaluations under way will bring up to date.
Asked(request) == CASE request[1] = "photo" -> Of({request[2]}) [] request[1] = "album" -> {request[2]} \X Photos [] OTHER -> {}
Under(e) == CASE e.at \in {"wants", "seen"} -> e.over [] e.at = "start" -> Of({e.photo}) [] OTHER -> {}
Queued == UNION {Asked(queue[i]) : i \in DOMAIN queue}
Pending == Queued \cup UNION {Under(eval[e]) : e \in DOMAIN eval}

\* What evaluations under way will write by what they have read before.
Over(e) == IF e.at \in {"wants", "seen"} THEN e.over ELSE {}
Running == UNION {Over(eval[e]) : e \in DOMAIN eval}

\* A request for each photo, one after the other.
ForPhotos(photos) == SetToSeq({<<"photo", p>> : p \in photos})

(***************************************************************************)
(* Evaluations: what the triggers want is read first, then the rows, and     *)
(* the changes are committed last.                                          *)
(***************************************************************************)
NoEval == [at |-> "none"]
Scope(request) ==
    IF request[1] = "photo" THEN Smart \X {request[2]}
    ELSE {x \in Places : x[1] = request[2] /\ x[1] \in Smart}

EvalRead(e, request) ==
    eval' = [eval EXCEPT ![e] = [at |-> "wants", over |-> Scope(request), wants |-> Scope(request) \cap Wanted,
                                 seen |-> items, beside |-> {}]]

\* run_reevaluate_assets_job and run_reevaluate_collection_job
EvalNext ==
    /\ queue # <<>> /\ eval.main.at = "none" /\ scan = "no"
    /\ queue' = Tail(queue)
    /\ IF Head(queue)[1] \in {"purge", "compare"}
       THEN /\ scan' = Head(queue)[1] /\ UNCHANGED eval
       ELSE /\ EvalRead("main", Head(queue)) /\ UNCHANGED scan
    /\ UNCHANGED <<shelf, active, captioner, dupes, stale>>

EvalLook(e) ==
    /\ eval[e].at = "wants"
    /\ eval' = [eval EXCEPT ![e].at = "seen", ![e].seen = items]
    /\ UNCHANGED <<shelf, active, queue, captioner, scan, dupes, stale>>

\* Mutant: what does not match goes, whoever put it there.
DroppedAny(e) == {x \in e.over \ e.wants : e.seen[x] # "no"}

\* Members that do not match any more; rows put in by hand stay.
Dropped(e) == {x \in e.over \ e.wants : e.seen[x] = "smart"}

\* Mutant: only what has come to match is brought up to date.
EvaluatedAdding(e) ==
    [x \in Places |-> IF x \in e.wants /\ e.seen[x] = "no" /\ items[x] = "no" THEN "smart" ELSE items[x]]

\* evaluate_asset and evaluate_collection: a row that is there already is kept as it is.
Evaluated(e) ==
    [x \in Places |-> IF x \in Dropped(e) THEN "no"
                      ELSE IF x \in e.wants /\ e.seen[x] = "no" /\ items[x] = "no" THEN "smart" ELSE items[x]]

Besides(k, places) == IF k.at \in {"wants", "seen"} THEN [k EXCEPT !.beside = @ \cup places] ELSE k

\* What is wrong for good, as no request follows: rows the one writes by what it read before the
\* other wrote.
EvalCommit(e) ==
    /\ eval[e].at = "seen"
    /\ items' = Evaluated(eval[e])
    /\ LET k     == eval[e]
           wrong == {x \in k.over : IF x \in Wanted THEN items'[x] = "no" ELSE items'[x] = "smart"}
           overtaken == {x \in wrong : IF e = "main" THEN x \in k.beside
                                       ELSE (x \in Wanted) # (x \in k.wants) \/ items[x] # k.seen[x]}
       IN  /\ stale' = (stale \ (k.over \ wrong)) \cup overtaken
           /\ eval' = [o \in DOMAIN eval |-> IF o = e THEN NoEval ELSE Besides(eval[o], k.over)]
    /\ UNCHANGED <<album, tag, alias, caption, active, queue, captioner, scan, dupes>>

(***************************************************************************)
(* Albums (api/collections.py).                                             *)
(***************************************************************************)
Ask(requests) == queue' = queue \o requests
AskAlbum(al) == Ask(<<<<"album", al>>>>)

\* create_collection, which may get the id of one that was deleted, and the rows left behind with it.
CreateAlbum(al) ==
    /\ album[al].kind = "none" /\ Bounded("albums")
    /\ \E kind \in {"smart", "plain"}, mode \in {"any", "all"} :
          album' = [album EXCEPT ![al] = [kind |-> kind, mode |-> mode, triggers |-> {}]]
    /\ UNCHANGED <<items, tag, alias, caption, active, jobs, dupes, stale>>

\* Turned off, a smart album keeps what was put in by hand.
WithKind(al, kind) ==
    [x \in Places |-> IF x[1] = al /\ album[al].kind = "smart" /\ kind # "smart" /\ items[x] = "smart" THEN "no"
                      ELSE items[x]]

\* An evaluation under way may fill an album again, also one that gets the id of a deleted one.
Emptied(al) == {x \in stale : x[1] # al} \cup {x \in Running : x[1] = al}

\* update_collection
UpdateAlbum(al) ==
    /\ album[al].kind # "none" /\ Bounded("albums")
    /\ \E kind \in {"smart", "plain"}, mode \in {"any", "all"} :
          LET changed == album[al].kind # kind \/ album[al].mode # mode
          IN  /\ changed
              /\ album' = [album EXCEPT ![al].kind = kind, ![al].mode = mode]
              /\ items' = WithKind(al, kind)
              /\ IF kind = "smart" THEN AskAlbum(al) ELSE UNCHANGED queue
              /\ stale' = IF album[al].kind = "smart" /\ kind # "smart" THEN Emptied(al) ELSE stale
    /\ UNCHANGED <<tag, alias, caption, active, eval, captioner, scan, dupes>>

\* delete_collection
DeleteAlbum(al) ==
    /\ album[al].kind # "none" /\ Bounded("albums")
    /\ album' = [album EXCEPT ![al] = NoAlbum]
    /\ items' = [x \in Places |-> IF x[1] = al THEN "no" ELSE items[x]]
    /\ stale' = Emptied(al)
    /\ UNCHANGED <<tag, alias, caption, active, jobs, dupes>>

\* add_trigger, update_trigger and delete_trigger
ChangeTrigger(al) ==
    /\ album[al].kind # "none" /\ Bounded("albums")
    /\ \E old \in SUBSET album[al].triggers, new \in SUBSET Triggers :
          /\ Cardinality(old) < 2 /\ Cardinality(new) < 2 /\ old # new
          /\ old # {} /\ new # {} => \A t \in old, u \in new : u = [t EXCEPT !.negate = ~@]
          /\ new \cap album[al].triggers = {}
          /\ album' = [album EXCEPT ![al].triggers = (@ \ old) \cup new]
    /\ AskAlbum(al)
    /\ UNCHANGED <<items, tag, alias, caption, active, eval, captioner, scan, dupes, stale>>

\* add_items: by hand wins over an evaluation.
AddItem(x) ==
    /\ album[x[1]].kind # "none" /\ items[x] # "manual" /\ Bounded("albums")
    /\ items' = [items EXCEPT ![x] = "manual"]
    /\ UNCHANGED <<album, tag, alias, caption, active, jobs, dupes, stale>>

\* remove_item; what still matches comes back with the next evaluation.
RemoveItem(x) ==
    /\ items[x] # "no" /\ Bounded("albums")
    /\ items' = [items EXCEPT ![x] = "no"]
    /\ stale' = IF x \in Wanted THEN stale \cup {x} ELSE stale \ ({x} \ Running)
    /\ UNCHANGED <<album, tag, alias, caption, active, jobs, dupes>>

\* reevaluate_collection
Reevaluate(al) ==
    /\ album[al].kind # "none" /\ Bounded("albums")
    /\ AskAlbum(al)
    /\ UNCHANGED <<shelf, active, eval, captioner, scan, dupes, stale>>

(***************************************************************************)
(* Tags and captions (api/tags.py, api/assets.py, tagging_job.py,            *)
(* caption_job.py).                                                         *)
(***************************************************************************)
\* _upsert_tag: an alias stands for its canonical tag, one level deep.
Canonical(t) == IF alias[t] = None THEN t ELSE alias[t]

\* bulk_tag and patch_asset_tags
Added(p, t)   == [tag EXCEPT ![p][Canonical(t)] = "manual"]
Removed(p, t) == [tag EXCEPT ![p][t] = CASE @ = "auto" -> "rejected" [] @ \in {"manual", "hidden"} -> "no" [] OTHER -> @]
TagPhoto(p, t) ==
    /\ Bounded("tags")
    /\ tag' \in {Added(p, t), Removed(p, t)}
    /\ Ask(ForPhotos({p}))
    /\ UNCHANGED <<album, items, alias, caption, active, eval, captioner, scan, dupes, stale>>

\* A row that is there for both tags keeps being listed or not, and by hand wins over the tagger.
Together(from, into) ==
    CASE from = "no"   -> into
      [] from # "no" /\ into = "no" -> from
      [] from \in {"manual", "hidden"} /\ into # "no" -> IF into \in {"rejected", "hidden"} THEN "hidden" ELSE "manual"
      [] OTHER         -> into
Repointed(s, c) == [p \in Photos |-> [tag[p] EXCEPT ![s] = "no", ![c] = Together(tag[p][s], @)]]
Tagged(s) == {p \in Photos : tag[p][s] # "no"}

\* merge_tags, and set_tag_aliases for a name that is not an alias yet: the photos whose rows move are
\* evaluated, those whose aliases of the merged tag no longer count are not.
MergeTags(s, c) ==
    /\ s # c /\ Bounded("tags")
    /\ tag' = Repointed(s, c)
    /\ alias' = [alias EXCEPT ![s] = c]
    /\ Ask(ForPhotos(Tagged(s)))
    /\ UNCHANGED <<album, items, caption, active, eval, captioner, scan, dupes>>
    /\ Unasked(Of(Tagged(s)))

\* set_tag_aliases without a name it had.
Dealias(t) ==
    /\ alias[t] # None /\ Bounded("tags")
    /\ alias' = [alias EXCEPT ![t] = None]
    /\ UNCHANGED <<album, items, tag, caption, active, jobs, dupes>>
    /\ Unasked({})

\* _run_tagging_inner: what the user has put or removed stays; then the photo is evaluated.
TagJob(p) ==
    /\ eval.lane.at = "none" /\ p \in active /\ Bounded("lanes")
    /\ \E hits \in SUBSET Tags :
          tag' = [tag EXCEPT ![p] = [t \in Tags |->
                    IF @[t] \in {"manual", "rejected", "hidden"} THEN @[t] ELSE IF t \in hits THEN "auto" ELSE "no"]]
    /\ eval' = [eval EXCEPT !.lane = [at |-> "start", photo |-> p]]
    /\ UNCHANGED <<album, items, alias, caption, active, queue, captioner, scan, dupes>>
    /\ Unasked(Of({p}))

\* The photo a lane has changed is read once the change is committed.
LaneRead ==
    /\ eval.lane.at = "start"
    /\ EvalRead("lane", <<"photo", eval.lane.photo>>)
    /\ UNCHANGED <<shelf, active, queue, captioner, scan, dupes, stale>>

\* patch_asset_caption
EditCaption(p) ==
    /\ Bounded("captions")
    /\ \E w \in Words \cup {""} : caption' = [caption EXCEPT ![p] = [text |-> w, edited |-> TRUE]]
    /\ Ask(ForPhotos({p}))
    /\ UNCHANGED <<album, items, tag, alias, active, eval, captioner, scan, dupes, stale>>

\* _run_caption_with_preset_inner: whether the user has edited the caption is asked before the model
\* runs, and not again when its result is written.
CaptionLook(p, force) ==
    /\ captioner = None /\ p \in active /\ Bounded("lanes")
    /\ ~caption[p].edited \/ force
    /\ captioner' = [photo |-> p, force |-> force, edited |-> caption[p].edited]
    /\ UNCHANGED <<shelf, active, queue, eval, scan, dupes, stale>>

CaptionWrite ==
    /\ captioner # None /\ eval.lane.at = "none" /\ captioner' = None
    /\ \/ UNCHANGED <<caption, eval>>     \* the model had nothing to say
       \/ LET p == captioner.photo
          IN  /\ \E w \in Words : caption' = [caption EXCEPT ![p] = [text |-> w, edited |-> @.edited /\ ~captioner.force]]
              /\ eval' = [eval EXCEPT !.lane = [at |-> "start", photo |-> p]]
    /\ UNCHANGED <<album, items, tag, alias, active, queue, scan, dupes, stale>>

(***************************************************************************)
(* Duplicates (api/review.py, dupe_scan_job.py, embedding_job.py) and the    *)
(* trash.  Rows of pairs and suggestions for faces share a table, and a row  *)
(* gets the id after the last, so ids of rows that went are used again.      *)
(***************************************************************************)
Pairs == {d \in SUBSET Photos : Cardinality(d) = 2}
Faces == {{p} : p \in Photos}
ReviewIds == 1..MaxRow
ReviewItems == [of : Pairs \cup Faces, at : {"open", "auto", "resolved"}]
NoItem == [of |-> {}, at |-> "none"]

HasRow(i, d)  == review[i] # NoItem /\ review[i].of = d
Unresolved(i) == review[i] # NoItem /\ review[i].of \in Pairs /\ review[i].at = "open"

\* Rows for some of these, in any order; a pair that has a row, resolved or not, gets none.
UnusedIds == {i \in ReviewIds : \A j \in ReviewIds : j >= i => review[j] = NoItem}
NewRows(things) ==
    \E ids \in SUBSET UnusedIds : \E of \in [ids -> things] :
        /\ \A i, j \in ids : of[i] = of[j] => i = j
        /\ \A i \in ids, j \in UnusedIds \ ids : i < j
        /\ review' = [i \in ReviewIds |-> IF i \in ids THEN [of |-> of[i], at |-> "open"] ELSE review[i]]
NewPairs == {d \in Pairs : \A i \in ReviewIds : ~HasRow(i, d)}

\* enqueue_dupe_scan, of the whole library or of photos the user has chosen.
StartScan ==
    /\ Bounded("scans")
    /\ \E first \in {"purge", "compare"} : Ask(<<<<first>>>>)
    /\ UNCHANGED <<shelf, active, eval, captioner, scan, dupes, stale>>

Cleared == [i \in ReviewIds |-> IF Unresolved(i) THEN NoItem ELSE review[i]]

\* run_dupe_scan_job: it compares between its two transactions, and a scan of chosen photos purges nothing.
ScanPurge ==
    /\ scan = "purge" /\ review' = Cleared /\ scan' = "compare"
    /\ UNCHANGED <<shelf, active, queue, eval, captioner, listed, deciding, decided, stale>>

ScanInsert ==
    /\ scan = "compare" /\ scan' = "no" /\ NewRows(NewPairs)
    /\ UNCHANGED <<shelf, active, queue, eval, captioner, listed, deciding, decided, stale>>

\* _check_for_dupes: a photo the worker process has embedded.
EmbedInsert(p) ==
    /\ Bounded("scans") /\ NewRows({d \in NewPairs : p \in d})
    /\ UNCHANGED <<shelf, active, jobs, listed, deciding, decided, stale>>

\* What a job suggests for the face of a photo, one at a time (clustering_job.py).
Suggest(p) ==
    /\ Bounded("scans") /\ \A i \in ReviewIds : HasRow(i, {p}) => review[i].at # "open"
    /\ NewRows({{p}})
    /\ UNCHANGED <<shelf, active, jobs, listed, deciding, decided, stale>>

\* A handler keeps the event loop but where it waits for a file to be moved.
LoopFree == \A k \in deciding : k.at = "moving"

\* resolve_face_review
AnswerFace(i) ==
    /\ LoopFree /\ review[i] # NoItem /\ review[i].of \in Faces /\ review[i].at = "open"
    /\ review' = [review EXCEPT ![i].at = "resolved"]
    /\ UNCHANGED <<shelf, active, jobs, listed, deciding, decided, stale>>

\* list_dupe_pairs: pairs with a photo in the trash are resolved, for good.
ListPairs ==
    /\ LoopFree
    /\ review' = [i \in ReviewIds |-> IF Unresolved(i) /\ ~(review[i].of \subseteq active) THEN [of |-> review[i].of, at |-> "auto"]
                               ELSE review[i]]
    /\ listed' = listed \cup {<<i, review[i].of>> : i \in {j \in ReviewIds : Unresolved(j) /\ review[j].of \subseteq active}}
    /\ UNCHANGED <<shelf, active, jobs, deciding, decided, stale>>

\* clear_dupe_candidates
ClearPairs ==
    /\ LoopFree /\ Bounded("scans") /\ review' = Cleared
    /\ UNCHANGED <<shelf, active, jobs, listed, deciding, decided, stale>>

\* resolve_dupe: the row with the id a page has been told, also one that is resolved already or has
\* become another's; a photo in the trash already is not moved again.
Decide(i, meant) ==
    /\ LoopFree /\ Bounded("resolves")
    /\ <<i, meant>> \in listed /\ review[i] # NoItem
    /\ \E gone \in {{}} \cup {{p} : p \in review[i].of \cap active} :
          deciding' = deciding \cup
              {[id |-> i, meant |-> meant, gone |-> gone, at |-> IF gone = {} THEN "writing" ELSE "moving"]}
    /\ UNCHANGED <<shelf, active, jobs, review, listed, decided, stale>>

\* soft_delete commits by itself.
DecideMoved(k) ==
    /\ LoopFree /\ k.at = "moving"
    /\ active' = active \ k.gone
    /\ deciding' = (deciding \ {k}) \cup {[k EXCEPT !.at = "writing"]}
    /\ UNCHANGED <<shelf, jobs, review, listed, decided>>
    /\ Unasked({})

\* The row is found again by its id; when a scan has purged it, the request fails.
DecideWrite(k) ==
    /\ k.at = "writing" /\ deciding' = deciding \ {k}
    /\ \/ review[k.id] = NoItem /\ UNCHANGED <<review, decided>>
       \/ /\ review[k.id] # NoItem
          /\ review' = [review EXCEPT ![k.id].at = "resolved"]
          /\ decided' = IF HasRow(k.id, k.meant) THEN decided \cup {k.meant} ELSE decided
    /\ UNCHANGED <<shelf, active, jobs, listed, stale>>

\* list_collection_duplicates and resolve_collection_duplicate: which pair was meant is kept nowhere.
AlbumPairs(al) == {d \in Pairs : d \subseteq active /\ \A p \in d : items[<<al, p>>] # "no"}
DropDuplicate(al) ==
    /\ album[al].kind # "none" /\ Bounded("trash")
    /\ \E d \in AlbumPairs(al) : \E p \in d : active' = active \ {p}
    /\ UNCHANGED <<shelf, jobs, dupes>>
    /\ Unasked({})

\* soft_delete and restore of the only instance: no album is evaluated.
Trash(p) ==
    /\ Bounded("trash")
    /\ active' = IF p \in active THEN active \ {p} ELSE active \cup {p}
    /\ UNCHANGED <<shelf, jobs, dupes>>
    /\ Unasked({})

(***************************************************************************)
(* Together with persons and the knowledge base.                            *)
(***************************************************************************)
\* _resolve_person_smart_triggers
TriggersAfter(gone) ==
    [al \in Albums |-> [album[al] EXCEPT !.triggers = {t \in @ : t.arg \notin gone}]]

\* Photos whose persons change are evaluated, except when clustering or the rejection of a suggestion
\* changes them; photos a deleted person is not on are not, although the triggers change for them too.
Follow ==
    LET changed == {p \in Photos : shows'[p] # shows[p]}
    IN  /\ album' = TriggersAfter(people \ people')
        /\ UNCHANGED <<items, tag, alias, caption, active, eval, captioner, dupes, scan>>
        /\ \/ Ask(ForPhotos(changed)) /\ Unasked(Of(changed))
           \/ changed # {} /\ people' = people /\ UNCHANGED queue /\ Unasked({})

\* With the backend goes the queue; what is under way in the worker process goes with it.
Stopped ==
    /\ queue' = <<>> /\ eval' = [e \in {"main", "lane"} |-> NoEval] /\ captioner' = None /\ scan' = "no"
    /\ deciding' = {}
    /\ stale' = stale \cup Pending
    /\ UNCHANGED <<shelf, active, review, listed, decided>>

CInit ==
    /\ Init
    /\ alias = [t \in Tags |-> None] /\ active = Photos /\ queue = <<>>
    /\ eval = [e \in {"main", "lane"} |-> NoEval] /\ captioner = None
    /\ review = [i \in ReviewIds |-> NoItem] /\ listed = {} /\ scan = "no" /\ deciding = {} /\ decided = {} /\ stale = {}
    /\ \E s \in IF mayCall = {} THEN Shelves ELSE {CHOOSE s \in Shelves : TRUE} :
          /\ album = s.album /\ tag = s.tag /\ caption = s.caption
          /\ items = [x \in Places |-> IF x \in s.put THEN "manual" ELSE IF x \in Wanted THEN "smart" ELSE "no"]

Bound ==
    \/ \E al \in Albums : CreateAlbum(al) \/ UpdateAlbum(al) \/ DeleteAlbum(al) \/ ChangeTrigger(al) \/ Reevaluate(al)
                           \/ DropDuplicate(al)
    \/ \E x \in Places : AddItem(x) \/ RemoveItem(x)
    \/ \E p \in Photos, t \in Tags : TagPhoto(p, t)
    \/ \E s, c \in Tags : MergeTags(s, c)
    \/ \E t \in Tags : Dealias(t)
    \/ \E p \in Photos : TagJob(p) \/ EditCaption(p) \/ Trash(p) \/ EmbedInsert(p) \/ Suggest(p)
    \/ \E p \in Photos, force \in BOOLEAN : CaptionLook(p, force)
    \/ StartScan \/ ClearPairs
    \/ \E i \in ReviewIds, d \in Pairs : Decide(i, d)

Free ==
    \/ EvalNext \/ LaneRead \/ CaptionWrite
    \/ \E e \in DOMAIN eval : EvalLook(e) \/ EvalCommit(e)
    \/ ScanPurge \/ ScanInsert \/ ListPairs
    \/ \E i \in ReviewIds : AnswerFace(i)
    \/ \E k \in deciding : DecideMoved(k) \/ DecideWrite(k)

CNext ==
    \/ Step /\ Follow
    \/ Crash /\ Stopped
    \/ UNCHANGED base /\ Bound
    \/ UNCHANGED vars /\ Free

CSpec == CInit /\ [][CNext]_<<vars, curated>>

(***************************************************************************)
(* Properties                                                               *)
(***************************************************************************)
\* Whatever changes the triggers of a smart album or what they look at, its members are those that
\* match, and what the user has put in, once the requests that cover them are worked off; but for the
\* changes nobody asks an evaluation for, what the user took out, requests lost with the backend,
\* evaluations of the worker process that were overtaken, and evaluations under way when their album
\* was emptied (collections/engine.py and its callers).
SmartFollows ==
    \A x \in Places \ (stale \cup Pending) :
        /\ items[x] = "smart" => x \in Wanted
        /\ x \in Wanted => items[x] # "no"

\* A hand-picked row is gone only by the user, or by an evaluation that saw it as a smart row.
HandPicked ==
    \A x \in Places : items[x] = "manual" /\ items'[x] # "manual" =>
          \/ album'[x[1]].kind = "none"
          \/ album' = album /\ eval' = eval
          \/ \E e \in DOMAIN eval : eval[e].at = "seen" /\ eval'[e].at = "none" /\ eval[e].seen[x] = "smart"

\* The user's words give way only to a forced run, or to one that asked before they were written.
OwnWords ==
    \A p \in Photos : caption[p].edited /\ caption'[p] # caption[p] =>
        captioner' = captioner \/ captioner.force \/ ~captioner.edited

\* A decision has no effect any more but that its pair is resolved.
Stands(d) ==
    /\ \E i \in ReviewIds : HasRow(i, d)
    /\ \A i \in ReviewIds : HasRow(i, d) => review[i].at = "resolved"

\* What the user has chosen stays chosen.  "Manual rows win over smart ones" (api/collections.py,
\* add_items): no evaluation, and no album that stops being smart, takes out what the user has put
\* in, unless it was still a row of the evaluation when that looked at it.  And a pair stays decided
\* once a decision has reached the row of that pair, whatever scans, new photos, clearings, further
\* decisions and decisions that reach another's row do to the table: no row brings it back
\* (api/review.py: "so those decisions survive and a re-scan won't surface them again").  And the
\* captioner leaves an edited caption alone (docs/models.md, caption_edited), except for a job that
\* asked before the model ran and writes after the edit.
ChoicesStay ==
    [][HandPicked /\ OwnWords /\ \A d \in decided' : Stands(d)']_<<vars, curated>>
=============================================================================
