------------------------------ MODULE Gallery ------------------------------
(***************************************************************************)
(* The gallery: the backend lists photos and versions page by page, merged  *)
(* from two ordered queries or ranked by a search; the page in the browser  *)
(* asks for one page after the other and keeps what it has by key.          *)
(***************************************************************************)
EXTENDS Classification

CONSTANTS
    Filters,       \* what the user sets: favourites, person, sources, labels, search, order
    SourceOf, DateOf, SizeOf,
    PageSize,
    SearchMost     \* hits a search by meaning asks the index for

VARIABLES
    version,       \* versions made in the editor: instance they are of, number, date
    gallery,       \* store/gallery: page, total, keys of the entries, loading; filter
    disturbed      \* the list has changed, or a page was lost, since it was begun
browsing == <<version, gallery, disturbed>>

VersionRows == [of : Ids \X People, n : Nat, date : Int]

NoFilter == [favourite |-> None, person |-> None, sources |-> {}, labels |-> {}, query |-> None,
             similar |-> <<>>, sort |-> "date", descending |-> TRUE]

(***************************************************************************)
(* The backend's list.  An entry is an instance or a version of one.        *)
(***************************************************************************)
\* Labels of one category are alternatives, categories add up; a label that is gone is passed over.
HasLabels(p, labels) ==
    \A c \in Cats : labels \cap LabelsOf(c) # {} => \E r \in class : r.photo = p /\ r.label \in labels \cap LabelsOf(c)

\* The candidates of a search, with their scores: the index gives so many, whatever the other filters
\* leave of them.
Scores(f) ==
    IF f.query # None THEN [p \in Closest(f.query, SearchMost) |-> Alike[f.query][index["semantic"][p]]]
    ELSE [p \in ToSet(f.similar) |-> 1 + Len(f.similar) - CHOOSE i \in DOMAIN f.similar : f.similar[i] = p]
Searching(f) == f.query # None \/ f.similar # <<>>

\* Conditions on the instance, and conditions on the photo.
OfInstance(f) ==
    {i \in Live \X People : /\ i[2] \in photo[i[1]].people
                            /\ f.favourite # None => f.favourite = (i[2] \in photo[i[1]].favourite)
                            /\ f.person # None => f.person = i[2]}
OfPhoto(f) ==
    {p \in Live : /\ f.sources # {} => SourceOf[photo[p].pic] \in f.sources
                  /\ HasLabels(p, f.labels)
                  /\ Searching(f) => p \in DOMAIN Scores(f)}
Instances(f) == {i \in OfInstance(f) : i[1] \in OfPhoto(f)}

KeyOf(f, p, date) == IF Searching(f) THEN Scores(f)[p] ELSE IF f.sort = "date" THEN date ELSE SizeOf[photo[p].pic]

Photos(f)   == {[kind |-> "photo", of |-> i, n |-> 0, key |-> KeyOf(f, i[1], DateOf[photo[i[1]].pic])] : i \in Instances(f)}
Versions(f) == {[kind |-> "version", of |-> v.of, n |-> v.n, key |-> KeyOf(f, v.of[1], v.date)] :
                   v \in {w \in version : w.of \in Instances(f)}}

Matching(f) == Photos(f) \cup Versions(f)

\* Ties keep the order of the table, and photos come before versions.
Earlier(d, e) == \/ d.of[1] < e.of[1]
                 \/ d.of[1] = e.of[1] /\ d.of[2] < e.of[2]
                 \/ d.of = e.of /\ d.n < e.n
Before(f, d, e) ==
    \/ IF f.descending \/ Searching(f) THEN d.key > e.key ELSE d.key < e.key
    \/ d.key = e.key /\ d.kind = "photo" /\ e.kind = "version"
    \/ d.key = e.key /\ d.kind = e.kind /\ Earlier(d, e)

\* A set in the order that `before' gives it.
InOrder(s, before(_, _)) ==
    [i \in 1..Cardinality(s) |-> CHOOSE e \in s : Cardinality({d \in s : before(d, e)}) = i - 1]
Order(f, entries) == InOrder(entries, LAMBDA d, e : Before(f, d, e))

Top(s, n) == SubSeq(s, 1, Min({n, Len(s)}))

\* Mutant: of either query only as many rows are fetched as go on the page.
MergedShort(f, n) ==
    Order(f, ToSet(Top(Order(f, Photos(f)), PageSize)) \cup ToSet(Top(Order(f, Versions(f)), PageSize)))

\* A search ranks all; otherwise each query gives as much as the pages up to this one can need.
Merged(f, n) ==
    IF Searching(f) THEN Order(f, Matching(f))
    ELSE Order(f, ToSet(Top(Order(f, Photos(f)), n * PageSize)) \cup ToSet(Top(Order(f, Versions(f)), n * PageSize)))

\* filters_touch_asset: the shorter count leaves the photos' table out.
Touches(f) == f.sources # {} \/ f.labels # {} \/ Searching(f)
Total(f) == IF Touches(f) THEN Cardinality(Photos(f)) + Cardinality(Versions(f))
            ELSE Cardinality(OfInstance(f)) + Cardinality({v \in version : v.of \in OfInstance(f)})

PageOf(f, n) == LET all == Merged(f, n) IN SubSeq(all, (n - 1) * PageSize + 1, Min({n * PageSize, Len(all)}))

\* A search needs an embedder, and one whose vectors the index takes.
Answered(f) == f.query # None => Embedder(row) \in Fits

(***************************************************************************)
(* The page in the browser.                                                 *)
(***************************************************************************)
\* An entry is kept by the id of its photo, or that of the version.
Key(e) == IF e.kind = "photo" THEN <<"photo", e.of[1]>> ELSE <<"version", e.n>>

\* The elements of s at the places I.
Those(s, I) == LET at == InOrder(I, LAMBDA i, j : i < j) IN [k \in DOMAIN at |-> s[at[k]]]

\* What the store does not have yet, in the order of arrival.
With(keys, entries) ==
    LET new == {j \in DOMAIN entries : Key(entries[j]) \notin ToSet(keys) \cup {Key(entries[i]) : i \in 1..(j - 1)}}
    IN  keys \o Those([j \in DOMAIN entries |-> Key(entries[j])], new)

HasMore == gallery.total > gallery.page * PageSize

Begun(f) == [filter |-> f, page |-> 1, total |-> 0, keys |-> <<>>, loading |-> TRUE]

Still == UNCHANGED <<version, vars, vectors, classes>>

\* A filter, the search or the order is set: the list is begun anew, and an answer that is under way
\* is dropped (switchMap).
Choose(f) ==
    /\ f # gallery.filter /\ Bounded("filters")
    /\ gallery' = Begun(f) /\ disturbed' = FALSE
    /\ UNCHANGED <<version, fixed, files, row, job, deleting, page, ghosts, vectors, classes>>

\* An import that is done begins the list anew.
Reload == /\ Bounded("filters")
          /\ gallery' = Begun(gallery.filter) /\ disturbed' = FALSE
          /\ UNCHANGED <<version, fixed, files, row, job, deleting, page, ghosts, vectors, classes>>

\* The gallery is opened again: the store still has its entries.
Enter == /\ ~gallery.loading /\ Bounded("entries")
         /\ gallery' = [gallery EXCEPT !.loading = TRUE]
         /\ UNCHANGED <<version, fixed, files, row, job, deleting, page, ghosts, vectors, classes, disturbed>>

LoadMore == /\ ~gallery.loading /\ HasMore
            /\ gallery' = [gallery EXCEPT !.page = @ + 1, !.loading = TRUE]
            /\ Still /\ UNCHANGED disturbed

Shown(f, n) == [gallery EXCEPT !.keys = With(@, PageOf(f, n)), !.total = Total(f), !.loading = FALSE]

PageArrives ==
    /\ gallery.loading
    /\ LET f == gallery.filter
       IN  IF Answered(f) THEN gallery' = Shown(f, gallery.page) /\ UNCHANGED disturbed
           ELSE gallery' = [gallery EXCEPT !.loading = FALSE] /\ disturbed' = TRUE
    /\ row' = IF gallery.filter.query = None THEN row ELSE Healed(row)
    /\ UNCHANGED <<version, fixed, files, job, deleting, page, ghosts, left, vectors, classes>>

\* The page stays counted: what comes next is the page after it.
PageLost ==
    /\ gallery.loading /\ Bounded("losses")
    /\ gallery' = [gallery EXCEPT !.loading = FALSE] /\ disturbed' = TRUE
    /\ UNCHANGED <<version, fixed, files, row, job, deleting, page, ghosts, vectors, classes>>

\* The entries that go with an instance.
Entries(i) == {<<"photo", i[1]>>} \cup {<<"version", v.n>> : v \in {w \in version : w.of = i}}

\* The first instance of a photo goes to the trash and its entry from the page; the total stays.
\* Pages that follow move up, and neither its versions nor another instance are thought of.
TrashShown(p) ==
    LET i == <<p, Min(photo[p].people)>>
    IN  /\ <<"photo", p>> \in ToSet(gallery.keys) /\ p \in Live /\ Bounded("trashed")
        /\ photo' = [photo EXCEPT ![p].people = @ \ {i[2]}]
        /\ gallery' = [gallery EXCEPT !.keys = Those(@, {j \in DOMAIN @ : @[j] # <<"photo", p>>})]
        /\ disturbed' = (disturbed \/ gallery.loading \/ HasMore \/ photo[p].people # {i[2]} \/ Entries(i) # {<<"photo", p>>})
        /\ UNCHANGED <<version, fixed, files, row, job, deleting, page, ghosts, vec, index, dino, task, astray, classes>>

\* Several at a time: the list is begun anew.
BulkTrash ==
    /\ Bounded("trashed") /\ gallery.keys # <<>>
    /\ LET gone == {p \in Live : <<"photo", p>> \in ToSet(gallery.keys)}
       IN  photo' = [p \in Ids |-> IF p \in gone THEN [photo[p] EXCEPT !.people = {}] ELSE photo[p]]
    /\ gallery' = Begun(gallery.filter) /\ disturbed' = FALSE
    /\ UNCHANGED <<version, fixed, files, row, job, deleting, page, ghosts, vec, index, dino, task, astray, classes>>

ToggleFavourite(p) ==
    LET who == Min(photo[p].people)
    IN  /\ <<"photo", p>> \in ToSet(gallery.keys) /\ p \in Live /\ Bounded("hearts")
        /\ photo' = [photo EXCEPT ![p].favourite = (@ \ {who}) \cup ({who} \ @)]
        /\ disturbed' = (disturbed \/ gallery.filter.favourite # None)
        /\ UNCHANGED <<version, gallery, fixed, files, row, job, deleting, page, ghosts, vec, index, dino, task, astray, classes>>

(***************************************************************************)
(* All together.                                                            *)
(***************************************************************************)
All == <<vars, vectors, classes, browsing>>

\* What the list should be: all that matches, in one order.
Listed(f) == With(<<>>, Order(f, Matching(f)))

\* Others change the list under the page.
Beside == /\ version' = version /\ gallery' = gallery
          /\ disturbed' = (disturbed \/ Matching(gallery.filter)' # Matching(gallery.filter))

\* Jobs, the cache of prompts and the page's requests end with the backend.
Stopped ==
    /\ task' = [l \in Lanes |-> NoTask] /\ prompted' = <<>>
    /\ gallery' = [gallery EXCEPT !.loading = FALSE] /\ disturbed' = (disturbed \/ gallery.loading)
    /\ UNCHANGED <<version, stored, dino, astray, catalog, class, removed>>

\* The library that is there at the start, with a catalog of its own.
ASSUME WorldAssumption ==
    \A w \in Worlds : /\ w.photo \in [Ids -> PhotoRows \cup {None}]
                      /\ w.cat \in [Cats -> CatRows] /\ w.label \in [Labels -> LabelRows \cup {None}]
                      /\ IsFiniteSet(w.version) /\ w.version \subseteq VersionRows
\* Dates and sizes are numbers; a search is by a picture or a list of photos.
ASSUME PageAssumption == PageSize \in Nat \ {0} /\ SearchMost \in Nat
ASSUME ValueAssumption == DateOf \in [Pictures -> Int] /\ SizeOf \in [Pictures -> Int]
ASSUME FilterAssumption ==
    \A f \in Filters : f.query \in Pictures \cup {None} /\ f.similar \in Seq(Ids) /\ f.descending \in BOOLEAN

GInit ==
    /\ \E w \in Worlds :
          /\ InitIn(w)
          /\ photo = w.photo /\ dino = w.dino /\ cat = w.cat /\ label = w.label /\ class = {} /\ version = w.version
          /\ vec = [x \in Spaces |-> [p \in Ids |-> IF p \in There /\ x \in photo[p].done THEN photo[p].pic ELSE None]]
    /\ index = vec /\ task = [l \in Lanes |-> NoTask] /\ astray = {} /\ removed = {} /\ prompted = <<>>
    /\ gallery = [Begun(NoFilter) EXCEPT !.loading = left.filters > 0] /\ disturbed = ~gallery.loading

Browse ==
    \/ \E f \in Filters : Choose(f)
    \/ Reload \/ Enter \/ LoadMore \/ PageArrives \/ PageLost \/ BulkTrash
    \/ \E p \in Ids : TrashShown(p) \/ ToggleFavourite(p)

ModelRuns == Runs /\ UNCHANGED <<vectors, classes, browsing>>

GNext ==
    \/ ModelRuns
    \/ Aside /\ UNCHANGED <<vectors, classes, browsing>>
    \/ Restart /\ Stopped
    \/ VectorSteps /\ UNCHANGED classes /\ Beside
    \/ ClassSteps /\ Beside
    \/ Browse

GSpec == GInit /\ [][GNext]_All /\ WF_All(ModelRuns)

(***************************************************************************)
(* Properties.                                                              *)
(***************************************************************************)
\* Scrolled to its end the gallery shows every photo and version that matches, each once and in
\* order, although it is put together from pages of two merged queries (api/assets.py, list_assets)
\* that arrive, are dropped and asked for again while filters change (gallery.effects.ts).  Not so
\* when the list changed under it, or a page was lost, since it was begun.
ScrollsThrough ==
    ~gallery.loading /\ ~HasMore /\ ~disturbed => gallery.keys = Listed(gallery.filter)
=============================================================================
