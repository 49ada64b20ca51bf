------------------------------ MODULE MCModels ------------------------------
(* Instances of Gallery, with the models it rests on, for TLC.              *)
EXTENDS Gallery

CONSTANTS a, b, red, blue, green, sea, city

Both == <<a, b>>
Forms(x, y) == a :> x @@ b :> y
NoRows == a :> NoRow @@ b :> NoRow
Bound(id, on) == [there |-> TRUE, id |-> id, path |-> "local", managed |-> FALSE, enabled |-> on]
Registered(on) == a :> Bound(1, on = a) @@ b :> Bound(2, on = b)

NoUses == [u \in {"downloads", "scans", "restarts", "deletes", "binds", "failures", "embeds", "breaks", "rebuilds",
                  "imports", "purges", "classifies", "catalog", "tags", "filters", "entries", "losses", "trashed",
                  "hearts"} |-> 0]
Uses(some) == some @@ NoUses

\* Pictures: red and blue look alike, red and green mean the same.
Near(x, y) == IF x = y THEN 9 ELSE IF green \in {x, y} THEN 2 ELSE 7
Likenesses == [x \in Pictures |-> [y \in Pictures |-> Near(x, y)]]
Affinities == [x \in Pictures |-> [q \in Prompts |-> IF (x = red) = (q = sea) THEN 8 ELSE 2]]
Scores1    == red :> (sea :> 90) @@ blue :> (city :> 40 @@ sea :> 20) @@ green :> [t \in {} |-> 0]
Weights    == [clip |-> 2, tags |-> 1]
Values(x, y, z) == red :> x @@ blue :> y @@ green :> z
Sources    == Values("camera", "camera", "flux")
Dates      == Values(3, 5, 3)
Sizes      == Values(20, 10, 30)

Photo(pic, people, done) == [NewPhoto(pic, people) EXCEPT !.done = done]
NoCats == [c \in Cats |-> NoCat]
NoLabels == [x \in Labels |-> None]
Cat(mode) == [mode |-> mode, enabled |-> TRUE, min |-> None]
Label(c, name, tags, i) == [cat |-> c, name |-> name, prompts |-> {}, tags |-> tags, position |-> i]

World(forms, hashes, rows, some) ==
    [form |-> forms, hashed |-> hashes, row |-> rows, left |-> Uses(some), photo |-> [p \in Ids |-> None],
     dino |-> TRUE, cat |-> NoCats, label |-> NoLabels, version |-> {}]

\* Two embedders that are registered, bound, scanned and resolved in any order.
Embedders == {World(Forms("hf", "hf"), {}, NoRows, some) :
                 some \in {[downloads |-> 2, scans |-> 1, restarts |-> 1], [downloads |-> 2, binds |-> 1]}}

\* A model that is downloaded twice, is cut off, scanned and deleted.
Single == {World(Forms(x, "none"), h, NoRows, some) : x \in {"plain", "bundle"}, h \in {{}, {a}},
               some \in {[downloads |-> 2, restarts |-> 1, failures |-> 1],
                         [downloads |-> 1, scans |-> 1, deletes |-> 1, failures |-> 1]}}

\* Vectors: photos are embedded by both workers, imported and purged, and the index is rebuilt.
Two == 1 :> Photo(red, {1}, {"semantic", "visual"}) @@ 2 :> Photo(blue, {1}, {}) @@ 3 :> None
Seen(rows, photos, dinos, some) ==
    {[World(Forms("hf", "hf"), {}, rows, some) EXCEPT !.photo = photos, !.dino = d] : d \in dinos}

Embeds == Seen(Registered(a), Two, {TRUE}, [embeds |-> 2, purges |-> 2, imports |-> 1])
            \cup Seen(Registered(a), Two, BOOLEAN, [embeds |-> 2, rebuilds |-> 1, purges |-> 1, breaks |-> 1])
            \cup Seen(Registered(b), Two, {FALSE}, [embeds |-> 2, binds |-> 1, restarts |-> 1])

\* Classification: two jobs at a time while the catalog is edited.
Catalog1(mode) == 1 :> Cat(mode) @@ 2 :> NoCat
Labels1 == 1 :> Label(1, sea, {sea}, 0) @@ 2 :> Label(1, city, {}, 1) @@ 3 :> None
Sorts(modes, some) ==
    {[w EXCEPT !.cat = Catalog1(mode), !.label = Labels1] : w \in Seen(Registered(a), Two, {FALSE}, some), mode \in modes}
Classes == Sorts({"single", "multi"}, [classifies |-> 2, catalog |-> 2])
             \cup Sorts({"multi"}, [classifies |-> 2, purges |-> 2, imports |-> 1])
             \cup Sorts({"single"}, [classifies |-> 2, tags |-> 1, embeds |-> 1, binds |-> 1, restarts |-> 1])

\* The gallery: three photos, one of two persons, and versions of two.
Three == 1 :> Photo(red, {1, 2}, {"semantic"}) @@ 2 :> Photo(blue, {1}, {"semantic"}) @@ 3 :> Photo(green, {2}, {"semantic"})
Edit(p, w, n, date) == [of |-> <<p, w>>, n |-> n, date |-> date]
Edited == {Edit(1, 2, 1, 4), Edit(2, 1, 2, 5)}
PagesOf(m, some) == {[w EXCEPT !.cat = Catalog1("single"), !.label = Labels1, !.version = v] :
                        w \in Seen(Registered(m), Three, {FALSE}, some), v \in {{}, Edited}}
Pages(some) == PagesOf(a, some)
Browses == Pages([filters |-> 2, losses |-> 1]) \cup Pages([filters |-> 1, entries |-> 1, trashed |-> 1])
             \cup Pages([filters |-> 1, hearts |-> 1, trashed |-> 1]) \cup Pages([filters |-> 1, restarts |-> 1, classifies |-> 1])
             \cup PagesOf(b, [filters |-> 2])

SomeFilters ==
    {NoFilter, [NoFilter EXCEPT !.descending = FALSE], [NoFilter EXCEPT !.sort = "size"],
     [NoFilter EXCEPT !.favourite = TRUE], [NoFilter EXCEPT !.person = 2], [NoFilter EXCEPT !.sources = {"camera"}],
     [NoFilter EXCEPT !.labels = {1, 2}], [NoFilter EXCEPT !.query = red], [NoFilter EXCEPT !.similar = <<2, 1>>]}

SomeWorlds == Embedders \cup Single \cup Embeds \cup Classes \cup Browses
=============================================================================
