------------------------------ MODULE Library ------------------------------
(***************************************************************************)
(* The photo library: the rows of the database (persons, assets, their      *)
(* instances, faces, open face suggestions) beside the files they name      *)
(* (photos in <person>/photos, favourites and edits, face crops in          *)
(* <person>/faces, the trash), and the operations that move both.           *)
(*                                                                         *)
(* Every operation moves files first and commits the rows afterwards.  The  *)
(* operations of person_folders.py run to their commit without giving up    *)
(* the session; favourite, trash, restore, purge and the two imports give   *)
(* up control between the files and the commit, and are two steps here      *)
(* with a record of the request in flight between them.                     *)
(*                                                                         *)
(* An operation is an operator from a library state s (rows s.db, files     *)
(* s.disk, and s.ok: no flush of this transaction has violated a            *)
(* constraint) to the state it leaves; Finish commits it or not.            *)
(***************************************************************************)
EXTENDS Integers, Sequences, FiniteSets, FiniteSetsExt, TLC

CONSTANTS
    Photo,           \* contents (content_hash)
    Edits,           \* the photos that are edits of another one (original_id is set)
    Face, PhotoOf,   \* faces, and the photo each was found on
    Best,            \* the best-scoring face of each photo with faces
    Name, NoName,    \* names the user gives to persons
    Upload,          \* file names of uploads
    Nowhere,         \* no path
    Worlds,          \* the libraries to begin with
    MaxPerson,       \* bound: ids of persons
    MaxOps,          \* bound: operations
    MaxPending,      \* bound: requests in flight at once
    MaxCrashes       \* bound: crashes between the files and the commit

Unknown == 1                                   \* the person with is_unknown

VARIABLES db, disk, pending, ops, crashes
vars == <<db, disk, pending, ops, crashes>>

(***************************************************************************)
(* Folders, paths, files.                                                   *)
(***************************************************************************)
\* person_folder_name: the name decides, so two persons of one name share a folder.
Folder(d, p) == IF p = Unknown THEN <<"_unknown">>
                ELSE IF d.name[p] # NoName THEN <<"named", d.name[p]>>
                ELSE <<"person", p>>

In(dir, sub, name) == [top |-> "data", dir |-> dir, sub |-> sub, name |-> name]

\* Mutant: the file at the destination is overwritten.
Overwritten(files, x) == x

\* _resolve_collision: x, or its first numbered sibling that is free.
Vacant(files, x) ==
    LET Numbered(k) == [x EXCEPT !.name = Append(@, k)]
        ks == {k \in 1..(Cardinality(DOMAIN files) + 1) : Numbered(k) \notin DOMAIN files}
    IN  IF x \notin DOMAIN files THEN x ELSE Numbered(Min(ks))

\* _safe_move / _perform_move: where the file of x is after a move to y.  A source that is
\* gone while something is at y counts as a move that was interrupted: y is adopted.
Landing(files, x, y) ==
    CASE x \in DOMAIN files -> IF x = y THEN x ELSE Vacant(files, y)
      [] x \notin DOMAIN files /\ y \in DOMAIN files -> y
      [] OTHER -> Nowhere

Without(f, S) == [z \in DOMAIN f \ S |-> f[z]]
Moved(files, x, y) ==
    IF x \in DOMAIN files
    THEN [z \in (DOMAIN files \ {x}) \cup {y} |-> IF z = y THEN files[x] ELSE files[z]] ELSE files

Ensure(s, p) == [s EXCEPT !.disk.dirs = @ \cup {Folder(s.db, p)}]

\* shutil.rmtree of a person's folder.
RemoveDir(s, dir) ==
    LET gone == {x \in DOMAIN s.disk.file : x.top = "data" /\ x.dir = dir}
    IN  [s EXCEPT !.disk.file = Without(@, gone),
                  !.disk.crop = Without(@, {f \in DOMAIN @ : @[f] = dir}),
                  !.disk.dirs = @ \ {dir}]

(***************************************************************************)
(* Rows.  Deleted rows keep their person, and UNIQUE(asset_id, person_id)   *)
(* counts them.                                                             *)
(***************************************************************************)
Live(d)          == {i \in DOMAIN d.inst : ~d.inst[i].deleted}
LiveOf(d, a)     == {i \in Live(d) : d.inst[i].asset = a}
RowOf(d, a, p)   == {i \in LiveOf(d, a) : d.inst[i].person = p}
FacesOf(d, a, p) == {f \in DOMAIN d.face : PhotoOf[f] = a /\ d.face[f].person = p}

Unique(d) == \A i \in DOMAIN d.inst : \A j \in DOMAIN d.inst :
                <<d.inst[i].asset, d.inst[i].person>> = <<d.inst[j].asset, d.inst[j].person>> => i = j
Flush(s)  == [s EXCEPT !.ok = @ /\ Unique(s.db)]

\* SQLite gives the next row the largest id plus one: the id of a deleted last row returns.
NewId(f) == 1 + Max(DOMAIN f \cup {0})

Add(s, a, p, path, fixed) ==
    Flush([s EXCEPT !.db.assets = @ \cup {a},
                    !.db.inst = (NewId(@) :> [asset |-> a, person |-> p, path |-> path, fav |-> FALSE,
                                              fixed |-> fixed, deleted |-> FALSE, missing |-> FALSE]) @@ @])

Sub(r) == IF r.fav THEN "favourites" ELSE "photos"

\* The file of row i moves to y and the row goes to person p; nothing if there is no file.
MoveRow(s, i, y, p, fixed) ==
    LET x == s.db.inst[i].path
        at == Landing(s.disk.file, x, y)
    IN  IF at = Nowhere THEN s
        ELSE [s EXCEPT !.disk.file = Moved(@, x, at), !.disk.dirs = @ \cup {at.dir},
                       !.db.inst[i] = [@ EXCEPT !.path = at, !.person = p, !.fixed = fixed]]

DeleteRow(s, i) ==
    [s EXCEPT !.disk.file = Without(@, {s.db.inst[i].path}), !.db.inst = Without(@, {i})]

\* The crop of face f, in the folder its row names or in dir already, is in dir afterwards.
MoveCrop(s, f, dir) ==
    IF f \in DOMAIN s.disk.crop /\ s.disk.crop[f] \in {s.db.face[f].crop, dir}
    THEN [s EXCEPT !.disk.crop[f] = dir, !.db.face[f].crop = dir]
    ELSE s

MoveCrops(s, a, p) ==
    IF ~s.ok \/ p \notin DOMAIN s.db.name THEN s
    ELSE FoldSet(LAMBDA f, t : MoveCrop(t, f, Folder(s.db, p)), Ensure(s, p), FacesOf(s.db, a, p))

Give(s, f, p) == MoveCrop([s EXCEPT !.db.face[f].person = p], f, Folder(s.db, p))

(***************************************************************************)
(* Assignments.                                                             *)
(***************************************************************************)
\* materialize_assignment: person p gets an instance of photo a.  The only instance, if it
\* is an unfixed one of _unknown with no face left there, moves; otherwise a file is copied.
Materialize(s, a, p, fixed) ==
    IF ~s.ok \/ p \notin DOMAIN s.db.name THEN s
    ELSE IF RowOf(s.db, a, p) # {}
    THEN [s EXCEPT !.db.inst = [i \in DOMAIN @ |->
             IF i \in RowOf(s.db, a, p) THEN [@[i] EXCEPT !.fixed = @ \/ fixed] ELSE @[i]]]
    ELSE LET t == Ensure(s, p)
             stays == {i \in LiveOf(s.db, a) : s.db.inst[i].fixed \/ s.db.inst[i].person # Unknown}
             movable == LiveOf(s.db, a) # {} /\ stays = {} /\ FacesOf(s.db, a, Unknown) = {}
             first == LET plain == {i \in LiveOf(s.db, a) : ~s.db.inst[i].fav}
                      IN  Min(IF plain # {} THEN plain ELSE LiveOf(s.db, a))
             r == s.db.inst[first]
             kind == IF a \in Edits THEN "edits" ELSE "photos"
             y == In(Folder(s.db, p), kind, r.path.name)
             at == Vacant(s.disk.file, y)
         IN  IF LiveOf(s.db, a) = {} THEN t
             ELSE IF movable
             THEN Flush(MoveRow(t, first, IF r.fav THEN [y EXCEPT !.sub = "favourites"] ELSE y, p, fixed))
             ELSE IF r.path \notin DOMAIN s.disk.file THEN t
             ELSE Add([t EXCEPT !.disk.file = (at :> @[r.path]) @@ @], a, p, at, fixed)

\* prune_orphaned_instances: instances of a whose person has no face on it any more.  faces
\* are the face rows the query sees.  If no instance is backed by a face one of them stays,
\* moved to _unknown; its row goes there even when its file is missing.
Prune(s, a, faces) ==
    LET rows == LiveOf(s.db, a)
        backed == {i \in rows : \E f \in DOMAIN faces :
                                   PhotoOf[f] = a /\ faces[f].person = s.db.inst[i].person}
        home == RowOf(s.db, a, Unknown)
        spare == IF backed # {} \/ rows = {} THEN {} ELSE {IF home # {} THEN Min(home) ELSE Min(rows)}
        t == FoldSet(LAMBDA i, u : DeleteRow(u, i), s, (rows \ backed) \ spare)
        ToUnknown(i, u) ==
            LET r == u.db.inst[i]
                v == MoveRow(Ensure(u, Unknown), i, In(Folder(u.db, Unknown), Sub(r), r.path.name), Unknown, FALSE)
            IN  [v EXCEPT !.db.inst[i].person = Unknown, !.db.inst[i].fixed = FALSE]
    IN  IF ~s.ok THEN s ELSE Flush(FoldSet(ToUnknown, t, spare \ home))

\* reassign_face.  The session does not flush by itself: when the person has an instance of
\* the photo already (or none could be made), the prune still sees the face where it was.
Reassigned(s, f, p) ==
    LET a == PhotoOf[f]
        given == Give(Ensure(s, p), f, p)
        made == Materialize(given, a, p, TRUE)
        flushed == made.db.inst # given.db.inst /\ RowOf(given.db, a, p) = {}
    IN  Prune(made, a, IF flushed THEN made.db.face ELSE s.db.face)

\* _assign_one_asset of the bulk assignment.
Assigned(s, a, p) ==
    LET t == Materialize(s, a, p, TRUE)
        moves == IF Best[a] \in FacesOf(t.db, a, Unknown) THEN {Best[a]} ELSE
                 LET rest == FacesOf(t.db, a, Unknown) IN IF rest = {} THEN {} ELSE {CHOOSE f \in rest : TRUE}
        u == [t EXCEPT !.db.face = [f \in DOMAIN @ |-> IF f \in moves THEN [@[f] EXCEPT !.person = p] ELSE @[f]]]
        v == MoveCrops(u, a, p)
    IN  IF RowOf(t.db, a, p) = {} THEN [t EXCEPT !.db = s.db] ELSE Prune(v, a, v.db.face)

\* A face goes to p after a match, a clustering or the confirmation of a suggestion.
Matched(s, f, p) ==
    MoveCrops(Materialize([s EXCEPT !.db.face[f].person = p], PhotoOf[f], p, FALSE), PhotoOf[f], p)

\* materialize_clustering_results.
MaterializeAll(s) ==
    LET pairs == {<<PhotoOf[f], s.db.face[f].person>> : f \in DOMAIN s.db.face}
    IN  FoldSet(LAMBDA q, t : MoveCrops(Materialize(t, q[1], q[2], FALSE), q[1], q[2]),
                s, {q \in pairs : q[2] # Unknown})

(***************************************************************************)
(* Persons.                                                                 *)
(***************************************************************************)
\* Faces F and the live rows I of a person move to person p; a photo p has already loses
\* its second row and file, and a row without a file stays where it is.
HandOver(s, F, I, p, keep) ==
    LET t == FoldSet(LAMBDA f, u : Give(u, f, p), Ensure(s, p), F)
        Hand(i, u) ==
            LET r == u.db.inst[i]
            IN  IF RowOf(s.db, r.asset, p) # {} THEN DeleteRow(u, i)
                ELSE MoveRow(u, i, In(Folder(u.db, p), Sub(r), r.path.name), p, keep /\ r.fixed)
    IN  Flush(FoldSet(Hand, t, I))

FacesOfPerson(d, p) == {f \in DOMAIN d.face : d.face[f].person = p}
RowsOfPerson(d, p)  == {i \in Live(d) : d.inst[i].person = p}

RemovePerson(s, p) ==
    IF ~s.ok THEN s ELSE RemoveDir([s EXCEPT !.db.name = Without(@, {p})], Folder(s.db, p))

\* Mutant: the folder is removed before its files are moved out.
DeletedFirst(s, p) ==
    HandOver(RemovePerson(s, p), FacesOfPerson(s.db, p), RowsOfPerson(s.db, p), Unknown, FALSE)

Deleted(s, p) ==
    RemovePerson(HandOver(s, FacesOfPerson(s.db, p), RowsOfPerson(s.db, p), Unknown, FALSE), p)

\* merge_persons: the name is carried over first.
Merged(s, q, p) ==
    LET t == IF s.db.name[q] # NoName /\ s.db.name[p] = NoName
             THEN [s EXCEPT !.db.name[p] = s.db.name[q]] ELSE s
        u == HandOver(t, FacesOfPerson(t.db, q), RowsOfPerson(t.db, q), p, TRUE)
    IN  IF RowsOfPerson(u.db, q) = {} /\ q # Unknown THEN RemovePerson(u, q) ELSE u

\* split_faces: faces F of q make a new person n.
Split(s, q, F) ==
    LET n == NewId(s.db.name)
        mine == {f \in F : s.db.face[f].person = q}
        t == FoldSet(LAMBDA f, u : Give(u, f, n), Ensure([s EXCEPT !.db.name = (n :> NoName) @@ @], n), mine)
        Follow(a, u) ==
            LET old == {i \in RowOf(u.db, a, q) : ~u.db.inst[i].fixed}
                i == Min(old)
                r == u.db.inst[i]
                y == In(Folder(u.db, n), Sub(r), r.path.name)
            IN  IF FacesOf(u.db, a, q) = {} /\ old # {} /\ Landing(u.disk.file, r.path, y) # Nowhere
                THEN MoveRow(u, i, y, n, r.fixed)
                ELSE Materialize(u, a, n, FALSE)
    IN  IF mine = {} THEN [s EXCEPT !.disk = t.disk] ELSE Flush(FoldSet(Follow, t, {PhotoOf[f] : f \in F}))

\* rename_person_folder.  The name changes in any case; the folder only if the old one (or
\* that of the id) exists and the new one does not.  Deleted rows keep the old path.
Renamed(s, p, nm) ==
    LET t == [s EXCEPT !.db.name[p] = nm]
        new == Folder(t.db, p)
        known == {Folder(s.db, p), <<"person", p>>} \cap s.disk.dirs
        old == IF Folder(s.db, p) \in known THEN Folder(s.db, p) ELSE <<"person", p>>
        To(x) == IF x.top = "data" /\ x.dir = old THEN [x EXCEPT !.dir = new] ELSE x
        Back(x) == IF x.top = "data" /\ x.dir = new THEN [x EXCEPT !.dir = old] ELSE x
    IN  IF new = Folder(s.db, p) THEN t
        ELSE IF known = {} THEN Ensure(t, p)
        ELSE IF new \in s.disk.dirs THEN t
        ELSE [t EXCEPT !.disk = [file |-> [x \in {To(z) : z \in DOMAIN @.file} |-> @.file[Back(x)]],
                                 crop |-> [f \in DOMAIN @.crop |-> IF @.crop[f] = old THEN new ELSE @.crop[f]],
                                 dirs |-> (@.dirs \ {old}) \cup {new}],
                       !.db.inst = [i \in DOMAIN @ |-> IF i \in RowsOfPerson(s.db, p)
                                       THEN [@[i] EXCEPT !.path = To(@)] ELSE @[i]],
                       !.db.face = [f \in DOMAIN @ |-> IF @[f].person = p /\ @[f].crop = old
                                       THEN [@[f] EXCEPT !.crop = new] ELSE @[f]]]

(***************************************************************************)
(* Imports.                                                                 *)
(***************************************************************************)
Hashed(a) == In(Folder(db, Unknown), "photos", <<a>>)       \* _dest_path

\* _import_to_person: the file at x, in p's folder, becomes an instance of p where it is.
Adopted(s, x, p) ==
    IF x \notin DOMAIN s.disk.file \/ p \notin DOMAIN s.db.name THEN s
    ELSE IF RowOf(s.db, s.disk.file[x], p) # {} THEN s
    ELSE Add(s, s.disk.file[x], p, x, TRUE)

\* person_id_from_path: the person a folder belongs to, if any.
OwnersOf(d, dir) ==
    IF dir[1] = "person" THEN {dir[2]}
    ELSE LET named == {p \in DOMAIN d.name \ {Unknown} : d.name[p] # NoName /\ Folder(d, p) = dir}
         IN  IF named = {} THEN {} ELSE {Min(named)}

(***************************************************************************)
(* The steps.  Finish: the files of s, and its rows if no constraint failed *)
(* and the process did not die before the commit.                           *)
(***************************************************************************)
Here == [db |-> db, disk |-> disk, ok |-> TRUE]

Counted == ops < MaxOps /\ ops' = ops + 1

Finish(s, inFlight) ==
    /\ disk' = s.disk
    /\ \/ /\ db' = IF s.ok THEN s.db ELSE db
          /\ pending' = inFlight
          /\ UNCHANGED crashes
       \/ /\ crashes < MaxCrashes /\ s.disk # disk
          /\ crashes' = crashes + 1
          /\ db' = db /\ pending' = {}

Atomic(s) == Counted /\ Finish(s, pending)

\* was: the row as the request read it, or the path its file is written to.
Request(op, id, was, to) == [op |-> op, id |-> id, was |-> was, to |-> to]
Launches(r, s) == Cardinality(pending) < MaxPending /\ Finish(s, pending \cup {r})
Starts(r, s)   == Counted /\ Launches(r, s)
Answers(r, s)  == UNCHANGED ops /\ Finish(s, pending \ {r})
Fails(r)       == pending' = pending \ {r} /\ UNCHANGED <<db, disk, ops, crashes>>

CreatePerson(nm) ==
    LET n == NewId(db.name)
        s == [Here EXCEPT !.db.name = (n :> nm) @@ @]
    IN  n <= MaxPerson /\ Atomic(Ensure(s, n))

RenamePerson(p, nm) == p # Unknown /\ db.name[p] # nm /\ Atomic(Renamed(Here, p, nm))
DeletePerson(p)     == p # Unknown /\ Atomic(Deleted(Here, p))
MergePersons(q, p)  == p # q /\ Atomic(Merged(Here, q, p))
SplitPerson(q, F)   == NewId(db.name) <= MaxPerson /\ Atomic(Split(Here, q, F))
ReassignFace(f, p)  == db.face[f].person # p /\ Atomic(Reassigned(Here, f, p))
AssignAsset(a, p)   == Atomic(Materialize(Here, a, p, TRUE))
BulkAssign(a, p)    == p # Unknown /\ Atomic(Assigned(Here, a, p))

\* delete_face: the crop and the row go, then the instances without a face.
DeleteFace(f) ==
    LET s == [Here EXCEPT !.db.face = Without(@, {f}), !.disk.crop =
                 Without(@, {g \in {f} \cap DOMAIN @ : @[g] = db.face[f].crop})]
    IN  Atomic(Prune(s, PhotoOf[f], s.db.face))

\* The faces of photo a are found.  The best one goes to the person of a fixed instance; its
\* crop follows at the end.  The others stay in _unknown until they are matched.
DetectFaces(a) ==
    LET found == {f \in Face : PhotoOf[f] = a}
        fixed == {db.inst[i].person : i \in {j \in LiveOf(db, a) : db.inst[j].fixed}}
        owner(f) == IF fixed # {} /\ f = Best[a] THEN CHOOSE p \in fixed : TRUE ELSE Unknown
        s == [Here EXCEPT !.db.face = [f \in found |-> [person |-> owner(f), crop |-> Folder(db, Unknown)]] @@ @,
                          !.disk.crop = [f \in found |-> Folder(db, Unknown)] @@ @,
                          !.disk.dirs = @ \cup {Folder(db, Unknown)}]
        taken == {f \in found : owner(f) \in DOMAIN db.name \ {Unknown}}
    IN  /\ \E i \in LiveOf(db, a) : db.inst[i].path \in DOMAIN disk.file
        /\ found # {} /\ found \cap DOMAIN db.face = {}
        /\ Atomic(FoldSet(LAMBDA f, t : MoveCrop(t, f, Folder(db, owner(f))), s, taken))

\* match_face_incremental: a face of _unknown is like a person's faces.
MatchFace(f, p) ==
    /\ db.face[f].person = Unknown /\ p # Unknown
    /\ Atomic(Matched(Here, f, p))

SuggestFace(f, p) ==
    /\ db.face[f].person = Unknown /\ p # Unknown /\ f \notin DOMAIN db.hint
    /\ Atomic([Here EXCEPT !.db.hint = (f :> p) @@ @])

\* The person suggested may be gone by now: the face is given to its id all the same.
ConfirmSuggestion(f) ==
    /\ f \in DOMAIN db.face
    /\ Atomic(Matched([Here EXCEPT !.db.hint = Without(@, {f})], f, db.hint[f]))

RejectSuggestion(f) ==
    LET s == [Here EXCEPT !.db.hint = Without(@, {f})]
    IN  /\ f \in DOMAIN db.face
        /\ Atomic(IF db.face[f].person = Unknown THEN s ELSE Reassigned(s, f, Unknown))

\* run_initial_clustering: faces F of _unknown form a new person, then everything that is
\* assigned gets its instance; the assignment is committed before the files are touched.
Cluster(F) ==
    LET n == NewId(db.name)
        fixed == {db.inst[i].asset : i \in {j \in DOMAIN db.inst : db.inst[j].fixed}}
        s == [Here EXCEPT !.db.name = (n :> NoName) @@ @,
                          !.db.face = [f \in DOMAIN @ |-> IF f \in F THEN [@[f] EXCEPT !.person = n] ELSE @[f]]]
        t == MaterializeAll(s)
    IN  /\ n <= MaxPerson /\ Counted
        /\ \A f \in F : db.face[f].person = Unknown /\ PhotoOf[f] \notin fixed
        /\ \/ /\ db' = (IF t.ok THEN t.db ELSE s.db) /\ disk' = t.disk
              /\ UNCHANGED <<pending, crashes>>
           \/ /\ crashes < MaxCrashes /\ crashes' = crashes + 1 /\ pending' = {}
              /\ db' = s.db /\ disk' \in {disk, t.disk}

(***************************************************************************)
(* Favourite, trash, restore: the row is read, the file moved in a thread,  *)
(* the row written when the answer comes back.                              *)
(***************************************************************************)
Relocations == {"favourite", "unfavourite", "trash", "restore"}
Relocation(op, i, y) ==
    LET x == db.inst[i].path
        at == Landing(disk.file, x, y)
    IN  at # Nowhere /\ Starts(Request(op, i, db.inst[i], at),
            [Here EXCEPT !.disk.file = Moved(@, x, at),
                         !.disk.dirs = @ \cup (IF at.top = "data" THEN {at.dir} ELSE {})])

Favourite(i) ==
    /\ i \in Live(db)
    /\ Relocation(IF db.inst[i].fav THEN "unfavourite" ELSE "favourite", i,
                  [db.inst[i].path EXCEPT !.sub = Sub([fav |-> ~db.inst[i].fav])])

SoftDelete(i) ==
    LET y == [db.inst[i].path EXCEPT !.top = "trash"]
    IN  /\ i \in Live(db)
        /\ \/ Relocation("trash", i, y)
           \/ /\ {db.inst[i].path, y} \cap DOMAIN disk.file = {}
              /\ Atomic([Here EXCEPT !.db.inst[i].deleted = TRUE])

Restore(i) ==
    /\ db.inst[i].deleted /\ db.inst[i].path.top = "trash"
    /\ Relocation("restore", i, [db.inst[i].path EXCEPT !.top = "data"])

\* The row may have been deleted, or its path changed, while the file was moved.
RelocationDone(r) ==
    LET path(q) == IF r.to # r.was.path THEN r.to ELSE q.path
        row(q) == CASE r.op = "trash"       -> [q EXCEPT !.path = path(q), !.deleted = TRUE]
                    [] r.op = "restore"     -> [q EXCEPT !.path = path(q), !.deleted = FALSE]
                    [] r.op = "favourite"   -> [q EXCEPT !.path = path(q), !.fav = TRUE]
                    [] r.op = "unfavourite" -> [q EXCEPT !.path = path(q), !.fav = FALSE]
    IN  /\ r.op \in Relocations
        /\ IF r.id \in DOMAIN db.inst THEN Answers(r, [Here EXCEPT !.db.inst[r.id] = row(@)]) ELSE Fails(r)

\* purge: the file first, then the row, and with the last row of a photo everything of it.
StartPurge(i) ==
    Launches(Request("purge", i, db.inst[i], Nowhere),
             [Here EXCEPT !.disk.file = Without(@, {db.inst[i].path})])

Purge(i) == db.inst[i].deleted /\ Counted /\ StartPurge(i)

PurgeDone(r) ==
    LET a == db.inst[r.id].asset
        s == [Here EXCEPT !.db.inst = Without(@, {r.id})]
        last == {i \in DOMAIN s.db.inst : s.db.inst[i].asset = a} = {}
        mine == {f \in Face : PhotoOf[f] = a}
    IN  /\ r.op = "purge"
        /\ IF r.id \notin DOMAIN db.inst THEN Fails(r)
           ELSE IF ~last THEN Answers(r, s)
           ELSE Answers(r, [s EXCEPT !.db.assets = @ \ {a}, !.db.face = Without(@, mine),
                                     !.disk.crop = Without(@, {f \in mine \cap DOMAIN db.face \cap DOMAIN @ :
                                                                @[f] = db.face[f].crop})])

\* _import_single: the file is copied under its hash, then the rows are inserted.  The hash is
\* unique, and the flush that inserts it is not inside the handler of the commit: the second
\* of two imports fails as a job, and its file, which may be the first one's, stays.
StartImport(a) ==
    /\ a \notin db.assets
    /\ Launches(Request("import", a, Hashed(a), Nowhere),
                [Here EXCEPT !.disk.file = (Hashed(a) :> a) @@ @, !.disk.dirs = @ \cup {Folder(db, Unknown)}])

Import(a) == a \notin Edits /\ Counted /\ StartImport(a)

ImportDone(r) ==
    /\ r.op = "import"
    /\ IF r.id \in db.assets THEN Fails(r) ELSE Answers(r, Add(Here, r.id, Unknown, r.was, FALSE))

\* An upload into a person's folder, and the job that takes it in.
UploadTo(p, a, u) ==
    LET x == Vacant(disk.file, In(Folder(db, p), "photos", <<u>>))
    IN  /\ a \notin Edits
        /\ Starts(Request("upload", p, x, Nowhere), Ensure([Here EXCEPT !.disk.file = (x :> a) @@ @], p))

UploadDone(r) == r.op = "upload" /\ Answers(r, Adopted(Here, r.was, r.id))

\* import_comfyui_output: an edit of a photo goes to the edits folder of the photo's person.
ImportEdit(a, i) ==
    LET p == db.inst[i].person
        x == In(Folder(db, p), "edits", <<a>>)
    IN  /\ a \in Edits \ db.assets /\ i \in Live(db) /\ p \in DOMAIN db.name
        /\ x \notin DOMAIN disk.file
        /\ Atomic(Add(Ensure([Here EXCEPT !.disk.file = (x :> a) @@ @], p), a, p, x, FALSE))

\* run_scan_job: a file no row names.  In a person's folder it becomes that person's,
\* elsewhere it is imported like any other file.
ScanFile(x) ==
    LET a == disk.file[x]
        s == [Here EXCEPT !.disk.file = (Hashed(a) :> a) @@ @, !.disk.dirs = @ \cup {Folder(db, Unknown)}]
    IN  /\ x.top = "data" /\ x.sub # "edits" /\ \A i \in DOMAIN db.inst : db.inst[i].path # x
        /\ Atomic(IF OwnersOf(db, x.dir) # {} THEN Adopted(Here, x, CHOOSE p \in OwnersOf(db, x.dir) : TRUE)
                  ELSE IF a \in db.assets THEN Here
                  ELSE Add(s, a, Unknown, Hashed(a), FALSE))

\* A crash while requests are in flight.
Crash == /\ pending # {} /\ crashes < MaxCrashes
         /\ crashes' = crashes + 1 /\ pending' = {}
         /\ UNCHANGED <<db, disk, ops>>

Init == /\ \E w \in Worlds : db = w.db /\ disk = w.disk
        /\ pending = {} /\ ops = 0 /\ crashes = 0

PersonSteps ==
    \/ \E nm \in Name : CreatePerson(nm)
    \/ \E p \in DOMAIN db.name :
          \/ \E nm \in Name : RenamePerson(p, nm)
          \/ DeletePerson(p)
          \/ \E q \in DOMAIN db.name : MergePersons(q, p)
          \/ \E F \in SUBSET DOMAIN db.face \ {{}} : SplitPerson(p, F)
FaceSteps ==
    \/ \E f \in DOMAIN db.face :
          \/ \E p \in DOMAIN db.name : ReassignFace(f, p) \/ MatchFace(f, p) \/ SuggestFace(f, p)
          \/ DeleteFace(f)
    \/ \E f \in DOMAIN db.hint : ConfirmSuggestion(f) \/ RejectSuggestion(f)
    \/ \E F \in SUBSET DOMAIN db.face \ {{}} : Cluster(F)
    \/ \E a \in db.assets :
          \/ DetectFaces(a)
          \/ \E p \in DOMAIN db.name : AssignAsset(a, p) \/ BulkAssign(a, p)
FileSteps ==
    \/ \E i \in DOMAIN db.inst :
          \/ Favourite(i) \/ SoftDelete(i) \/ Restore(i) \/ Purge(i)
          \/ \E a \in Edits : ImportEdit(a, i)
    \/ \E a \in Photo :
          \/ Import(a)
          \/ \E p \in DOMAIN db.name : \E u \in Upload : UploadTo(p, a, u)
    \/ \E x \in DOMAIN disk.file : ScanFile(x)
    \/ \E r \in pending : RelocationDone(r) \/ PurgeDone(r) \/ ImportDone(r) \/ UploadDone(r)
    \/ Crash

Next == PersonSteps \/ FaceSteps \/ FileSteps
Spec == Init /\ [][Next]_vars

(***************************************************************************)
(* What the properties of Reconcile speak of.                               *)
(***************************************************************************)
\* Where the file of row i is: at its path, or where a request in flight has moved it.
Place(i) == LET moving == {r \in pending : r.id = i /\ r.op \in Relocations}
            IN  IF moving = {} THEN db.inst[i].path ELSE (CHOOSE r \in moving : TRUE).to
Purging(i) == \E r \in pending : r.op = "purge" /\ r.id = i
Target(r) == IF r.op \in Relocations THEN r.to ELSE r.was

\* Row i has a file of its own, with its photo, in the trash if the row is deleted.
InOrder(i) == Purging(i) \/
    /\ Place(i) \in DOMAIN disk.file /\ disk.file[Place(i)] = db.inst[i].asset
    /\ \A j \in DOMAIN db.inst \ {i} : Place(j) # Place(i)
    /\ db.inst[i].deleted = (db.inst[i].path.top = "trash")

\* What a request in flight knows of its row or file is so.
Informed(r) ==
    /\ r.op \in Relocations => r.id \in DOMAIN db.inst /\ db.inst[r.id] = r.was
    /\ r.op = "import" => r.id \in db.assets \/ r.was \in DOMAIN disk.file
    /\ r.op = "upload" => \A i \in DOMAIN db.inst : db.inst[i].path = r.was => db.inst[i].person = r.id

Order == (\A i \in DOMAIN db.inst : InOrder(i)) /\ (\A r \in pending : Informed(r))

\* The persons the step removes, or else renames.
Actors == LET gone == DOMAIN db.name \ DOMAIN db'.name
          IN  IF gone # {} THEN gone ELSE {p \in DOMAIN db.name : db'.name[p] # db.name[p]}

\* The step removes or renames the folder of row i or of its person, though that, or what it
\* is renamed to, is another person's too, or the row's person is none the step is about.
FolderGone(i) ==
    LET r == db.inst[i]
        folders == {r.path.dir, Folder(db, r.person)}
        after == IF r.person \in DOMAIN db'.name THEN {Folder(db', r.person)} ELSE {}
        Shared(dir) == \E p \in DOMAIN db.name : \E q \in DOMAIN db'.name \ {p} :
                          Folder(db, p) = dir /\ Folder(db', q) = dir
    IN  /\ folders \cap (disk.dirs \ disk'.dirs) # {}
        /\ (\E dir \in folders \cup after : Shared(dir)) \/ r.person \notin Actors

\* The step changes the row, takes or gives away the file that request r in flight is about.
Disturbed(r) ==
    \/ \E i \in DOMAIN db'.inst : db'.inst[i].path = Target(r) /\ (i \in DOMAIN db.inst => db.inst[i].path # Target(r))
    \/ r.op \in Relocations \cup {"purge"} /\ (r.id \notin DOMAIN db'.inst \/ db'.inst[r.id] # db.inst[r.id])
    \/ r.op # "purge" /\ Target(r) \in DOMAIN disk.file \ DOMAIN disk'.file

\* Row i is about a request that is disturbed so, or has got the file of one.
Caught(i) == \E r \in pending \cap pending' :
    Disturbed(r) /\ ((r.op \in Relocations /\ r.id = i) \/ db'.inst[i].path = Target(r))

\* Every live row of photo a has a file with the photo to itself.
Sound(a) == \A i \in LiveOf(db, a) :
    /\ db.inst[i].path \in DOMAIN disk.file /\ disk.file[db.inst[i].path] = a
    /\ \A j \in DOMAIN db.inst \ {i} : db.inst[j].path # db.inst[i].path

\* The step takes the last file of a photo whose rows all had one.
Lost(a) == /\ LiveOf(db, a) # {} /\ Sound(a)
           /\ \A x \in DOMAIN disk'.file : disk'.file[x] # a

\* The name of q passes over to p, and with it the folder that is removed.
PassesName(q, p) == db.name[q] # NoName /\ db.name[p] = NoName

\* "Merge from_person into into_person: move all assets and faces" (person_folders.py:856):
\* a merge loses no photo.
MergeKeepsPhotos == [][\A p, q \in DOMAIN db.name : MergePersons(q, p) => \A a \in Photo : ~Lost(a)]_vars
=============================================================================
