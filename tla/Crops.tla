------------------------------- MODULE Crops -------------------------------
(***************************************************************************)
(* Face crops that come without a photo: images uploaded as faces           *)
(* (api/faces.py, import_faces_direct), the scan of the person folders at   *)
(* startup, which registers crops no row names (face_folder_scan_job.py),   *)
(* beside crops that the face job writes, that are moved to another person  *)
(* or deleted. An upload names its file, writes it and inserts its row      *)
(* with other handlers and jobs in between; the scan reads the rows before  *)
(* it walks the folders.                                                    *)
(***************************************************************************)
EXTENDS Library

CONSTANTS
    Calls,           \* uploads or detections that may be under way at once
    Keepers,         \* persons with a folder, Unknown among them
    Batches,         \* what is uploaded at once: sequences of [name, pic]
    Detected,        \* [name, pic]: the crop of the photo in which the face job finds a face
    CropWorlds       \* folders, rows and uses to begin with

VARIABLES
    cropFile,        \* [paths -> pictures]
    faceRow,         \* [ids -> [path, person, pic]], pic: what the face is
    upload,          \* [Calls -> an upload, or Rest]
    assigns,         \* assignments whose file has moved and whose row is not written
    walk,            \* the scan
    uses             \* bound: what may still be begun

cvars == <<cropFile, faceRow, upload, assigns, walk, uses>>

Rest   == [at |-> "rest", person |-> Unknown, todo |-> <<>>, path |-> Nowhere]
NoWalk == [at |-> "off", known |-> {}, dirs |-> {}, list |-> {}, file |-> Nowhere, pic |-> Nowhere, stray |-> {}]

(***************************************************************************)
(* What the constants are.                                                  *)
(***************************************************************************)
CropPaths == [top : {"data"}, dir : Keepers, sub : {"faces"}, name : Seq(STRING \cup Nat)]
Uploaded  == UNION {{batch[k] : k \in DOMAIN batch} : batch \in Batches}
Pics      == Uploaded \cup {Detected}

IsRow(q) == q = [path |-> q.path, person |-> q.person, pic |-> q.pic] /\ q.path \in CropPaths

\* A folder of the unknown, no path that is none, and something in every upload.
ASSUME KeepersAssumption == Unknown \in Keepers /\ Nowhere \notin CropPaths
ASSUME BatchesAssumption ==
    /\ \A batch \in Batches : batch \in Seq(Pics) \ {<<>>}
    /\ \A q \in Pics : q.name \in Seq(STRING)

\* The crops and rows to begin with are finitely many.
ASSUME CropWorldsAssumption ==
    \A w \in CropWorlds :
        /\ w.file = [x \in DOMAIN w.file |-> w.file[x]] /\ w.row = [i \in DOMAIN w.row |-> w.row[i]]
        /\ IsFiniteSet(DOMAIN w.file) /\ DOMAIN w.file \subseteq CropPaths
        /\ IsFiniteSet(DOMAIN w.row) /\ \A i \in DOMAIN w.row : i \in Nat /\ IsRow(w.row[i])
        /\ w.uses = [u \in DOMAIN w.uses |-> w.uses[u]] /\ \A u \in DOMAIN w.uses : w.uses[u] \in Nat
        /\ w.walk \in {"off", "start"}

InitC ==
    /\ \E w \in CropWorlds : /\ cropFile = w.file /\ faceRow = w.row /\ uses = w.uses
                             /\ walk = [NoWalk EXCEPT !.at = w.walk]
    /\ upload = [c \in Calls |-> Rest]
    /\ assigns = {}

Spend(u) == u \in DOMAIN uses /\ uses[u] > 0 /\ uses' = [uses EXCEPT ![u] = @ - 1]

CropPath(p, name) == In(p, "faces", name)

Rows(x)     == {i \in DOMAIN faceRow : faceRow[i].path = x}
Put(f, k, v)      == [z \in DOMAIN f \cup {k} |-> IF z = k THEN v ELSE f[z]]
NewRow(x, p, pic) == Put(faceRow, NewId(faceRow), [path |-> x, person |-> p, pic |-> pic])

\* A crop whose face is deleted or given away is none the scan is for.
Forgotten(i) == [walk EXCEPT !.stray = @ \ {faceRow[i].path}]

-----------------------------------------------------------------------------
(* Uploads and the face job.                                                 *)

\* Mutant: the name is taken as it is uploaded.
NameAsGiven(p, name) == CropPath(p, name)

\* The first free name, before the content is awaited.
FreeName(p, name) == Vacant(cropFile, CropPath(p, name))

Named(u) == [u EXCEPT !.at = "named", !.path = FreeName(u.person, Head(u.todo).name)]

UploadFaces(c, p, batch) ==
    /\ upload[c].at = "rest"
    /\ Spend("uploads")
    /\ upload' = [upload EXCEPT ![c] = Named([Rest EXCEPT !.person = p, !.todo = batch])]
    /\ UNCHANGED <<cropFile, faceRow, assigns, walk>>

NextUpload(c) ==
    /\ upload[c].at = "next"
    /\ upload' = [upload EXCEPT ![c] = Named(@)]
    /\ UNCHANGED <<cropFile, faceRow, assigns, walk, uses>>

\* The face job names the crop after photo and index, and replaces what has that name.
DetectCrop(c) ==
    /\ upload[c].at = "rest"
    /\ Spend("detects")
    /\ upload' = [upload EXCEPT ![c] = [Rest EXCEPT !.at = "named", !.todo = <<Detected>>,
                                            !.path = CropPath(Unknown, Detected.name)]]
    /\ UNCHANGED <<cropFile, faceRow, assigns, walk>>

WriteCrop(c) ==
    /\ upload[c].at = "named"
    /\ cropFile' = Put(cropFile, upload[c].path, Head(upload[c].todo).pic)
    /\ upload' = [upload EXCEPT ![c].at = "written"]
    /\ UNCHANGED <<faceRow, assigns, walk, uses>>

AfterFile(u) == IF Len(u.todo) = 1 THEN Rest
                ELSE [u EXCEPT !.at = "next", !.todo = Tail(u.todo), !.path = Nowhere]

\* The embedding is computed and the row committed; then the next file.
RegisterCrop(c) ==
    LET u == upload[c] IN
    /\ u.at = "written"
    /\ faceRow' = NewRow(u.path, u.person, Head(u.todo).pic)
    /\ upload' = [upload EXCEPT ![c] = AfterFile(u)]
    /\ UNCHANGED <<cropFile, assigns, walk, uses>>

-----------------------------------------------------------------------------
(* One face is deleted, or given to another person.                          *)

DeleteCrop(i) ==
    /\ Spend("deletes")
    /\ cropFile' = Without(cropFile, {faceRow[i].path})
    /\ faceRow' = Without(faceRow, {i})
    /\ walk' = Forgotten(i)
    /\ UNCHANGED <<upload, assigns>>

\* reassign_face runs in a thread and moves the crop; a crop that is missing stays in its row.
MoveToPerson(i, p) ==
    LET x == faceRow[i].path
        at == Landing(cropFile, x, [x EXCEPT !.dir = p])
    IN  /\ Spend("assigns")
        /\ faceRow[i].person # p
        /\ cropFile' = IF at = Nowhere THEN cropFile ELSE Moved(cropFile, x, at)
        /\ assigns' = assigns \cup {[id |-> i, was |-> faceRow[i], to |-> IF at = Nowhere THEN x ELSE at, person |-> p]}
        /\ walk' = Forgotten(i)
        /\ UNCHANGED <<faceRow, upload>>

\* Back in the handler the row is committed, unless it is gone.
MovedToPerson(r) ==
    /\ assigns' = assigns \ {r}
    /\ IF r.id \notin DOMAIN faceRow THEN UNCHANGED <<faceRow, walk>>
       ELSE /\ LET q == faceRow[r.id] IN
               faceRow' = [faceRow EXCEPT ![r.id] = [q EXCEPT !.person = r.person,
                                                              !.path = IF r.to = r.was.path THEN q.path ELSE r.to]]
            /\ walk' = Forgotten(r.id)
    /\ UNCHANGED <<cropFile, upload, uses>>

-----------------------------------------------------------------------------
(* The scan of the folders.                                                  *)

\* The backend dies and starts again, which enqueues the scan.
RestartScan ==
    /\ Spend("restarts")
    /\ upload' = [c \in Calls |-> Rest]
    /\ assigns' = {}
    /\ walk' = [NoWalk EXCEPT !.at = "start"]
    /\ UNCHANGED <<cropFile, faceRow>>

\* _registered_crop_paths, then _collect_face_dirs. stray: what the scan is for.
ScanReads ==
    LET known == {faceRow[i].path : i \in DOMAIN faceRow}
        awaited == known \cup {upload[c].path : c \in Calls} \cup {r.to : r \in assigns}
    IN  /\ walk.at = "start"
        /\ walk' = [walk EXCEPT !.at = "walking", !.known = known, !.dirs = Keepers,
                                !.stray = DOMAIN cropFile \ awaited]
        /\ UNCHANGED <<cropFile, faceRow, upload, assigns, uses>>

OpenFolder(p) ==
    /\ walk.at = "walking" /\ walk.list = {} /\ walk.file = Nowhere
    /\ walk' = [walk EXCEPT !.dirs = @ \ {p}, !.list = {x \in DOMAIN cropFile : x.dir = p}]
    /\ UNCHANGED <<cropFile, faceRow, upload, assigns, uses>>

\* A file that is still there and was not registered is read.
TakeFile(x) ==
    /\ walk.file = Nowhere
    /\ walk' = [walk EXCEPT !.list = @ \ {x},
                            !.file = IF x \in DOMAIN cropFile \ walk.known THEN x ELSE Nowhere,
                            !.pic = IF x \in DOMAIN cropFile \ walk.known THEN cropFile[x] ELSE Nowhere]
    /\ UNCHANGED <<cropFile, faceRow, upload, assigns, uses>>

RegisterFound ==
    LET x == walk.file IN
    /\ x # Nowhere
    /\ faceRow' = NewRow(x, x.dir, walk.pic)
    /\ walk' = [walk EXCEPT !.known = @ \cup {x}, !.file = Nowhere, !.pic = Nowhere]
    /\ UNCHANGED <<cropFile, upload, assigns, uses>>

ScanEnds ==
    /\ walk.at = "walking" /\ walk.dirs = {} /\ walk.list = {} /\ walk.file = Nowhere
    /\ walk' = NoWalk
    /\ UNCHANGED <<cropFile, faceRow, upload, assigns, uses>>

NextC ==
    \/ \E c \in Calls :
          \/ \E p \in Keepers, batch \in Batches : UploadFaces(c, p, batch)
          \/ NextUpload(c) \/ DetectCrop(c) \/ WriteCrop(c) \/ RegisterCrop(c)
    \/ \E i \in DOMAIN faceRow : DeleteCrop(i) \/ \E p \in Keepers : MoveToPerson(i, p)
    \/ \E r \in assigns : MovedToPerson(r)
    \/ RestartScan \/ ScanReads \/ RegisterFound \/ ScanEnds
    \/ \E p \in walk.dirs : OpenFolder(p)
    \/ \E x \in walk.list : TakeFile(x)

SpecC == InitC /\ [][NextC]_cvars

-----------------------------------------------------------------------------
(* Properties.                                                               *)

\* Where the crop of face i is: at its path, or where an assignment has moved it.
CropOf(i) == LET moving == {r \in assigns : r.id = i}
             IN  IF moving = {} THEN faceRow[i].path ELSE (CHOOSE r \in moving : TRUE).to

\* Its picture is there, and no other face's.
FacesInOrder ==
    \A i \in DOMAIN faceRow :
        /\ CropOf(i) \in DOMAIN cropFile /\ cropFile[CropOf(i)] = faceRow[i].pic
        /\ \A j \in DOMAIN faceRow \ {i} : CropOf(j) # CropOf(i)

\* A name that was free is so until the file is written; then it is the upload's alone.
UploadsInOrder ==
    \A c \in Calls : LET x == upload[c].path IN
        /\ upload[c].at = "named" => x \notin DOMAIN cropFile
        /\ upload[c].at = "written" => /\ x \in DOMAIN cropFile /\ cropFile[x] = Head(upload[c].todo).pic
                                       /\ \A i \in DOMAIN faceRow : CropOf(i) # x
                                       /\ \A e \in Calls \ {c} : upload[e].path # x

AssignsInOrder == \A r \in assigns : r.id \in DOMAIN faceRow /\ faceRow[r.id] = r.was

\* What the scan has read is so, and nobody's.
WalkInOrder ==
    walk.file # Nowhere => /\ walk.file \in DOMAIN cropFile /\ cropFile[walk.file] = walk.pic
                           /\ \A i \in DOMAIN faceRow : CropOf(i) # walk.file
                           /\ \A c \in Calls : upload[c].at = "written" => upload[c].path # walk.file

CropsInOrder == FacesInOrder /\ UploadsInOrder /\ AssignsInOrder /\ WalkInOrder

\* A file appears under the name an upload has found free, or the face job names a crop
\* like a file that is there.
NameTaken == \E c \in Calls : /\ upload'[c].at = "named"
                              /\ upload'[c].path \in DOMAIN cropFile'
                              /\ upload[c].at = "named" \/ upload'[c].todo = <<Detected>>

\* The scan takes a file for new whose row or path is younger than what it has read.
ScanBehind == /\ walk'.file \notin {Nowhere, walk.file}
              /\ \/ \E i \in DOMAIN faceRow : CropOf(i) = walk'.file
                 \/ \E c \in Calls : upload[c].at = "written" /\ upload[c].path = walk'.file

\* A face is deleted or given away while an assignment of it is under way, or that one is lost.
Overtaken == \E r \in assigns : \/ r.id \notin DOMAIN faceRow'
                                \/ \E q \in assigns' \ {r} : q.id = r.id
                                \/ uses' # uses /\ r \notin assigns'

\* Every face keeps a crop of its own that shows it, whatever is uploaded under the same name,
\* detected, moved and scanned at a time, and a scan finds every crop that had no row when it
\* began, as after a crash between file and row. Exceptions: the three above.
CropsOwned ==
    [][CropsInOrder =>
         /\ CropsInOrder' \/ NameTaken \/ ScanBehind \/ Overtaken
         /\ walk.at = "walking" /\ walk' = NoWalk => \A x \in walk.stray \cap DOMAIN cropFile : Rows(x) # {}]_cvars
=============================================================================
