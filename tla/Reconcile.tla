----------------------------- MODULE Reconcile -----------------------------
(***************************************************************************)
(* Reconciliation of the library: a scan compares the rows with the files   *)
(* and leaves a report; the user repairs its items one by one, any time     *)
(* later, while the library goes on changing and while files are moved and  *)
(* deleted by hand.                                                         *)
(***************************************************************************)
EXTENDS Library

CONSTANTS Idle,          \* no scan is under way
          MaxScans       \* bound: scans

VARIABLES seen,          \* the rows a scan has read, before it walks the files
          report,        \* the items of the last report
          scans
rvars == <<db, disk, pending, ops, crashes, seen, report, scans>>

Item(kind, id, path) == [kind |-> kind, id |-> id, path |-> path]

\* _walk_data_root leaves the edits out: an edit's own row never finds its file.
Walked(files) == {x \in DOMAIN files : x.top = "data" /\ x.sub # "edits"}
EditFiles(files) == {x \in DOMAIN files : x.top = "data" /\ x.sub = "edits"}

\* _gather_active_instances.
Active(d) == [i \in {j \in Live(d) : ~d.inst[j].missing} |-> d.inst[i]]

\* classify_reconcile.  Each row consumes the file of its path, each drifted row a file of
\* its content; who comes first of several is a matter of the order of rows and files.
Classified(rows, files) ==
    LET present == {i \in DOMAIN rows : /\ rows[i].path \in Walked(files)
                                        /\ \A j \in DOMAIN rows : rows[j].path = rows[i].path => i <= j}
        absent == DOMAIN rows \ present
        free == Walked(files) \ {rows[i].path : i \in present}
        Drift(x, acc) ==
            LET fits == {i \in absent \ {it.id : it \in acc} : rows[i].asset = files[x]}
            IN  IF fits = {} THEN acc ELSE acc \cup {Item("drift", Min(fits), x)}
        drift == FoldSet(Drift, {}, free)
    IN  drift
        \cup {Item("orphan", 0, x) : x \in free \ {it.path : it \in drift}}
        \cup {Item("missing", i, rows[i].path) : i \in absent \ {it.id : it \in drift}}

\* _gather_misassigned_instances.
Misassigned(d) ==
    {Item("misassigned", i, d.inst[i].path) : i \in {j \in Live(d) :
        /\ d.inst[j].person \in DOMAIN d.name \ {Unknown}
        /\ \E f \in DOMAIN d.face : PhotoOf[f] = d.inst[j].asset
        /\ FacesOf(d, d.inst[j].asset, d.inst[j].person) = {}}}

\* _gather_stranded_faces.
Stranded(d) ==
    {Item("stranded", f, Nowhere) : f \in {g \in DOMAIN d.face :
        /\ d.face[g].person \in DOMAIN d.name \ {Unknown}
        /\ LET owners == OwnersOf(d, d.face[g].crop)
           IN  owners = {} \/ d.face[g].person # Min(owners)}}

\* _gather_acknowledged_missing.
Acknowledged(d) ==
    {Item("acknowledged", i, d.inst[i].path) : i \in {j \in Live(d) : d.inst[j].missing}}

\* classify_orphaned_edits: no version names the file.
OrphanedEdits(files) == {Item("orphaned_edit", 0, x) : x \in EditFiles(files)}

Report(rows, d, files) ==
    Classified(rows, files) \cup Misassigned(d) \cup Stranded(d) \cup Acknowledged(d) \cup OrphanedEdits(files)

\* Two steps of a thread: the rows are read, then the files are walked and the rest is read.
StartScan == /\ seen = Idle /\ scans < MaxScans
             /\ seen' = Active(db) /\ scans' = scans + 1
             /\ UNCHANGED <<vars, report>>

FinishScan == /\ seen # Idle
              /\ report' = Report(seen, db, disk.file)
              /\ seen' = Idle
              /\ UNCHANGED <<vars, scans>>

(***************************************************************************)
(* Repairs (_apply_one).  An item stays in the report until the next scan.  *)
(***************************************************************************)
Repaired(s) == Finish(s, pending) /\ UNCHANGED ops

TrashOrphan(it) ==
    LET y == Vacant(disk.file, [it.path EXCEPT !.top = "trash"])
    IN  /\ it.kind \in {"orphan", "orphaned_edit"} /\ it.path \in DOMAIN disk.file
        /\ Repaired([Here EXCEPT !.disk.file = Moved(@, it.path, y)])

\* The file is imported like one from anywhere else; it stays where it is, too.
IndexOrphan(it) ==
    LET a == disk.file[it.path]
    IN  /\ it.kind \in {"orphan", "orphaned_edit"} /\ it.path \in DOMAIN disk.file
        /\ StartImport(a) /\ UNCHANGED ops

MarkMissing(it) ==
    /\ it.kind = "missing" /\ it.id \in DOMAIN db.inst /\ ~db.inst[it.id].missing
    /\ Repaired([Here EXCEPT !.db.inst[it.id].missing = TRUE])

\* purge_missing deletes what is at the row's path now.
PurgeMissing(it) ==
    /\ it.kind \in {"missing", "acknowledged"} /\ it.id \in DOMAIN db.inst
    /\ StartPurge(it.id) /\ UNCHANGED ops

FixDrift(it) ==
    /\ it.kind = "drift" /\ it.id \in DOMAIN db.inst /\ it.path \in DOMAIN disk.file
    /\ Repaired([Here EXCEPT !.db.inst[it.id].path = it.path, !.db.inst[it.id].missing = FALSE])

FixMisassigned(it) ==
    /\ it.kind = "misassigned" /\ it.id \in DOMAIN db.inst
    /\ Repaired(Prune(Here, db.inst[it.id].asset, db.face))

\* Mutant: the crop is moved, its row forgotten.
FixStrandedFile(it) ==
    /\ it.kind = "stranded" /\ it.id \in DOMAIN db.face \cap DOMAIN disk.crop
    /\ db.face[it.id].person \in DOMAIN db.name \ {Unknown}
    /\ disk.crop[it.id] # Folder(db, db.face[it.id].person)
    /\ Repaired([Here EXCEPT !.disk.crop[it.id] = Folder(db, db.face[it.id].person)])

\* move_face_crop_to_assigned_folder, if the crop is not there already and its file exists.
FixStranded(it) ==
    LET f == it.id
        p == db.face[f].person
    IN  /\ it.kind = "stranded" /\ f \in DOMAIN db.face /\ p \in DOMAIN db.name \ {Unknown}
        /\ db.face[f].crop # Folder(db, p)
        /\ MoveCrop(Here, f, Folder(db, p)) # Here
        /\ Repaired(MoveCrop(Ensure(Here, p), f, Folder(db, p)))

Repair(it) == \/ TrashOrphan(it) \/ MarkMissing(it) \/ PurgeMissing(it)
              \/ FixDrift(it) \/ FixMisassigned(it) \/ FixStranded(it)

(***************************************************************************)
(* The user moves a file to a sibling folder or deletes it, in the file     *)
(* manager.                                                                 *)
(***************************************************************************)
MoveByHand(x, dir) ==
    LET y == Vacant(disk.file, [x EXCEPT !.dir = dir])
    IN  /\ x.top = "data" /\ x.dir # dir
        /\ Atomic([Here EXCEPT !.disk.file = Moved(@, x, y)])

DeleteByHand(x) == x.top = "data" /\ Atomic([Here EXCEPT !.disk.file = Without(@, {x})])

ByHand == \E x \in DOMAIN disk.file : DeleteByHand(x) \/ \E dir \in disk.dirs : MoveByHand(x, dir)

InitR == Init /\ seen = Idle /\ report = {} /\ scans = 0

NextR == \/ (Next \/ ByHand) /\ UNCHANGED <<seen, report, scans>>
         \/ StartScan \/ FinishScan
         \/ (\E it \in report : Repair(it) \/ IndexOrphan(it)) /\ UNCHANGED <<seen, report, scans>>

SpecR == InitR /\ [][NextR]_rvars

(***************************************************************************)
(* Properties.                                                              *)
(***************************************************************************)
Now == Report(Active(db), db, disk.file)

\* The pruning has moved the file to _unknown, which has a deleted row of the photo.
FailedRepair == \E it \in report : FixMisassigned(it) /\ db' = db

\* The files were moved but the rows not written, as the process died or a flush failed: row i
\* is as it was, and its photo still there, unless it was in the trash or to be purged.
RolledBack(i) ==
    /\ \/ crashes' # crashes
       \/ ops' # ops /\ disk'.file # disk.file /\ db' = db /\ pending' = pending
       \/ FailedRepair
    /\ i \in DOMAIN db.inst /\ db'.inst[i] = db.inst[i]
    /\ \/ db.inst[i].deleted \/ \E j \in DOMAIN db.inst : Purging(j) /\ db.inst[j].asset = db.inst[i].asset
       \/ \E x \in DOMAIN disk'.file : disk'.file[x] = db.inst[i].asset

\* The repair of row i's item: it is no longer missing or adrift, or never was, or what it
\* calls an orphaned edit is the row's own file.
BadRepair(i) == \E it \in report :
    \/ PurgeMissing(it) /\ i = it.id
    \/ it \notin Now /\ FixDrift(it) /\ (i = it.id \/ it.path = db.inst[i].path)
    \/ TrashOrphan(it) /\ it.path = db.inst[i].path

\* No step takes a row out of order: moving, copying and deleting files, with the rows written
\* after them, leaves each row its own file, whatever requests are in flight, and what these
\* know of rows and files stays so. Except, row by row: its folder is two persons' or of a
\* person the step is not about; another step gets in the way of the request about it; the
\* rows were not written after its file was moved, which costs it no photo; the user moves or
\* deletes its file by hand; it is repaired by what is no longer so.
StaysInOrder ==
    [][Order =>
        /\ \A i \in DOMAIN db'.inst :
              \/ InOrder(i)' \/ Caught(i) \/ RolledBack(i) \/ ByHand
              \/ i \in DOMAIN db.inst /\ (FolderGone(i) \/ BadRepair(i))
        /\ \A r \in pending' : Informed(r)' \/ Disturbed(r)]_rvars

\* A missing item of which the file is at the row's path all the same: it is an edit, or
\* the path is another row's, too.
Mistaken(i) == \/ db.inst[i].path.sub = "edits"
               \/ \E j \in DOMAIN db.inst \ {i} : db.inst[j].path = db.inst[i].path

\* The last file of a photo whose rows all have theirs is never deleted: by persons deleted,
\* merged, split and pruned, by relocations, imports and repairs, whatever else is in flight,
\* by a crash amid any of them.  Except: by hand, with a folder that is two persons' or holds
\* another person's file, and by purging what is wrongly reported missing.
PhotosKept ==
    [][\A a \in Photo : Lost(a) =>
          \/ ByHand
          \/ \E i \in LiveOf(db, a) : FolderGone(i)
          \/ \E q, p \in DOMAIN db.name : PassesName(q, p) /\ MergePersons(q, p)
          \/ \E it \in report : PurgeMissing(it) /\ (it \notin Now \/ Mistaken(it.id))]_rvars

\* What is left to repair.  Acknowledging a missing file is half of its repair.
Weight(it) == IF it.kind = "missing" THEN 2 ELSE 1
Left == MapThenSumSet(Weight, Now)

DistinctNames == \A p \in DOMAIN db.name : \A q \in DOMAIN db.name \ {p} : Folder(db, p) # Folder(db, q)

\* A repair of an item that is still so brings the library nearer to an empty report: it does
\* not leave the item as it was, nor a new item of another kind (the repairs of repair.py).
RepairsConverge ==
    [][\A it \in report \cap Now :
          /\ pending = {} /\ crashes' = crashes /\ DistinctNames /\ ~FailedRepair
          /\ TrashOrphan(it) \/ MarkMissing(it) \/ FixDrift(it) \/ FixMisassigned(it) \/ FixStranded(it)
          => Left' < Left]_rvars
=============================================================================
