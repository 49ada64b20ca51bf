------------------------------- MODULE Edits -------------------------------
(***************************************************************************)
(* The editor and what it leaves behind: edit sessions with their steps and *)
(* previews, versions of instances and of face crops, the orientation       *)
(* overwrite that turns the photo itself, bulk edits, imported versions,    *)
(* thumbnails.                                                              *)
(*                                                                         *)
(* Every request reads rows, works on files in threads and writes rows when *)
(* it is back; the parts between are the steps here, and reqs holds the     *)
(* requests under way.                                                      *)
(*                                                                         *)
(* A picture is a sequence of rows of pixels, so that turning the picture   *)
(* and turning a box in it are two computations that have to agree.         *)
(***************************************************************************)
EXTENDS Integers, Sequences, FiniteSets, FiniteSetsExt, SequencesExt

CONSTANTS
    Asset, Inst, AssetOf,      \* photos, their instances (the ids are numbers)
    Face, PhotoOf, Spot,       \* faces, the photo of each, its pixels
    Key,                       \* edit sessions
    Ops, BulkOps,              \* operations of the editor, and of bulk edits
    Uploaded,                  \* the picture of an upload
    Nothing,                   \* no preview, no version, no request
    Worlds,                    \* rows, files and sessions to begin with
    MaxRequests,               \* bound: requests
    MaxBusy,                   \* bound: requests under way at once
    MaxFailures                \* bound: lost answers and crashes

VARIABLES
    db,        \* rows: photo, inst, box, crop, version, ledger, derived
    file,      \* the picture at each path
    thumb,     \* cached thumbnails: of what, large or small -> picture
    session,   \* edit_session and edit_step: target, source, steps (seq -> operation, preview)
    editor,    \* what the user's editor shows of a session: step number, preview; ghosts: of which
               \* source picture, and whether rollbacks have kept clear of applies and failures
    reqs,      \* requests under way
    count, failures
vars == <<db, file, thumb, session, editor, reqs, count, failures>>

\* f with value v at k; g with the entries of f in front of its own.
Put(f, k, v) == [x \in DOMAIN f \cup {k} |-> IF x = k THEN v ELSE f[x]]
With(f, g)   == [x \in DOMAIN f \cup DOMAIN g |-> IF x \in DOMAIN f THEN f[x] ELSE g[x]]

Lone(S) == \A x, y \in S : x = y

(***************************************************************************)
(* Pictures and boxes.                                                      *)
(***************************************************************************)
Size(p) == <<Len(p[1]), Len(p)>>

\* apply_op, for the operations that matter: Pillow's rotations and mirrorings, a crop to
\* the left half; a conversion changes the format of the file only.
Applied(p, op) ==
    LET w == Size(p)[1]  h == Size(p)[2]
    IN  CASE op = "cw"   -> [r \in 1..w |-> [c \in 1..h |-> p[h + 1 - c][r]]]
          [] op = "ccw"  -> [r \in 1..w |-> [c \in 1..h |-> p[c][w + 1 - r]]]
          [] op = "180"  -> [r \in 1..h |-> [c \in 1..w |-> p[h + 1 - r][w + 1 - c]]]
          [] op = "h"    -> [r \in 1..h |-> [c \in 1..w |-> p[r][w + 1 - c]]]
          [] op = "v"    -> [r \in 1..h |-> p[h + 1 - r]]
          [] op = "crop" -> [r \in 1..h |-> SubSeq(p[r], 1, (w + 1) \div 2)]
          [] OTHER       -> p

Render(p, ops) == FoldLeft(Applied, p, ops)

Orientation == {"cw", "ccw", "180", "h", "v"}
OrientationOnly(ops) == ops # <<>> /\ \A k \in DOMAIN ops : ops[k] \in Orientation

\* The format of the saved file: the last conversion decides.
Format(ops) == LET ks == {k \in DOMAIN ops : ops[k] \in {"png", "jpeg"}}
               IN  IF ks = {} THEN "jpeg" ELSE ops[Max(ks)]

\* transform_bbox: b is <<x1, y1, x2, y2>> in a picture of size s.
Turned(b, s, op) ==
    CASE op = "cw"  -> <<s[2] - b[4], b[1], s[2] - b[2], b[3]>>
      [] op = "ccw" -> <<b[2], s[1] - b[3], b[4], s[1] - b[1]>>
      [] op = "180" -> <<s[1] - b[3], s[2] - b[4], s[1] - b[1], s[2] - b[2]>>
      [] op = "h"   -> <<s[1] - b[3], b[2], s[1] - b[1], b[4]>>
      [] op = "v"   -> <<b[1], s[2] - b[4], b[3], s[2] - b[2]>>

\* Mutant: width and height stay what they were after a quarter turn.
SameSize(s, op) == s

SizeAfter(s, op) == IF op \in {"cw", "ccw"} THEN <<s[2], s[1]>> ELSE s

TransformBbox(b, ops, size) ==
    FoldLeft(LAMBDA acc, op : <<Turned(acc[1], acc[2], op), SizeAfter(acc[2], op)>>, <<b, size>>, ops)[1]

\* The pixels of picture p inside box b.
Inside(p, b) == {p[y][x] : y \in (1..Len(p)) \cap ((b[2] + 1)..b[4]), x \in (1..Size(p)[1]) \cap ((b[1] + 1)..b[3])}

(***************************************************************************)
(* Rows and paths.  A file the program makes in an edits folder has a name  *)
(* nobody had before (uuid4): the number of the request, and which of its   *)
(* files.                                                                   *)
(***************************************************************************)
Path(dir, sub, name, ext) == [dir |-> dir, sub |-> sub, name |-> name, ext |-> ext]
WithSuffix(x, ext) == Path(x.dir, x.sub, x.name, ext)
NewName == <<count + 1, 0>>

LiveOf(d, a) == {i \in Inst : AssetOf[i] = a /\ d.inst[i].live}
Current(d, t) == {v \in DOMAIN d.version : d.version[v].of = t /\ d.version[v].current}
NewId(f) == 1 + Max(DOMAIN f \cup {0})

\* A target is <<"instance", asset>>, <<"face", f>> or <<"version", v>>; a version belongs to
\* an instance or to a face (_resolve_save_context).
Owners(d, t) ==
    CASE t[1] = "instance" -> {<<"instance", i>> : i \in {j \in LiveOf(d, t[2]) : \A h \in LiveOf(d, t[2]) : j <= h}}
      [] t[1] = "face"     -> {t}
      [] t[1] = "version"  -> {d.version[t[2]].of}

\* _resolve_source_path.
Source(d, t) ==
    CASE t[1] = "instance" -> d.inst[Min(LiveOf(d, t[2]))].path
      [] t[1] = "face"     -> d.crop[t[2]]
      [] t[1] = "version"  -> d.version[t[2]].path

\* The folder of the person an instance or a face belongs to.
DirOf(d, owner) == IF owner[1] = "instance" THEN d.inst[owner[2]].path.dir ELSE d.crop[owner[2]].dir

\* unset_current_versions for the versions seen, and the new row.
AddVersion(d, seen, row) ==
    [d EXCEPT !.version = Put([v \in DOMAIN @ |-> IF v \in seen THEN [@[v] EXCEPT !.current = FALSE] ELSE @[v]],
                              NewId(@), row)]

\* What the rows, files and sessions are like to begin with: names of edits are older than
\* any a request will make, no two versions or crops share one, and an editor shows what
\* its steps have made.
Edited(w, k) ==
    LET e == w.editor[k]
        steps == w.session[k].steps
    IN  /\ DOMAIN e = {"seq", "shows", "basis", "smooth"} /\ e.smooth \in BOOLEAN
        /\ e.seq \in Nat /\ DOMAIN steps = 1..e.seq
        /\ e.shows = IF e.seq = 0 THEN Nothing ELSE steps[e.seq].shows
        /\ \A j \in 1..e.seq : steps[j].shows = Render(e.basis, [i \in 1..j |-> steps[i].op])

Possible(w) ==
    LET d == w.db
    IN  /\ DOMAIN d = {"photo", "inst", "box", "crop", "version", "ledger", "derived"}
        /\ DOMAIN d.photo = Asset /\ DOMAIN d.inst = Inst /\ DOMAIN d.crop = Face
        /\ \A i \in Inst : DOMAIN d.inst[i] = {"path", "live"} /\ d.inst[i].path.sub \in {"photos", "trash"}
        /\ \A f, g \in Face : /\ d.crop[f].sub = "faces" /\ Len(d.crop[f].name) # 2
                              /\ f # g => d.crop[f].name # d.crop[g].name
        /\ DOMAIN d.version \subseteq Nat /\ IsFiniteSet(DOMAIN d.version)
        /\ \A v, u \in DOMAIN d.version :
              /\ DOMAIN d.version[v] = {"of", "parent", "path", "current", "shows"}
              /\ d.version[v].path.sub = "edits" /\ d.version[v].path.name[1] \in Int /\ d.version[v].path.name[1] <= 0
              /\ v # u => d.version[v].path.name # d.version[u].path.name
        /\ d.derived = {}
        /\ \A x \in DOMAIN w.file : /\ x = Path(x.dir, x.sub, x.name, x.ext)
                                    /\ x.sub = "edits" => x.name[1] \in Int /\ x.name[1] <= 0
        /\ \A k \in DOMAIN w.session :
              LET t == w.session[k].target
              IN  /\ DOMAIN w.session[k] = {"target", "source", "steps"}
                  /\ \/ t[1] = "instance" /\ t[2] \in Asset
                     \/ t[1] = "face" /\ t[2] \in Face
                     \/ t[1] = "version" /\ t[2] \in DOMAIN d.version
                  /\ t = <<t[1], t[2]>>
        /\ DOMAIN w.editor \subseteq DOMAIN w.session /\ \A k \in DOMAIN w.editor : Edited(w, k)

ASSUME EditsAssumption ==
    /\ Inst \subseteq Nat \ {0} /\ Nothing \notin Nat /\ \A i \in Inst : AssetOf[i] \in Asset
    /\ \A w \in Worlds : Possible(w)

(***************************************************************************)
(* Requests.  Each has a name n, its kind and what it needs next; a step    *)
(* goes on with some of that changed, or is the last one.                   *)
(***************************************************************************)
New(r) == /\ count < MaxRequests /\ Cardinality(reqs) < MaxBusy
          /\ count' = count + 1
          /\ reqs' = reqs \cup {With([n |-> NewName], r)}
GoesOn(r, s) == reqs' = (reqs \ {r}) \cup {With(s, r)}
Over(r) == reqs' = reqs \ {r}

\* The step that has j - 1 steps before it.
Nth(steps, j) == CHOOSE k \in DOMAIN steps : Cardinality({i \in DOMAIN steps : i < k}) = j - 1
OpsOf(steps) == [j \in 1..Cardinality(DOMAIN steps) |-> steps[Nth(steps, j)].op]

(***************************************************************************)
(* Edit sessions.  The editor sends one apply and one rollback at a time    *)
(* (concatMap), but the two kinds may overlap.                              *)
(***************************************************************************)
ApplyStart(k, op) ==
    /\ k \in DOMAIN editor /\ \A r \in reqs : ~(r.kind = "apply" /\ r.key = k)
    /\ LET steps == session[k].steps
       IN  New([kind |-> "apply", key |-> k, op |-> op, ops |-> Append(OpsOf(steps), op),
                seq |-> 1 + Max(DOMAIN steps \cup {0})])
    /\ UNCHANGED <<db, file, thumb, session, editor, failures>>

\* The preview is rendered in a thread; the step is stored with INSERT OR REPLACE.
ApplyDone(r) ==
    LET k == r.key
        shows == Render(file[session[k].source], r.ops)
    IN  /\ r.kind = "apply" /\ Over(r)
        /\ IF session[k].source \in DOMAIN file
           THEN /\ session' = [session EXCEPT ![k].steps = Put(@, r.seq, [op |-> r.op, shows |-> shows])]
                /\ editor' = IF k \in DOMAIN editor
                             THEN [editor EXCEPT ![k] = [seq |-> r.seq, shows |-> shows, basis |-> file[session[k].source],
                                                         smooth |-> @.smooth /\ (@.seq = 0 \/ @.basis = file[session[k].source])]]
                             ELSE editor
           ELSE UNCHANGED <<session, editor>>
        /\ UNCHANGED <<db, file, thumb, count, failures>>

\* Mutant: the step rolled back to goes, too.
KeepBelow(steps, seq) == [j \in {i \in DOMAIN steps : i < seq} |-> steps[j]]

\* truncate_steps_after.
Keep(steps, seq) == [j \in {i \in DOMAIN steps : i <= seq} |-> steps[j]]

\* The editor shows the step all the same when the answer is lost or an error.
Rollback(k, seq) ==
    LET shows == IF seq = 0 THEN Nothing ELSE session[k].steps[seq].shows
        clear == ~\E r \in reqs : r.kind = "apply" /\ r.key = k
        Shown(kept) == [editor EXCEPT ![k].seq = seq, ![k].shows = shows, ![k].smooth = @ /\ kept]
    IN  /\ k \in DOMAIN editor /\ seq < editor[k].seq /\ seq \in DOMAIN session[k].steps \cup {0}
        /\ count < MaxRequests /\ count' = count + 1
        /\ \/ editor' = Shown(clear) /\ session' = [session EXCEPT ![k].steps = Keep(@, seq)] /\ UNCHANGED failures
           \/ editor' = Shown(FALSE) /\ UNCHANGED session
              /\ failures < MaxFailures /\ failures' = failures + 1
        /\ UNCHANGED <<db, file, thumb, reqs>>

(***************************************************************************)
(* Saving.  Steps that only turn the picture overwrite the target itself;   *)
(* others are rendered at full size and become a version.                   *)
(***************************************************************************)
\* overwrite_instance: the files to turn, the edited instance first.
TurnPhoto(a, i, ops) ==
    [kind |-> "turn", target |-> <<"instance", a>>, ops |-> ops, hash |-> db.photo[a].hash,
     paths |-> [j \in LiveOf(db, a) \cup {i} |-> db.inst[j].path], first |-> i, done |-> {}, from |-> Nothing]

\* overwrite_version, overwrite_face.
TurnCopy(t, ops) ==
    [kind |-> "turn", target |-> t, ops |-> ops, hash |-> Nothing,
     paths |-> [j \in {0} |-> Source(db, t)], first |-> 0, done |-> {}, from |-> Nothing]

\* The thread of a content edit: by whom (save, bulk, upscale), of what, from which file.
Copy(by, owner, source, ops, parent) ==
    [kind |-> "render", by |-> by, of |-> owner, source |-> source, ops |-> ops, parent |-> parent]

Save(k, mode) ==
    LET s == session[k]
        ops == OpsOf(s.steps)
        saved == [key |-> k, mode |-> mode, shown |-> editor[k].shows, basis |-> editor[k].basis,
                  smooth |-> editor[k].smooth /\ \A r \in reqs : ~(r.kind = "apply" /\ r.key = k)]
    IN  /\ k \in DOMAIN editor /\ editor[k].seq > 0 /\ s.steps # <<>>
        /\ \A r \in reqs : ~("key" \in DOMAIN r /\ r.key = k /\ r.kind # "apply")
        /\ Owners(db, s.target) # {}
        /\ \E owner \in Owners(db, s.target) :
              New(With(saved, IF ~OrientationOnly(ops)
                              THEN Copy("save", owner, s.source, ops, IF s.target[1] = "version" THEN s.target[2] ELSE Nothing)
                              ELSE IF s.target[1] = "instance" THEN TurnPhoto(s.target[2], owner[2], ops)
                              ELSE TurnCopy(s.target, ops)))
        /\ UNCHANGED <<db, file, thumb, session, editor, failures>>

\* The picture is rendered; then an overwrite looks for the current version, whichever
\* version the session is about.  A file that is gone ends the request.
Rendered(r) ==
    LET cur == Current(db, r.of)
        dir == DirOf(db, r.of)
        fresh == Path(dir, "edits", r.n, Format(r.ops))
        v == CHOOSE v \in cur : TRUE
        over == r.by = "save" /\ r.mode = "overwrite" /\ cur # {}
        w == [kind |-> "write", pic |-> Render(file[r.source], r.ops), row |-> IF over THEN v ELSE Nothing,
              was |-> IF over THEN db.version[v].path ELSE Nothing,
              path |-> IF over THEN WithSuffix(db.version[v].path, Format(r.ops)) ELSE fresh]
    IN  /\ r.kind = "render"
        /\ IF r.source \in DOMAIN file THEN GoesOn(r, w) ELSE Over(r)
        /\ UNCHANGED <<db, file, thumb, session, editor, count, failures>>

\* A thread writes the file.
Written(r) ==
    /\ r.kind = "write" /\ file' = Put(file, r.path, r.pic)
    /\ GoesOn(r, [kind |-> "commit"])
    /\ UNCHANGED <<db, thumb, session, editor, count, failures>>

\* Mutant: the old file goes even when it is the new one.
OldFileGoes(r) ==
    /\ r.kind = "commit" /\ r.row # Nothing
    /\ file' = [x \in DOMAIN file \ {r.was} |-> file[x]]
    /\ db' = [db EXCEPT !.version[r.row].shows = r.pic, !.version[r.row].path = r.path]
    /\ GoesOn(r, [kind |-> "thumb"])
    /\ UNCHANGED <<thumb, session, editor, count, failures>>

\* Back on the loop: the version of an overwrite gets the new file, and its old one goes if
\* the format differs; the row is written with what has changed since it was read.
Overwritten(r) ==
    /\ r.kind = "commit" /\ r.row # Nothing
    /\ file' = IF r.was # r.path THEN [x \in DOMAIN file \ {r.was} |-> file[x]] ELSE file
    /\ db' = [db EXCEPT !.version[r.row].shows = r.pic,
                         !.version[r.row].path = IF r.was # r.path THEN r.path ELSE @]
    /\ GoesOn(r, [kind |-> "thumb"])
    /\ UNCHANGED <<thumb, session, editor, count, failures>>

Row(r) == [of |-> r.of, parent |-> r.parent, path |-> r.path, current |-> TRUE, shows |-> r.pic]

\* The threads of bulk edits and upscales; other requests are on the event loop.
Threads == {"bulk", "upscale"}

\* The current versions are found, and what replaces them is written by the commit: nothing
\* is locked in between.
CurrentRead(r) ==
    /\ r.kind = "commit" /\ r.row = Nothing
    /\ GoesOn(r, [kind |-> "insert", seen |-> Current(db, r.of)])
    /\ UNCHANGED <<db, file, thumb, session, editor, count, failures>>

Inserted(r) ==
    /\ r.kind = "insert"
    /\ db' = AddVersion(db, r.seen, Row(r))
    /\ GoesOn(r, [kind |-> IF r.by = "upscale" THEN "clean" ELSE "thumb", row |-> NewId(db.version)])
    /\ UNCHANGED <<file, thumb, session, editor, count, failures>>

\* The small thumbnails of the version are made anew; a larger one in the cache stays.  The
\* editor closes after a save.
Closed(r) == [k \in DOMAIN editor \ {IF "key" \in DOMAIN r THEN r.key ELSE Nothing} |-> editor[k]]

VersionThumb(r) ==
    /\ r.kind = "thumb"
    /\ thumb' = IF r.path \in DOMAIN file THEN Put(thumb, <<"version", r.row, "small">>, file[r.path]) ELSE thumb
    /\ editor' = Closed(r)
    /\ IF r.by = "save" THEN GoesOn(r, [kind |-> "dedupe"]) ELSE Over(r)
    /\ UNCHANGED <<db, file, session, count, failures>>

\* Mutant: every face found in a version gets the same file name.
OneCrop(v, j) == Path("_unknown", "faces", <<v, 1>>, "jpeg")

CropName(v, j) == Path("_unknown", "faces", <<v, j>>, "jpeg")

\* _run_version_face_dedupe: each face found in the version is written as a crop of the
\* version's number and its own; a known one is removed again, a new one gets a row.
Dedupe(r, found) ==
    LET Crops(as) == {CropName(r.row, j) : j \in {i \in DOMAIN found : found[i] = as}}
    IN  /\ r.kind = "dedupe" /\ Over(r)
        /\ IF r.row \in DOMAIN db.version /\ db.version[r.row].path \in DOMAIN file
           THEN /\ file' = With([x \in Crops("new") |-> file[db.version[r.row].path]],
                                [x \in DOMAIN file \ Crops("known") |-> file[x]])
                /\ db' = [db EXCEPT !.derived = @ \cup
                              {[crop |-> CropName(r.row, j), found |-> Append(r.n, j)] : j \in {i \in DOMAIN found : found[i] = "new"}}]
           ELSE UNCHANGED <<file, db>>
        /\ UNCHANGED <<thumb, session, editor, count, failures>>

(***************************************************************************)
(* Turning a photo, a face crop or a version in place.                      *)
(***************************************************************************)
\* One file after the other; one that is missing ends the request, whatever was turned.
TurnFile(r) ==
    /\ r.kind = "turn"
    /\ \E next \in DOMAIN r.paths \ r.done :
          LET x == r.paths[next]
          IN  /\ IF r.first \notin r.done THEN next = r.first ELSE \A j \in DOMAIN r.paths \ r.done : next <= j
              /\ IF x \in DOMAIN file
                 THEN /\ file' = [file EXCEPT ![x] = Render(@, r.ops)]
                      /\ GoesOn(r, [done |-> r.done \cup {next}, from |-> IF next = r.first THEN Size(file[x]) ELSE r.from])
                 ELSE Over(r) /\ UNCHANGED file
    /\ UNCHANGED <<db, thumb, session, editor, count, failures>>

\* _rekey_processing_ledger: the row of the hash as it was read at the start.
Rekeyed(ledger, old, new) ==
    IF old = new \/ old \notin ledger THEN ledger ELSE (ledger \ {old}) \cup {new}

\* Mutant: the boxes of the faces stay.
BoxesStay(d, a, ops, size) == d.box

\* Every face of the photo has its box turned in the picture as the edited instance had it.
BoxesTurned(d, a, ops, size) ==
    [f \in Face |-> IF PhotoOf[f] = a THEN TransformBbox(d.box[f], ops, size) ELSE d.box[f]]

\* The photo's row follows the edited instance; content_hash is unique.
PhotoTurned(r) ==
    LET a == r.target[2]
        p == file[r.paths[r.first]]
        taken == \E b \in Asset \ {a} : db.photo[b].hash = p
    IN  /\ r.kind = "turn" /\ r.target[1] = "instance" /\ r.done = DOMAIN r.paths
        /\ IF r.paths[r.first] \notin DOMAIN file \/ taken THEN Over(r) /\ UNCHANGED db
           ELSE /\ db' = [db EXCEPT !.photo[a] = [hash |-> p, size |-> FoldLeft(SizeAfter, r.from, r.ops)],
                                    !.ledger = Rekeyed(@, r.hash, p),
                                    !.box = BoxesTurned(db, a, r.ops, r.from)]
                /\ GoesOn(r, [kind |-> "drop"])
        /\ UNCHANGED <<file, thumb, session, editor, count, failures>>

\* Mutant: the thumbnails stay.
ThumbsStay(r) ==
    /\ r.kind = "drop" /\ editor' = Closed(r)
    /\ reqs' = {IF "job" \in DOMAIN r /\ q.n = r.job THEN [q EXCEPT !.done = @ \cup {r.target[2]}] ELSE q : q \in reqs \ {r}}
    /\ UNCHANGED <<db, file, thumb, session, count, failures>>

\* delete_thumbnails.  A bulk edit that asked for the turn notes the photo as done.
ThumbsDropped(r) ==
    /\ r.kind = "drop"
    /\ reqs' = {IF "job" \in DOMAIN r /\ q.n = r.job THEN [q EXCEPT !.done = @ \cup {r.target[2]}] ELSE q : q \in reqs \ {r}}
    /\ thumb' = [t \in {u \in DOMAIN thumb : <<u[1], u[2]>> # <<"asset", r.target[2]>>} |-> thumb[t]]
    /\ editor' = Closed(r)
    /\ UNCHANGED <<db, file, session, count, failures>>

\* A version's or a face's row follows its file, and the thumbnails are made anew.
CopyTurned(r) ==
    LET t == r.target
        x == r.paths[0]
    IN  /\ r.kind = "turn" /\ t[1] # "instance" /\ r.done = DOMAIN r.paths
        /\ Over(r)
        /\ db' = IF t[1] = "version" THEN [db EXCEPT !.version[t[2]].shows = Render(@, r.ops)] ELSE db
        /\ thumb' = IF x \in DOMAIN file THEN Put(thumb, <<t[1], t[2], "small">>, file[x]) ELSE thumb
        /\ editor' = Closed(r)
        /\ UNCHANGED <<file, session, count, failures>>

(***************************************************************************)
(* Other ways to a version.                                                 *)
(***************************************************************************)
\* A bulk edit goes through the live instances of the photos as they are at its start; a
\* turn takes all instances of a photo at once and, when it fails, is tried again for the next.
BulkEdit(S, op) ==
    LET I == {i \in Inst : db.inst[i].live /\ AssetOf[i] \in S}
    IN  /\ New([kind |-> "bulk", op |-> op, done |-> {}, todo |-> [i \in I |-> db.inst[i].path]])
        /\ UNCHANGED <<db, file, thumb, session, editor, failures>>

BulkNext(r) ==
    /\ r.kind = "bulk" /\ ~\E q \in reqs : "job" \in DOMAIN q /\ q.job = r.n
    /\ \/ DOMAIN r.todo = {} /\ Over(r)
       \/ \E i \in DOMAIN r.todo :
             LET a     == AssetOf[i]
                 rest  == [todo |-> [j \in DOMAIN r.todo \ {i} |-> r.todo[j]]]
                 As(q) == With([n |-> <<r.n[1], i>>, job |-> r.n], q)
             IN  /\ \A j \in DOMAIN r.todo : i <= j
                 /\ IF r.op \notin Orientation
                    THEN reqs' = (reqs \ {r}) \cup {With(rest, r), As(Copy("bulk", <<"instance", i>>, r.todo[i], <<r.op>>, Nothing))}
                    ELSE IF a \in r.done THEN GoesOn(r, rest)
                    ELSE reqs' = (reqs \ {r}) \cup {With(rest, r), As(TurnPhoto(a, i, <<r.op>>))}
    /\ UNCHANGED <<db, file, thumb, session, editor, count, failures>>

\* An uploaded file is written and the current versions are found; Inserted makes it a version.
ImportVersion(a) ==
    LET owner == <<"instance", Min(LiveOf(db, a))>>
        r == [kind |-> "insert", by |-> "import", of |-> owner, parent |-> Nothing, row |-> Nothing, was |-> Nothing,
              pic |-> Uploaded, path |-> Path(DirOf(db, owner), "edits", NewName, "png"), seen |-> Current(db, owner)]
    IN  /\ LiveOf(db, a) # {} /\ New(r)
        /\ file' = Put(file, r.path, r.pic)
        /\ UNCHANGED <<db, thumb, session, editor, failures>>

\* A version of the photo's first instance or of one of its faces is to be the current one.
SetCurrent(a, v) ==
    LET owner == db.version[v].of
    IN  /\ LiveOf(db, a) # {}
        /\ IF owner[1] = "instance" THEN owner[2] = Min(LiveOf(db, a)) ELSE PhotoOf[owner[2]] = a
        /\ New([kind |-> "pick", by |-> "set", of |-> owner, row |-> v, was |-> db.version[v].current])
        /\ UNCHANGED <<db, file, thumb, session, editor, failures>>

SiblingsRead(r) ==
    /\ r.kind = "pick" /\ GoesOn(r, [kind |-> "switch", seen |-> Current(db, r.of)])
    /\ UNCHANGED <<db, file, thumb, session, editor, count, failures>>

\* A flag that is to be as it was read is not written.
FlagThen(r, w) == IF w = r.row THEN db.version[w].current \/ ~r.was ELSE db.version[w].current /\ w \notin r.seen

Switched(r) ==
    /\ r.kind = "switch" /\ Over(r)
    /\ db' = [db EXCEPT !.version = [w \in DOMAIN @ |-> [@[w] EXCEPT !.current = FlagThen(r, w)]]]
    /\ UNCHANGED <<file, thumb, session, editor, count, failures>>

\* Between its SELECT of the current versions and its commit a request on the event loop awaits
\* nothing: it comes to its end, unless the process does, and only the threads that insert
\* versions get in between.  (Other threads neither read nor write what it does.)
OnLoop(r) == r.kind \in {"pick", "switch"} \/ (r.kind = "insert" /\ r.by \notin Threads)
LoopKept == \A r \in reqs : OnLoop(r) =>
    \/ r \notin reqs'
    \/ \E q \in reqs : q.kind \in {"commit", "insert"} /\ q.by \in Threads /\ q \notin reqs'

(***************************************************************************)
(* Thumbnails on demand: made from the file in a thread, stored in another. *)
(***************************************************************************)
ThumbMiss(t, x) ==
    /\ t \notin DOMAIN thumb /\ x \in DOMAIN file
    /\ New([kind |-> "get", of |-> t, pic |-> file[x]])
    /\ UNCHANGED <<db, file, thumb, session, editor, failures>>
GetThumbnail(t) ==
    IF t[1] = "asset" THEN LiveOf(db, t[2]) # {} /\ ThumbMiss(t, Source(db, <<"instance", t[2]>>))
    ELSE ThumbMiss(t, db.version[t[2]].path)

ThumbStored(r) ==
    /\ r.kind = "get" /\ Over(r)
    /\ thumb' = Put(thumb, r.of, r.pic)
    /\ UNCHANGED <<db, file, session, editor, count, failures>>

(***************************************************************************)
(* The rest of the library, as far as it meets edits.                       *)
(***************************************************************************)
\* rename_person_folder: instances and crops follow, versions do not.  The unknown person
\* keeps its name.
Moved(x, dir, new) == IF x.dir = dir /\ x.sub # "trash" THEN Path(new, x.sub, x.name, x.ext) ELSE x

RenameFolder(dir, new) ==
    LET To(x) == Moved(x, dir, new)
        Back(x) == IF x.dir = new THEN Path(dir, x.sub, x.name, x.ext) ELSE x
    IN  /\ dir # "_unknown" /\ new \notin {x.dir : x \in DOMAIN file}
        /\ count < MaxRequests /\ count' = count + 1
        /\ file' = [x \in {To(z) : z \in DOMAIN file} |-> file[Back(x)]]
        /\ db' = [db EXCEPT !.inst = [i \in Inst |-> [path |-> To(@[i].path), live |-> @[i].live]],
                            !.crop = [f \in Face |-> To(@[f])]]
        /\ UNCHANGED <<thumb, session, editor, reqs, failures>>

\* soft_delete and restore of an instance, whose file is moved to the trash and back.
TrashOrRestore(i) ==
    LET x == db.inst[i].path
        y == Path(x.dir, IF db.inst[i].live THEN "trash" ELSE "photos", x.name, x.ext)
    IN  /\ x \in DOMAIN file
        /\ count < MaxRequests /\ count' = count + 1
        /\ db' = [db EXCEPT !.inst[i] = [path |-> y, live |-> ~@.live]]
        /\ file' = [z \in (DOMAIN file \ {x}) \cup {y} |-> IF z = y THEN file[x] ELSE file[z]]
        /\ UNCHANGED <<thumb, session, editor, reqs, failures>>

Crash == /\ reqs # {} /\ failures < MaxFailures
         /\ failures' = failures + 1 /\ reqs' = {} /\ editor' = <<>>
         /\ UNCHANGED <<db, file, thumb, session, count>>

InitIn(w) == /\ db = w.db /\ file = w.file /\ session = w.session /\ editor = w.editor
             /\ thumb = <<>> /\ reqs = {} /\ count = 0 /\ failures = 0

Thumbs == {<<"asset", a, "small">> : a \in Asset} \cup {<<"version", v, s>> : v \in DOMAIN db.version, s \in {"small", "large"}}

Requests ==
    \/ \E k \in Key :
          \/ \E op \in Ops : ApplyStart(k, op)
          \/ k \in DOMAIN editor /\ \E seq \in 0..(editor[k].seq - 1) : Rollback(k, seq)
          \/ \E mode \in {"overwrite", "new_copy"} : Save(k, mode)
    \/ \E S \in SUBSET Asset \ {{}} : \E op \in BulkOps : BulkEdit(S, op)
    \/ \E a \in Asset : ImportVersion(a) \/ \E v \in DOMAIN db.version : SetCurrent(a, v)
    \/ \E t \in Thumbs : GetThumbnail(t)
    \/ \E i \in Inst : TrashOrRestore(i)

Steps == \E r \in reqs :
    \/ ApplyDone(r)
    \/ Rendered(r) \/ Written(r) \/ Overwritten(r) \/ CurrentRead(r) \/ Inserted(r) \/ VersionThumb(r)
    \/ \E found \in {<<>>, <<"new">>, <<"known">>, <<"new", "new">>} : Dedupe(r, found)
    \/ TurnFile(r) \/ PhotoTurned(r) \/ ThumbsDropped(r) \/ CopyTurned(r)
    \/ BulkNext(r) \/ SiblingsRead(r) \/ Switched(r) \/ ThumbStored(r)


(***************************************************************************)
(* Properties.                                                              *)
(***************************************************************************)
TurnsOf(t) == {r \in reqs : r.kind = "turn" /\ r.target = t}

\* Request r ends in this step without having written its rows, by a crash or an error.
Cut(r) == r.kind \in {"turn", "render", "write", "commit", "insert"} /\ db' = db /\ ~\E q \in reqs' : q.n = r.n

Renames == \E i \in Inst : RenameFolder(db.inst[i].path.dir, "renamed")

\* Photo a's row describes the file of each of its instances, its boxes frame its faces and
\* its ledger row has its hash; an overwrite under way has turned what it says it has.
InFrame(a) ==
    LET p == db.photo[a].hash
        turns == TurnsOf(<<"instance", a>>)
    IN  /\ Lone(turns)
        /\ \A i \in LiveOf(db, a) :
              /\ db.inst[i].path \in DOMAIN file
              /\ file[db.inst[i].path] = IF \E r \in turns : i \in r.done THEN Render(p, (CHOOSE r \in turns : TRUE).ops) ELSE p
        /\ db.photo[a].size = Size(p) /\ p \in db.ledger
        /\ \A f \in Face : PhotoOf[f] = a => Inside(p, db.box[f]) = Spot[f]
        /\ \A r \in turns : /\ r.hash = p /\ \A i \in LiveOf(db, a) : i \in DOMAIN r.paths /\ r.paths[i] = db.inst[i].path
                            /\ r.first \in r.done => r.from = Size(p)

\* Turning a photo turns every instance, its row, its ledger row and the boxes of its faces
\* alike (overwrite_instance).  Except: two overwrites of the photo at once, one cut short
\* after it has turned a file, a restored instance that was in the trash meanwhile, and a
\* folder that is renamed under an overwrite.
PhotosInFrame ==
    [][\A a \in Asset : InFrame(a) =>
          \/ InFrame(a)'
          \/ ~Lone(TurnsOf(<<"instance", a>>)')
          \/ \E r \in TurnsOf(<<"instance", a>>) : r.done # {} /\ Cut(r)
          \/ \E i \in Inst : AssetOf[i] = a /\ TrashOrRestore(i) /\ (db.inst[i].live => TurnsOf(<<"instance", a>>) # {})
          \/ Renames /\ TurnsOf(<<"instance", a>>) # {}]_vars

Writers(v) == {r \in reqs : r.kind \in {"write", "commit"} /\ r.row = v} \cup TurnsOf(<<"version", v>>)

\* Version v has a file of its own with the picture that was saved last.
Kept(v) ==
    LET x == db.version[v].path
        Is(pic) == x \in DOMAIN file /\ file[x] = pic
    IN  /\ Lone(Writers(v))
        /\ \A u \in DOMAIN db.version \ {v} : db.version[u].path # x
        /\ IF Writers(v) = {} THEN Is(db.version[v].shows)
           ELSE \A w \in Writers(v) :
                   CASE w.kind = "turn"   -> /\ w.paths[0] = x
                                             /\ Is(IF w.done = {} THEN db.version[v].shows ELSE Render(db.version[v].shows, w.ops))
                     [] w.kind = "write"  -> w.was = x /\ Is(db.version[v].shows)
                     [] w.kind = "commit" -> /\ w.was = x /\ w.path \in DOMAIN file /\ file[w.path] = w.pic
                                             /\ w.was = w.path \/ Is(db.version[v].shows)

\* A version keeps its file and what was saved in it.
FilesKept ==
    \A v \in DOMAIN db'.version : (v \in DOMAIN db.version => Kept(v)) =>
          \/ Kept(v)'
          \/ ~Lone(Writers(v)')
          \/ \E r \in Writers(v) : Cut(r)
          \/ Renames
          \/ v \notin DOMAIN db.version /\ db'.version[v].path \notin DOMAIN file'

Targets(d) == {d.version[v].of : v \in DOMAIN d.version}

\* What request r has read of the current version of t is no longer so.
Overtaken(r) == r.seen # Current(db, r.of) \/ (r.kind = "switch" /\ r.was # db.version[r.row].current)

\* A thread's request for a version of t, which is inserted or about to be.
ThreadFor(t, q) == "by" \in DOMAIN q /\ q.by \in Threads /\ q.of = t

\* An instance or a face keeps one version that is the current one.
OneCurrent ==
    \A t \in Targets(db') : (t \in Targets(db) => Cardinality(Current(db, t)) = 1) =>
          \/ Cardinality(Current(db', t)) = 1
          \/ /\ \E r \in reqs : (Inserted(r) \/ Switched(r)) /\ r.of = t /\ Overtaken(r)
             /\ \E q \in reqs : ThreadFor(t, q)

\* A version, new or old, keeps its file and what was saved in it, through saves of other versions,
\* conversions to another format, bulk edits and imports, and "genau eine Version pro instance/face
\* ist 1" (docs/models.md:425): one of them is the current one, whichever requests for the photo or
\* the face are under way on the event loop.  Except: two requests that write one version at once, one
\* cut short, and renamed folders, which versions do not follow.  And the current one is lost or doubled
\* when the thread of a bulk edit or an upscale and another request for the same photo or face have each
\* read the current versions before the other has written them.
VersionsKept == [][FilesKept /\ OneCurrent]_vars

\* What is saved is what the editor showed: steps applied and rolled back one after the other
\* are the steps the save renders, of a source that has not changed since.
SaveIsShown ==
    [][/\ \A r \in reqs' \ reqs : r.kind = "write" /\ r.by = "save" /\ r.smooth /\ file[r.source] = r.basis => r.pic = r.shown
       /\ \A r \in reqs : /\ TurnFile(r) /\ r.done = {} /\ "key" \in DOMAIN r /\ r.smooth
                          /\ r.paths[r.first] \in DOMAIN file /\ file[r.paths[r.first]] = r.basis
                          => file'[r.paths[r.first]] = r.shown]_vars

CropsOf(d) == {c.crop : c \in d.derived}

\* A face found in a version has a crop of its own.  Except: the version is overwritten and
\* its faces are looked for again, under the same names.
CropsApart ==
    [][/\ CropsOf(db) \subseteq DOMAIN file /\ Cardinality(CropsOf(db)) = Cardinality(db.derived)
       => \/ CropsOf(db') \subseteq DOMAIN file' /\ Cardinality(CropsOf(db')) = Cardinality(db'.derived)
          \/ \E r \in reqs : r.kind = "dedupe" /\ r \notin reqs' /\ \E x \in CropsOf(db) : x.name[1] = r.row]_vars

PathOfCopy(t) == IF t[1] = "version" THEN db.version[t[2]].path ELSE db.crop[t[2]]

\* A cached thumbnail shows the picture, or is about to be replaced.
Fresh(t) ==
    IF t[1] = "asset"
    THEN \/ thumb[t] = db.photo[t[2]].hash
         \/ \E r \in reqs : r.kind = "drop" /\ r.target[2] = t[2]
    ELSE \/ PathOfCopy(t) \in DOMAIN file => thumb[t] = file[PathOfCopy(t)]
         \/ TurnsOf(<<t[1], t[2]>>) # {}
         \/ t[1] = "version" /\ \E r \in reqs : r.kind \in {"write", "commit", "thumb"} /\ r.row = t[2]

\* Request r makes thumbnail t of a file that is no longer the version's.
OldPath(r, t) == \/ VersionThumb(r) /\ <<"version", r.row>> = <<t[1], t[2]>> /\ r.path # PathOfCopy(t)
                 \/ CopyTurned(r) /\ r.target = <<t[1], t[2]>> /\ r.paths[0] # PathOfCopy(t)

\* Overwriting refreshes the thumbnails.  Except: one that was made before and is stored
\* afterwards, the large one of a version, one of a file that another save has replaced by one of
\* another format, and what a crash, an error or a renamed folder leaves.
ThumbsFollow ==
    [][\A t \in DOMAIN thumb' : (t \in DOMAIN thumb => Fresh(t)) =>
          \/ Fresh(t)'
          \/ t[3] = "large"
          \/ \E r \in reqs : (r.kind = "get" /\ r.of = t /\ ThumbStored(r)) \/ OldPath(r, t)
          \/ t[1] # "asset" /\ Renames
          \/ Crash \/ \E r \in reqs : Cut(r)]_vars
=============================================================================
