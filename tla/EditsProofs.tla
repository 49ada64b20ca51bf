---------------------------- MODULE EditsProofs ---------------------------
(***************************************************************************)
(* Proofs about Comfy and the module Edits it extends: edit sessions,       *)
(* versions and the runs of ComfyUI, for any library, sessions, workflows   *)
(* and numbers of requests that EditsAssumption allows.                     *)
(*                                                                         *)
(* EditInv says which names are taken: every version, every file of an edit *)
(* and every request under way has a name of its own, and a request that    *)
(* overwrites a version writes under that version's name.  The properties   *)
(* follow from it step by step.                                             *)
(***************************************************************************)
EXTENDS Comfy, FiniteSetTheorems, TLAPS

\* The name under which the files of a version go.
NameOf(d, v) == d.version[v].path.name

\* Nothing has a name yet of a request of these kinds.
Early == {"render", "queued", "upload", "wait", "fetch"}

\* The names a request will give, or has given to a file no row has yet.
Claims(r) ==
    IF r.kind = "bulk" THEN {<<r.n[1], i>> : i \in DOMAIN r.todo}
    ELSE IF r.kind \in Early \cup {"insert", "check", "add"} \/ (r.kind \in {"write", "commit"} /\ r.row = Nothing)
    THEN {r.n} ELSE {}

\* Rows, versions and crops have what the code reads of them; no two versions, and no two crops,
\* share a name.
RowsOk ==
    /\ DOMAIN db = {"photo", "inst", "box", "crop", "version", "ledger", "derived"}
    /\ DOMAIN db.photo = Asset /\ DOMAIN db.inst = Inst /\ DOMAIN db.crop = Face
    /\ \A i \in Inst : DOMAIN db.inst[i] = {"path", "live"} /\ db.inst[i].path.sub \in {"photos", "trash"}
    /\ \A f \in Face : db.crop[f].sub = "faces" /\ Len(db.crop[f].name) # 2
    /\ \A f, g \in Face : f # g => db.crop[f].name # db.crop[g].name
    /\ DOMAIN db.version \subseteq Nat /\ IsFiniteSet(DOMAIN db.version)
    /\ \A v \in DOMAIN db.version :
          /\ DOMAIN db.version[v] = {"of", "parent", "path", "current", "shows"}
          /\ db.version[v].path.sub = "edits" /\ NameOf(db, v)[1] \in Int /\ NameOf(db, v)[1] <= count
    /\ \A v, u \in DOMAIN db.version : v # u => NameOf(db, v) # NameOf(db, u)
    /\ IsFiniteSet(db.derived)
    /\ \A c \in db.derived : c.crop.dir = "_unknown" /\ c.crop.sub = "faces"

\* Every file has a path, and files of edits have names that were given before.
FilesOk ==
    \A x \in DOMAIN file : /\ x = Path(x.dir, x.sub, x.name, x.ext)
                           /\ x.sub = "edits" => x.name[1] \in Int /\ x.name[1] <= count

\* Requests and what they claim are apart.
NamesOk ==
    /\ count \in Nat
    /\ \A r \in reqs : {"kind", "n"} \subseteq DOMAIN r /\ r.n[1] \in Int /\ r.n[1] <= count
    /\ \A q, r \in reqs : q.n = r.n => q = r
    /\ \A b, q \in reqs : b.kind = "bulk" => q.n \notin Claims(b)
    /\ \A q, r \in reqs : q # r => Claims(q) \cap Claims(r) = {}
    /\ \A r \in reqs : "job" \in DOMAIN r => /\ r.job = <<r.job[1], 0>> /\ r.job[1] \in Int /\ r.job[1] <= count
                                             /\ \A q \in reqs : q.n = r.job => q.kind = "bulk"

\* A request that is about to write a version, or a photo.
Writing(r) == /\ {"by", "of", "parent", "row", "was", "path", "pic"} \subseteq DOMAIN r
              /\ r.path = Path(r.path.dir, r.path.sub, r.path.name, r.path.ext) /\ r.path.sub = "edits"
              /\ r.row = Nothing => r.path.name = r.n

\* A request that turns a photo, a crop or a version in place: its paths are those of its target.
Turning(r) ==
    LET t == r.target
    IN  /\ {"target", "ops", "paths", "first", "done", "from", "hash"} \subseteq DOMAIN r
        /\ t = <<t[1], t[2]>> /\ r.first \in DOMAIN r.paths /\ r.done \subseteq DOMAIN r.paths
        /\ \/ /\ t[1] = "instance" /\ t[2] \in Asset
              /\ \A j \in DOMAIN r.paths : r.paths[j].sub \in {"photos", "trash"}
           \/ /\ t[1] = "face" /\ t[2] \in Face /\ DOMAIN r.paths = {0}
              /\ r.paths[0].sub = "faces" /\ r.paths[0].name = db.crop[t[2]].name
           \/ /\ t[1] = "version" /\ t[2] \in DOMAIN db.version /\ DOMAIN r.paths = {0}
              /\ r.paths[0].sub = "edits" /\ r.paths[0].name = NameOf(db, t[2])

\* A photo, a version or a face, and the size.
Thumbnail(t) == /\ t = <<t[1], t[2], t[3]>> /\ t[3] \in {"small", "large"}
                /\ (t[1] = "asset" /\ t[2] \in Asset) \/ t[1] = "version" \/ (t[1] = "face" /\ t[2] \in Face)

\* What a request carries, by its kind.
Shaped(r) ==
    /\ r.kind \in {"queued", "upload", "wait", "fetch"} => "target" \in DOMAIN r
    /\ r.kind = "render" => {"by", "of", "source", "ops", "parent"} \subseteq DOMAIN r
    /\ r.kind \in {"write", "commit"} =>
          /\ Writing(r)
          /\ r.row # Nothing => /\ r.row \in DOMAIN db.version
                                /\ r.path.name = NameOf(db, r.row) /\ r.was.name = NameOf(db, r.row) /\ r.was.sub = "edits"
    /\ r.kind = "insert" => /\ Writing(r) /\ r.row = Nothing /\ "seen" \in DOMAIN r
                            /\ \A v \in r.seen : v \in DOMAIN db.version /\ db.version[v].of = r.of
    /\ r.kind \in {"pick", "switch"} => /\ {"by", "of", "row", "was"} \subseteq DOMAIN r
                                        /\ r.row \in DOMAIN db.version /\ db.version[r.row].of = r.of
    /\ r.kind = "switch" => "seen" \in DOMAIN r /\ \A v \in r.seen : v \in DOMAIN db.version /\ db.version[v].of = r.of
    /\ r.kind \in {"check", "add"} => /\ {"path", "pic", "target"} \subseteq DOMAIN r /\ r.target[1] = "instance"
                                      /\ r.path.sub = "edits" /\ r.path.name = r.n
    /\ r.kind = "thumb" => {"row", "path", "by"} \subseteq DOMAIN r /\ r.row \in DOMAIN db.version
    /\ r.kind = "clean" => \/ "target" \in DOMAIN r /\ r.target[1] = "instance"
                           \/ {"row", "path", "by"} \subseteq DOMAIN r /\ r.row \in DOMAIN db.version
    /\ r.kind = "turn" => Turning(r)
    /\ r.kind = "drop" => "target" \in DOMAIN r
    /\ r.kind = "get" => {"of", "pic"} \subseteq DOMAIN r /\ Thumbnail(r.of) /\ (r.of[1] = "version" => r.of[2] \in DOMAIN db.version)
    /\ r.kind = "bulk" => {"op", "done", "todo"} \subseteq DOMAIN r /\ DOMAIN r.todo \subseteq Inst /\ r.n = <<r.n[1], 0>>
                          /\ \A i \in DOMAIN r.todo : r.todo[i].sub \in {"photos", "trash"}

\* What a request claims is no version's name; and no file's, until it is written.
Unused(r) ==
    /\ \A v \in DOMAIN db.version : NameOf(db, v) \notin Claims(r)
    /\ r.kind \in Early \cup {"bulk", "write"} => \A x \in DOMAIN file : x.sub = "edits" => x.name \notin Claims(r)
    /\ r.kind \in {"commit", "insert"} => \A x \in DOMAIN file : x.sub = "edits" /\ x.name \in Claims(r) => file[x] = r.pic

\* A request carries what it needs, and what it will write is free.
Fits(r) == Shaped(r) /\ Unused(r)

\* Thumbnails of versions are of versions there are.
ThumbsOk == \A t \in DOMAIN thumb : Thumbnail(t) /\ (t[1] = "version" => t[2] \in DOMAIN db.version)

\* The inductive invariant.
EditInv == RowsOk /\ FilesOk /\ NamesOk /\ (\A r \in reqs : Fits(r)) /\ ThumbsOk

\* Sessions are about what there is, and editors about sessions.
SessionsOk ==
    /\ \A k \in DOMAIN session :
          LET t == session[k].target
          IN  /\ DOMAIN session[k] = {"target", "source", "steps"}
              /\ \/ t[1] = "instance" /\ t[2] \in Asset
                 \/ t[1] = "face" /\ t[2] \in Face
                 \/ t[1] = "version" /\ t[2] \in DOMAIN db.version
              /\ t = <<t[1], t[2]>>
    /\ DOMAIN editor \subseteq DOMAIN session

\* Applies under way.
Applies == {r \in reqs : r.kind = "apply"}

\* The editor of session k shows what its steps have made, as long as it has seen each answer.
Straight(k) ==
    LET e == editor[k]
        steps == session[k].steps
    IN  /\ DOMAIN e = {"seq", "shows", "basis", "smooth"} /\ e.smooth \in BOOLEAN
        /\ e.smooth =>
           /\ e.seq \in Nat /\ DOMAIN steps = 1..e.seq
           /\ e.shows = IF e.seq = 0 THEN Nothing ELSE steps[e.seq].shows
           /\ \A j \in 1..e.seq : steps[j].shows = Render(e.basis, [i \in 1..j |-> steps[i].op])
           /\ \A r \in Applies : r.key = k => /\ r.seq = e.seq + 1
                                              /\ r.ops = [i \in 1..r.seq |-> IF i = r.seq THEN r.op ELSE steps[i].op]

\* A request to save or to turn recalls what the editor showed.
Recalls(r) ==
    /\ r.kind = "render" /\ r.by = "save" => "key" \in DOMAIN r
    /\ r.kind \in {"render", "turn"} /\ "key" \in DOMAIN r =>
          /\ {"shown", "basis", "smooth", "ops"} \subseteq DOMAIN r
          /\ r.smooth => r.shown = Render(r.basis, r.ops)

\* At most one apply per session is under way, editors are straight and requests recall what was
\* shown.
EditorsOk ==
    /\ \A r \in Applies : {"key", "op", "ops", "seq"} \subseteq DOMAIN r
    /\ \A q, r \in Applies : q.key = r.key => q = r
    /\ \A k \in DOMAIN editor : Straight(k)
    /\ \A r \in reqs : Recalls(r)

-----------------------------------------------------------------------------
(* What a step does to names and files.                                      *)

\* The step gives no version and no file of an edit a name but nm, and takes none away.
Renamed(nm) ==
    /\ count' \in Nat /\ count <= count'
    /\ DOMAIN db.version \subseteq DOMAIN db'.version
    /\ \A v \in DOMAIN db.version : NameOf(db', v) = NameOf(db, v) /\ db'.version[v].of = db.version[v].of
    /\ \A v \in DOMAIN db'.version \ DOMAIN db.version : NameOf(db', v) = nm
    /\ \A f \in Face : db'.crop[f].name = db.crop[f].name

\* It leaves the files of edits alone, but for those with the name nm.
Spares(nm) ==
    \A x : x.sub = "edits" /\ x.name # nm =>
        /\ x \in DOMAIN file' <=> x \in DOMAIN file
        /\ x \in DOMAIN file => file'[x] = file[x]

\* Or it moves them.
Moves(nm) ==
    \A x \in DOMAIN file' : x.sub = "edits" /\ x.name # nm =>
        \E y \in DOMAIN file : y.sub = "edits" /\ y.name = x.name /\ file'[x] = file[y]

\* Files left alone are not renamed.
LEMMA SparedMoves ==
  ASSUME NEW nm, Spares(nm)
  PROVE  Moves(nm)
BY DEF Spares, Moves

\* So what has nothing to do with that name fits as before.
LEMMA StaysFit ==
  ASSUME NEW nm, NEW r, Fits(r), nm \notin Claims(r), Renamed(nm), Moves(nm)
  PROVE  Fits(r)'
<1>1. Shaped(r)'
  BY DEF Fits, Shaped, Turning, Writing, Renamed
<1>2. Unused(r)'
  <2>1. \A v \in DOMAIN db'.version : NameOf(db', v) \notin Claims(r)
    BY DEF Fits, Unused, Renamed
  <2>2. ASSUME r.kind \in Early \cup {"bulk", "write"}, NEW x \in DOMAIN file', x.sub = "edits"
        PROVE  x.name \notin Claims(r)
    BY <2>2 DEF Fits, Unused, Moves
  <2>3. ASSUME r.kind \in {"commit", "insert"}, NEW x \in DOMAIN file', x.sub = "edits", x.name \in Claims(r)
        PROVE  file'[x] = r.pic
    BY <2>3 DEF Fits, Unused, Moves
  <2> QED BY <2>1, <2>2, <2>3 DEF Unused
<1> QED BY <1>1, <1>2 DEF Fits

-----------------------------------------------------------------------------
(* Requests that come, go on and go.                                         *)

\* Requests that go away leave names apart.
LEMMA Going ==
  ASSUME NamesOk, reqs' \subseteq reqs, count' \in Nat, count <= count'
  PROVE  NamesOk'
BY DEF NamesOk

\* So does one that goes on and claims no more than it did.
LEMMA GoingOn ==
  ASSUME NamesOk, NEW r \in reqs, NEW s, reqs' = (reqs \ {r}) \cup {s}, count' \in Nat, count <= count',
         {"kind", "n"} \subseteq DOMAIN s, s.n = r.n, Claims(s) \subseteq Claims(r), s.kind = "bulk" <=> r.kind = "bulk",
         "job" \in DOMAIN s => "job" \in DOMAIN r /\ s.job = r.job
  PROVE  NamesOk'
<1>1. \A q, p \in reqs' : q.n = p.n => q = p
  BY DEF NamesOk
<1>2. \A b, q \in reqs' : b.kind = "bulk" => q.n \notin Claims(b)
  BY DEF NamesOk
<1>3. \A q, p \in reqs' : q # p => Claims(q) \cap Claims(p) = {}
  BY DEF NamesOk
<1>4. \A q \in reqs' : {"kind", "n"} \subseteq DOMAIN q /\ q.n[1] \in Int /\ q.n[1] <= count'
  BY DEF NamesOk
<1>5. \A q \in reqs' : "job" \in DOMAIN q => /\ q.job = <<q.job[1], 0>> /\ q.job[1] \in Int /\ q.job[1] <= count'
                                            /\ \A p \in reqs' : p.n = q.job => p.kind = "bulk"
  BY DEF NamesOk
<1> QED BY <1>1, <1>2, <1>3, <1>4, <1>5 DEF NamesOk

\* And a new one, whose names are the next.
LEMMA Coming ==
  ASSUME NamesOk, NEW s, reqs' = reqs \cup {s}, count' = count + 1,
         {"kind", "n"} \subseteq DOMAIN s, s.n = NewName, \A c \in Claims(s) : c[1] = count + 1,
         s.kind = "bulk" => s.n \notin Claims(s), "job" \notin DOMAIN s,
         \A q \in reqs : \A c \in Claims(q) : c[1] \in Int /\ c[1] <= count
  PROVE  NamesOk'
<1>1. \A q, p \in reqs' : q.n = p.n => q = p
  BY DEF NamesOk, NewName
<1>2. \A b, q \in reqs' : b.kind = "bulk" => q.n \notin Claims(b)
  BY DEF NamesOk, NewName
<1>3. \A q, p \in reqs' : q # p => Claims(q) \cap Claims(p) = {}
  BY DEF NamesOk, NewName
<1>4. \A q \in reqs' : {"kind", "n"} \subseteq DOMAIN q /\ q.n[1] \in Int /\ q.n[1] <= count'
  BY DEF NamesOk, NewName
<1>5. \A q \in reqs' : "job" \in DOMAIN q => /\ q.job = <<q.job[1], 0>> /\ q.job[1] \in Int /\ q.job[1] <= count'
                                            /\ \A p \in reqs' : p.n = q.job => p.kind = "bulk"
  BY DEF NamesOk, NewName
<1> QED BY <1>1, <1>2, <1>3, <1>4, <1>5 DEF NamesOk

\* What is claimed was named before.
LEMMA ClaimsOld ==
  ASSUME NamesOk, NEW q \in reqs, NEW c \in Claims(q)
  PROVE  c[1] \in Int /\ c[1] <= count
BY DEF NamesOk, Claims

-----------------------------------------------------------------------------
(* Steps that change no row, no file and no thumbnail.                       *)

\* It is enough that the new requests fit.
LEMMA Quiet ==
  ASSUME EditInv, UNCHANGED <<db, file, thumb>>, NamesOk', count <= count', \A s \in reqs' : s \in reqs \/ Fits(s)
  PROVE  EditInv'
<1>1. RowsOk'
  BY DEF EditInv, RowsOk, NamesOk, NameOf
<1>2. FilesOk'
  BY DEF EditInv, FilesOk, NamesOk
<1>3. \A s \in reqs' : Fits(s)'
  BY DEF EditInv, Fits, Shaped, Unused, Turning, Writing, NameOf
<1>4. ThumbsOk'
  BY DEF EditInv, ThumbsOk
<1> QED BY <1>1, <1>2, <1>3, <1>4 DEF EditInv

\* A request that is over.
LEMMA QuietEnd ==
  ASSUME EditInv, UNCHANGED <<db, file, thumb>>, reqs' \subseteq reqs, count' \in Nat, count <= count'
  PROVE  EditInv'
<1>1. NamesOk'
  BY Going DEF EditInv
<1> QED BY <1>1, Quiet

\* A request that goes on.
LEMMA QuietStep ==
  ASSUME EditInv, UNCHANGED <<db, file, thumb, count>>, NEW r \in reqs, NEW s, reqs' = (reqs \ {r}) \cup {s},
         {"kind", "n"} \subseteq DOMAIN s, s.n = r.n, Claims(s) \subseteq Claims(r), s.kind = "bulk" <=> r.kind = "bulk",
         "job" \in DOMAIN s => "job" \in DOMAIN r /\ s.job = r.job,
         Fits(s)
  PROVE  EditInv'
<1>1. count' \in Nat /\ count <= count'
  BY DEF EditInv, NamesOk
<1>2. NamesOk'
  BY <1>1, GoingOn DEF EditInv
<1> QED BY <1>1, <1>2, Quiet

\* A new request.
LEMMA QuietStart ==
  ASSUME EditInv, UNCHANGED <<db, file, thumb>>, NEW s, reqs' = reqs \cup {s}, count' = count + 1,
         {"kind", "n"} \subseteq DOMAIN s, s.n = NewName, \A c \in Claims(s) : c[1] = count + 1,
         s.kind = "bulk" => s.n \notin Claims(s), "job" \notin DOMAIN s, Shaped(s)
  PROVE  EditInv'
<1>1. count \in Nat /\ count <= count'
  BY DEF EditInv, NamesOk
<1>2. NamesOk'
  BY Coming, ClaimsOld DEF EditInv
<1>3. Unused(s)
  <2>1. \A v \in DOMAIN db.version : NameOf(db, v) \notin Claims(s)
    BY <1>1 DEF EditInv, RowsOk
  <2>2. \A x \in DOMAIN file : x.sub = "edits" => x.name \notin Claims(s)
    BY <1>1 DEF EditInv, FilesOk
  <2> QED BY <2>1, <2>2 DEF Unused
<1> QED BY <1>1, <1>2, <1>3, Quiet DEF Fits

\* What New makes of a record.
LEMMA Named ==
  ASSUME NEW r, New(r), "n" \notin DOMAIN r, "kind" \in DOMAIN r
  PROVE  \E s : /\ reqs' = reqs \cup {s} /\ count' = count + 1 /\ DOMAIN s = DOMAIN r \cup {"n"}
                /\ s.n = NewName /\ \A x \in DOMAIN r : s[x] = r[x]
<1>1. WITNESS With([n |-> NewName], r)
<1> QED BY DEF New, With

\* The editor.
LEMMA ApplyStartInv ==
  ASSUME EditInv, NEW k, NEW op, ApplyStart(k, op)
  PROVE  EditInv'
<1> DEFINE q == [kind |-> "apply", key |-> k, op |-> op, ops |-> Append(OpsOf(session[k].steps), op),
                 seq |-> 1 + Max(DOMAIN session[k].steps \cup {0})]
           s == With([n |-> NewName], q)
<1>1. reqs' = reqs \cup {s} /\ count' = count + 1 /\ UNCHANGED <<db, file, thumb>>
  BY DEF ApplyStart, New
<1>2. DOMAIN s = {"n", "kind", "key", "op", "ops", "seq"} /\ s.kind = "apply" /\ s.n = NewName
  BY DEF With
<1> HIDE DEF s
<1>3. Claims(s) = {} /\ Shaped(s)
  BY <1>2 DEF Claims, Shaped, Early
<1> QED BY <1>1, <1>2, <1>3, QuietStart

\* The end of an apply.
LEMMA ApplyDoneInv ==
  ASSUME EditInv, NEW r \in reqs, ApplyDone(r)
  PROVE  EditInv'
<1>1. reqs' \subseteq reqs /\ UNCHANGED <<db, file, thumb, count>>
  BY DEF ApplyDone, Over
<1> QED BY <1>1, QuietEnd DEF EditInv, NamesOk

\* A rollback.
LEMMA RollbackInv ==
  ASSUME EditInv, NEW k, NEW seq, Rollback(k, seq)
  PROVE  EditInv'
<1>1. reqs' \subseteq reqs /\ UNCHANGED <<db, file, thumb>> /\ count' = count + 1
  BY DEF Rollback
<1> QED BY <1>1, QuietEnd DEF EditInv, NamesOk

\* A turn of a photo has its live instances; one of a face or of a version the file it has now.
LEMMA CopyShaped ==
  ASSUME NEW by, NEW owner, NEW source, NEW ops, NEW parent, NEW s, \A x \in DOMAIN Copy(by, owner, source, ops, parent) :
            x \in DOMAIN s /\ s[x] = Copy(by, owner, source, ops, parent)[x]
  PROVE  s.kind = "render" /\ s.by = by /\ s.of = owner /\ s.source = source /\ s.ops = ops /\ Shaped(s) /\ Claims(s) = {s.n}
<1>1. /\ {"kind", "by", "of", "source", "ops", "parent"} \subseteq DOMAIN s
      /\ s.kind = "render" /\ s.by = by /\ s.of = owner /\ s.source = source /\ s.ops = ops
  BY DEF Copy
<1> QED BY <1>1 DEF Shaped, Claims, Early

\* A request to turn a photo carries what it needs.
LEMMA TurnPhotoShaped ==
  ASSUME EditInv, NEW a \in Asset, NEW i \in Inst, NEW ops, NEW s, \A x \in DOMAIN TurnPhoto(a, i, ops) :
            x \in DOMAIN s /\ s[x] = TurnPhoto(a, i, ops)[x]
  PROVE  s.kind = "turn" /\ s.ops = ops /\ s.target[1] = "instance" /\ Shaped(s) /\ Claims(s) = {}
<1>1. /\ {"kind", "target", "ops", "hash", "paths", "first", "done", "from"} \subseteq DOMAIN s
      /\ s.kind = "turn" /\ s.target = <<"instance", a>> /\ s.ops = ops /\ s.first = i /\ s.done = {}
      /\ s.paths = [j \in LiveOf(db, a) \cup {i} |-> db.inst[j].path]
  BY DEF TurnPhoto
<1>2. LiveOf(db, a) \subseteq Inst
  BY DEF LiveOf
<1>3. Turning(s)
  BY <1>1, <1>2 DEF Turning, EditInv, RowsOk
<1> QED BY <1>1, <1>3 DEF Shaped, Claims, Early

\* So does one to turn a face crop or a version.
LEMMA TurnCopyShaped ==
  ASSUME EditInv, NEW t, t = <<t[1], t[2]>>, NEW ops, (t[1] = "face" /\ t[2] \in Face) \/ (t[1] = "version" /\ t[2] \in DOMAIN db.version),
         NEW s, \A x \in DOMAIN TurnCopy(t, ops) : x \in DOMAIN s /\ s[x] = TurnCopy(t, ops)[x]
  PROVE  /\ s.kind = "turn" /\ s.ops = ops /\ s.target = t /\ Shaped(s) /\ Claims(s) = {} /\ s.done = {}
         /\ t[1] = "version" => s.paths[0] = db.version[t[2]].path
<1>1. /\ {"kind", "target", "ops", "hash", "paths", "first", "done", "from"} \subseteq DOMAIN s
      /\ s.kind = "turn" /\ s.target = t /\ s.ops = ops /\ s.first = 0 /\ s.done = {}
      /\ s.paths = [j \in {0} |-> Source(db, t)]
  BY DEF TurnCopy
<1>2. Source(db, t) = IF t[1] = "face" THEN db.crop[t[2]] ELSE db.version[t[2]].path
  BY DEF Source
<1>3. Turning(s)
  BY <1>1, <1>2 DEF Turning, EditInv, RowsOk, NameOf
<1> QED BY <1>1, <1>2, <1>3 DEF Shaped, Claims, Early

\* A photo is owned by one of its instances.
LEMMA OwnersAre ==
  ASSUME NEW t, t[1] = "instance", NEW owner \in Owners(db, t)
  PROVE  \E i \in Inst : owner = <<"instance", i>>
BY DEF Owners, LiveOf

\* The editor has seen every answer, and no apply is under way.
Settled(k) == editor[k].smooth /\ \A r \in reqs : ~(r.kind = "apply" /\ r.key = k)

\* The request a save makes.
LEMMA SaveMakes ==
  ASSUME EditInv, SessionsOk, NEW k, NEW mode, Save(k, mode)
  PROVE  \E s : /\ reqs' = reqs \cup {s} /\ count' = count + 1 /\ UNCHANGED <<db, file, thumb, session, editor>>
                /\ {"kind", "n", "ops", "key", "shown", "basis", "smooth"} \subseteq DOMAIN s /\ "job" \notin DOMAIN s /\ s.n = NewName
                /\ s.key = k /\ s.shown = editor[k].shows /\ s.basis = editor[k].basis
                /\ s.smooth = Settled(k)
                /\ s.ops = OpsOf(session[k].steps) /\ k \in DOMAIN editor /\ editor[k].seq > 0
                /\ Shaped(s) /\ s.kind \in {"render", "turn"} /\ Claims(s) \subseteq {s.n}
                /\ s.kind = "turn" /\ s.target[1] = "version" => s.done = {} /\ s.paths[0] = db.version[s.target[2]].path
<1> DEFINE t == session[k].target
           ops == OpsOf(session[k].steps)
           saved == [key |-> k, mode |-> mode, shown |-> editor[k].shows, basis |-> editor[k].basis,
                     smooth |-> Settled(k)]
           Work(owner) == IF ~OrientationOnly(ops)
                          THEN Copy("save", owner, session[k].source, ops, IF t[1] = "version" THEN t[2] ELSE Nothing)
                          ELSE IF t[1] = "instance" THEN TurnPhoto(t[2], owner[2], ops) ELSE TurnCopy(t, ops)
<1>1. PICK owner \in Owners(db, t) : New(With(saved, Work(owner)))
  BY DEF Save, Settled
<1>2. k \in DOMAIN editor /\ editor[k].seq > 0 /\ UNCHANGED <<db, file, thumb, session, editor>>
  BY DEF Save
<1>3. /\ t = <<t[1], t[2]>>
      /\ (t[1] = "instance" /\ t[2] \in Asset) \/ (t[1] = "face" /\ t[2] \in Face) \/ (t[1] = "version" /\ t[2] \in DOMAIN db.version)
  BY <1>2 DEF SessionsOk
<1>4. t[1] = "instance" => owner[2] \in Inst
  BY OwnersAre
<1> DEFINE w == Work(owner)
           s == With([n |-> NewName], With(saved, w))
<1> HIDE DEF t, ops, saved
<1>5. w = Copy("save", owner, session[k].source, ops, IF t[1] = "version" THEN t[2] ELSE Nothing)
      \/ (w = TurnPhoto(t[2], owner[2], ops) /\ t[1] = "instance") \/ (w = TurnCopy(t, ops) /\ t[1] # "instance")
  OBVIOUS
<1> HIDE DEF w
<1>6. DOMAIN saved = {"key", "mode", "shown", "basis", "smooth"}
  BY DEF saved
<1>7. /\ "kind" \in DOMAIN w /\ "ops" \in DOMAIN w
      /\ \A x \in {"key", "mode", "shown", "basis", "smooth", "n", "job"} : x \notin DOMAIN w
  BY <1>5 DEF Copy, TurnPhoto, TurnCopy
<1>8. /\ DOMAIN s = {"n"} \cup DOMAIN saved \cup DOMAIN w /\ s.n = NewName
      /\ \A x \in DOMAIN saved : s[x] = saved[x]
      /\ \A x \in DOMAIN w : s[x] = w[x]
  BY <1>6, <1>7 DEF With
<1>9. reqs' = reqs \cup {s} /\ count' = count + 1
  BY <1>1 DEF New, w
<1> HIDE DEF s
<1>10. CASE w = Copy("save", owner, session[k].source, ops, IF t[1] = "version" THEN t[2] ELSE Nothing)
  <2>1. s.kind = "render" /\ s.ops = ops /\ Shaped(s) /\ Claims(s) = {s.n}
    BY <1>8, <1>10, CopyShaped
  <2> QED BY <1>2, <1>6, <1>7, <1>8, <1>9, <2>1 DEF saved, ops
<1>11. CASE w = TurnPhoto(t[2], owner[2], ops) /\ t[1] = "instance"
  <2>1. s.kind = "turn" /\ s.ops = ops /\ s.target[1] = "instance" /\ Shaped(s) /\ Claims(s) = {}
    <3>1. PICK a \in Asset, i \in Inst : a = t[2] /\ i = owner[2]
      BY <1>3, <1>4, <1>11
    <3>2. \A x \in DOMAIN TurnPhoto(a, i, ops) : x \in DOMAIN s /\ s[x] = TurnPhoto(a, i, ops)[x]
      BY <1>8, <1>11, <3>1
    <3> QED BY <3>2, TurnPhotoShaped
  <2> QED BY <1>2, <1>6, <1>7, <1>8, <1>9, <2>1 DEF saved, ops
<1>12. CASE w = TurnCopy(t, ops) /\ t[1] # "instance"
  <2>1. /\ s.kind = "turn" /\ s.ops = ops /\ s.target = t /\ Shaped(s) /\ Claims(s) = {} /\ s.done = {}
        /\ t[1] = "version" => s.paths[0] = db.version[t[2]].path
    BY <1>3, <1>8, <1>12, TurnCopyShaped
  <2> QED BY <1>2, <1>6, <1>7, <1>8, <1>9, <2>1 DEF saved, ops
<1> QED BY <1>5, <1>10, <1>11, <1>12

\* A save.
LEMMA SaveInv ==
  ASSUME EditInv, SessionsOk, NEW k, NEW mode, Save(k, mode)
  PROVE  EditInv'
<1>1. PICK s : /\ reqs' = reqs \cup {s} /\ count' = count + 1 /\ UNCHANGED <<db, file, thumb>>
               /\ {"kind", "n"} \subseteq DOMAIN s /\ "job" \notin DOMAIN s /\ s.n = NewName
               /\ Shaped(s) /\ s.kind \in {"render", "turn"} /\ Claims(s) \subseteq {s.n}
  BY SaveMakes
<1>2. \A c \in Claims(s) : c[1] = count + 1
  BY <1>1 DEF NewName
<1> QED BY <1>1, <1>2, QuietStart

-----------------------------------------------------------------------------
(* New rows.                                                                 *)

\* A finite set of numbers has a largest one.
LEMMA Largest ==
  ASSUME NEW S, IsFiniteSet(S), S \subseteq Int, S # {}
  PROVE  Max(S) \in S /\ \A y \in S : y <= Max(S)
<1> DEFINE Above(x) == {y \in S : x < y}
           T        == {Above(x) : x \in S}
           O        == StrictSubsetOrdering(S)
<1>1. (\A x \in S : Above(x) \in T) /\ (\A D \in T : \E x \in S : D = Above(x))
  <2> HIDE DEF Above
  <2> QED OBVIOUS
<1>2. \A x \in S : Above(x) \in SUBSET S /\ IsFiniteSet(Above(x))
  BY FS_Subset
<1> HIDE DEF T
<1>3. T \subseteq FiniteSubsetsOf(S) /\ T # {}
  <2> HIDE DEF Above
  <2> QED BY <1>1, <1>2 DEF FiniteSubsetsOf
<1>4. PICK D \in T : \A E \in T : <<E, D>> \notin O
  <2>1. IsWellFoundedOn(O, FiniteSubsetsOf(S))
    BY FS_StrictSubsetOrderingWellFounded
  <2> HIDE DEF O
  <2> QED BY <1>3, <2>1, WFMin
<1>5. PICK x \in S : D = Above(x)
  BY <1>1
<1>6. ASSUME NEW y \in S, x < y PROVE FALSE
  <2>1. Above(y) \subseteq Above(x) /\ y \in Above(x) /\ y \notin Above(y)
    <3>1. x \in Int /\ y \in Int /\ \A z \in S : z \in Int
      OBVIOUS
    <3>2. \A z \in S : y < z => x < z
      BY <1>6, <3>1
    <3>3. ~(y < y)
      BY <3>1
    <3>4. y \in Above(x)
      BY <1>6
    <3>5. y \notin Above(y)
      BY <3>3
    <3>6. Above(y) \subseteq Above(x)
      BY <3>2
    <3> HIDE DEF Above
    <3> QED BY <3>4, <3>5, <3>6
  <2>2. Above(y) \in T /\ Above(y) \in SUBSET S /\ Above(x) \in SUBSET S
    BY <1>1
  <2>3. <<Above(y), Above(x)>> \notin O
    BY <1>4, <1>5, <2>2
  <2> HIDE DEF Above
  <2> QED BY <2>1, <2>2, <2>3 DEF StrictSubsetOrdering
<1>7. \A y \in S : x >= y
  BY <1>6
<1>8. Max(S) \in S /\ \A y \in S : Max(S) >= y
  BY <1>7 DEF Max
<1> QED BY <1>8

\* The number of a new row is new.
LEMMA NewIdIsNew ==
  ASSUME NEW f, IsFiniteSet(DOMAIN f), DOMAIN f \subseteq Nat
  PROVE  NewId(f) \in Nat /\ NewId(f) \notin DOMAIN f
<1> DEFINE S == DOMAIN f \cup {0}
<1>1. IsFiniteSet(S) /\ S \subseteq Int /\ S # {} /\ S \subseteq Nat
  BY FS_AddElement
<1>2. Max(S) \in S /\ \A y \in S : y <= Max(S)
  <2> HIDE DEF S
  <2> QED BY <1>1, Largest
<1>3. NewId(f) = 1 + Max(S)
  BY DEF NewId
<1>4. Max(S) \in Nat
  BY <1>1, <1>2
<1>5. NewId(f) \notin S
  <2> HIDE DEF S
  <2> QED BY <1>1, <1>2, <1>3, <1>4
<1> QED BY <1>3, <1>4, <1>5

\* What AddVersion does to the versions.
OneMore(d, seen, row) ==
    /\ DOMAIN d = DOMAIN db /\ NewId(db.version) \in Nat /\ NewId(db.version) \notin DOMAIN db.version
    /\ \A x \in DOMAIN db \ {"version"} : d[x] = db[x]
    /\ DOMAIN d.version = DOMAIN db.version \cup {NewId(db.version)}
    /\ d.version[NewId(db.version)] = row
    /\ \A v \in DOMAIN db.version :
          /\ DOMAIN d.version[v] = DOMAIN db.version[v]
          /\ \A x \in DOMAIN db.version[v] \ {"current"} : d.version[v][x] = db.version[v][x]
          /\ d.version[v].current = IF v \in seen THEN FALSE ELSE db.version[v].current

\* AddVersion adds one row and changes no other but for which is current.
LEMMA Adding ==
  ASSUME RowsOk, NEW seen, NEW row, NEW d, d = AddVersion(db, seen, row)
  PROVE  OneMore(d, seen, row)
<1> DEFINE id == NewId(db.version)
           V  == [v \in DOMAIN db.version |-> IF v \in seen THEN [db.version[v] EXCEPT !.current = FALSE] ELSE db.version[v]]
<1>1. id \in Nat /\ id \notin DOMAIN db.version
  BY NewIdIsNew DEF RowsOk
<1>2. "version" \in DOMAIN db
  BY DEF RowsOk
<1>3. DOMAIN d = DOMAIN db /\ (\A x \in DOMAIN db \ {"version"} : d[x] = db[x]) /\ d.version = Put(V, id, row)
  BY <1>2 DEF AddVersion
<1>4. \A v \in DOMAIN db.version : /\ DOMAIN V[v] = DOMAIN db.version[v]
                                   /\ \A x \in DOMAIN db.version[v] \ {"current"} : V[v][x] = db.version[v][x]
                                   /\ V[v].current = IF v \in seen THEN FALSE ELSE db.version[v].current
  BY DEF RowsOk
<1>5. DOMAIN V = DOMAIN db.version
  OBVIOUS
<1> HIDE DEF V
<1>6. DOMAIN d.version = DOMAIN db.version \cup {id} /\ d.version[id] = row /\ \A v \in DOMAIN db.version : d.version[v] = V[v]
  BY <1>1, <1>3, <1>5 DEF Put
<1> QED BY <1>1, <1>3, <1>4, <1>6 DEF OneMore

\* A step that keeps the names of versions keeps the rows in shape.
LEMMA RowsKept ==
  ASSUME EditInv, count' \in Nat, count <= count', DOMAIN db' = DOMAIN db, DOMAIN db'.photo = Asset,
         db'.inst = db.inst, db'.crop = db.crop, db'.derived = db.derived, DOMAIN db'.version = DOMAIN db.version,
         \A v \in DOMAIN db.version : /\ DOMAIN db'.version[v] = DOMAIN db.version[v] /\ db'.version[v].of = db.version[v].of
                                      /\ db'.version[v].path.sub = "edits" /\ NameOf(db', v) = NameOf(db, v),
         NEW nm
  PROVE  RowsOk' /\ Renamed(nm)
<1>1. RowsOk'
  BY DEF EditInv, NamesOk, RowsOk, NameOf
<1> QED BY <1>1 DEF Renamed

\* So does one that changes no row.
LEMMA RowsSame ==
  ASSUME EditInv, count' \in Nat, count <= count', db' = db, NEW nm
  PROVE  RowsOk' /\ Renamed(nm)
<1>1. RowsOk'
  BY DEF EditInv, NamesOk, RowsOk, NameOf
<1> QED BY <1>1 DEF Renamed

\* A row with a name that no other has.
LEMMA RowAdded ==
  ASSUME EditInv, count' \in Nat, count <= count', NEW seen, NEW row, db' = AddVersion(db, seen, row),
         DOMAIN row = {"of", "parent", "path", "current", "shows"}, row.path.sub = "edits",
         row.path.name[1] \in Int, row.path.name[1] <= count', \A v \in DOMAIN db.version : NameOf(db, v) # row.path.name
  PROVE  /\ RowsOk' /\ Renamed(row.path.name)
         /\ DOMAIN db'.version = DOMAIN db.version \cup {NewId(db.version)} /\ NewId(db.version) \notin DOMAIN db.version
         /\ NewId(db.version) \in Nat /\ db'.version[NewId(db.version)] = row
<1> DEFINE id == NewId(db.version)
<1>1. /\ DOMAIN db' = DOMAIN db /\ id \in Nat /\ id \notin DOMAIN db.version
      /\ \A x \in DOMAIN db \ {"version"} : db'[x] = db[x]
      /\ DOMAIN db'.version = DOMAIN db.version \cup {id} /\ db'.version[id] = row
      /\ \A v \in DOMAIN db.version :
               /\ DOMAIN db'.version[v] = DOMAIN db.version[v]
               /\ \A x \in DOMAIN db.version[v] \ {"current"} : db'.version[v][x] = db.version[v][x]
  <2>1. PICK d : d = db'
    OBVIOUS
  <2>2. RowsOk /\ d = AddVersion(db, seen, row)
    BY <2>1 DEF EditInv
  <2> HIDE DEF id
  <2>3. /\ DOMAIN d = DOMAIN db /\ id \in Nat /\ id \notin DOMAIN db.version
        /\ \A x \in DOMAIN db \ {"version"} : d[x] = db[x]
        /\ DOMAIN d.version = DOMAIN db.version \cup {id} /\ d.version[id] = row
        /\ \A v \in DOMAIN db.version :
                 /\ DOMAIN d.version[v] = DOMAIN db.version[v]
                 /\ \A x \in DOMAIN db.version[v] \ {"current"} : d.version[v][x] = db.version[v][x]
    <3>1. OneMore(d, seen, row)
      BY <2>2, Adding
    <3> QED BY <3>1 DEF OneMore, id
  <2> QED BY <2>1, <2>3
<1> HIDE DEF id
<1>2. \A x \in {"photo", "inst", "crop", "derived"} : db'[x] = db[x]
  BY <1>1 DEF EditInv, RowsOk
<1>3. \A v \in DOMAIN db.version : \A x \in {"of", "path"} : db'.version[v][x] = db.version[v][x]
  BY <1>1 DEF EditInv, RowsOk
<1>4. IsFiniteSet(DOMAIN db'.version) /\ DOMAIN db'.version \subseteq Nat
  BY <1>1, FS_AddElement DEF EditInv, RowsOk
<1>5. db'.photo = db.photo /\ db'.inst = db.inst /\ db'.crop = db.crop /\ db'.derived = db.derived
  BY <1>2
<1>6. \A v \in DOMAIN db.version : db'.version[v].of = db.version[v].of /\ db'.version[v].path = db.version[v].path
  BY <1>3
<1>7. \A v \in DOMAIN db'.version :
          /\ DOMAIN db'.version[v] = {"of", "parent", "path", "current", "shows"}
          /\ db'.version[v].path.sub = "edits" /\ NameOf(db', v)[1] \in Int /\ NameOf(db', v)[1] <= count'
  BY <1>1, <1>6 DEF EditInv, NamesOk, RowsOk, NameOf
<1>8. \A v, u \in DOMAIN db'.version : v # u => NameOf(db', v) # NameOf(db', u)
  BY <1>1, <1>6 DEF EditInv, RowsOk, NameOf
<1>9. RowsOk'
  BY <1>1, <1>4, <1>5, <1>7, <1>8 DEF EditInv, RowsOk
<1>10. Renamed(row.path.name)
  BY <1>1, <1>5, <1>6 DEF Renamed, NameOf
<1> QED BY <1>1, <1>9, <1>10 DEF id

\* The file of an edit is written.
LEMMA FilePut ==
  ASSUME EditInv, count' \in Nat, count <= count', NEW x, NEW pic, file' = Put(file, x, pic),
         x = Path(x.dir, x.sub, x.name, x.ext), x.sub = "edits", x.name[1] \in Int, x.name[1] <= count'
  PROVE  FilesOk' /\ Spares(x.name) /\ Moves(x.name)
<1>1. FilesOk'
  BY DEF EditInv, NamesOk, FilesOk, Put
<1>2. Spares(x.name)
  BY DEF Spares, Put
<1> QED BY <1>1, <1>2, SparedMoves

\* A step that changes no file.
LEMMA FileSame ==
  ASSUME EditInv, count' \in Nat, count <= count', file' = file, NEW nm
  PROVE  FilesOk' /\ Spares(nm) /\ Moves(nm)
<1>1. FilesOk'
  BY DEF EditInv, NamesOk, FilesOk
<1>2. Spares(nm)
  BY DEF Spares
<1> QED BY <1>1, <1>2, SparedMoves

\* A step that takes one file away.
LEMMA FileGone ==
  ASSUME EditInv, count' \in Nat, count <= count', NEW x, file' = [z \in DOMAIN file \ {x} |-> file[z]]
  PROVE  FilesOk' /\ Spares(x.name) /\ Moves(x.name)
<1>1. FilesOk'
  BY DEF EditInv, NamesOk, FilesOk
<1>2. Spares(x.name)
  BY DEF Spares
<1> QED BY <1>1, <1>2, SparedMoves

\* The parts make the invariant.
LEMMA Together ==
  ASSUME EditInv, NEW nm, Renamed(nm), Moves(nm), RowsOk', FilesOk', NamesOk', ThumbsOk',
         \A q \in reqs' : (q \in reqs /\ nm \notin Claims(q)) \/ Fits(q)'
  PROVE  EditInv'
<1>1. \A q \in reqs' : Fits(q)'
  BY StaysFit DEF EditInv
<1> QED BY <1>1 DEF EditInv

\* Thumbnails that stay are of versions that stay.
LEMMA ThumbsStill ==
  ASSUME EditInv, NEW nm, Renamed(nm), thumb' = thumb
  PROVE  ThumbsOk'
BY DEF EditInv, ThumbsOk, Renamed

\* No two requests claim the same name.
LEMMA NotOthers ==
  ASSUME EditInv, NEW r \in reqs, NEW nm \in Claims(r)
  PROVE  \A q \in reqs \ {r} : nm \notin Claims(q)
BY DEF EditInv, NamesOk

\* No request claims the name of a version.
LEMMA NotVersions ==
  ASSUME EditInv, NEW v \in DOMAIN db.version
  PROVE  \A q \in reqs : NameOf(db, v) \notin Claims(q)
BY DEF EditInv, Fits, Unused

\* A step of a request that goes on as s.
LEMMA Step ==
  ASSUME EditInv, NEW r \in reqs, NEW s, reqs' = (reqs \ {r}) \cup {s}, count' = count, thumb' = thumb,
         {"kind", "n"} \subseteq DOMAIN s, s.n = r.n, Claims(s) \subseteq Claims(r), s.kind = "bulk" <=> r.kind = "bulk",
         "job" \in DOMAIN s => "job" \in DOMAIN r /\ s.job = r.job,
         NEW nm, Renamed(nm), Moves(nm), RowsOk', FilesOk', Fits(s)', \A q \in reqs \ {r} : nm \notin Claims(q)
  PROVE  EditInv'
<1>1. NamesOk'
  BY GoingOn DEF EditInv, Renamed
<1>2. ThumbsOk'
  BY ThumbsStill
<1> QED BY <1>1, <1>2, Together

\* Names are counted on from where they are.
LEMMA Counting == ASSUME EditInv PROVE count \in Nat /\ count <= count /\ count + 1 \in Nat /\ count <= count + 1
BY DEF EditInv, NamesOk

-----------------------------------------------------------------------------
(* Versions are written.                                                     *)

\* What a request becomes when its picture has been rendered.
LEMMA RenderedMakes ==
  ASSUME EditInv, NEW r \in reqs, Rendered(r), r.source \in DOMAIN file
  PROVE  \E s : /\ reqs' = (reqs \ {r}) \cup {s} /\ DOMAIN s = DOMAIN r \cup {"kind", "pic", "row", "was", "path"}
                /\ s.kind = "write" /\ s.pic = Render(file[r.source], r.ops)
                /\ \A x \in DOMAIN r : x \in {"kind", "pic", "row", "was", "path"} \/ s[x] = r[x]
                /\ \/ /\ s.row = Nothing /\ s.path.sub = "edits" /\ s.path.name = r.n
                   \/ /\ s.row \in DOMAIN db.version /\ s.was = db.version[s.row].path
                      /\ s.path.sub = s.was.sub /\ s.path.name = s.was.name
                /\ s.path = Path(s.path.dir, s.path.sub, s.path.name, s.path.ext)
<1> DEFINE cur == Current(db, r.of)
           v == CHOOSE v \in cur : TRUE
           over == r.by = "save" /\ r.mode = "overwrite" /\ cur # {}
           w == [kind |-> "write", pic |-> Render(file[r.source], r.ops), row |-> IF over THEN v ELSE Nothing,
                 was |-> IF over THEN db.version[v].path ELSE Nothing,
                 path |-> IF over THEN WithSuffix(db.version[v].path, Format(r.ops))
                                  ELSE Path(DirOf(db, r.of), "edits", r.n, Format(r.ops))]
           s == With(w, r)
<1>1. reqs' = (reqs \ {r}) \cup {s}
  BY DEF Rendered, GoesOn
<1>2. over => v \in DOMAIN db.version
  BY DEF Current
<1> HIDE DEF over, v
<1>3. /\ DOMAIN s = DOMAIN r \cup {"kind", "pic", "row", "was", "path"}
      /\ s.kind = w.kind /\ s.pic = w.pic /\ s.row = w.row /\ s.was = w.was /\ s.path = w.path
      /\ \A x \in DOMAIN r : x \in {"kind", "pic", "row", "was", "path"} \/ s[x] = r[x]
  BY DEF With
<1>4. w.path = Path(w.path.dir, w.path.sub, w.path.name, w.path.ext)
  BY DEF Path, WithSuffix
<1>5. \/ w.row = Nothing /\ w.path.sub = "edits" /\ w.path.name = r.n
      \/ w.row \in DOMAIN db.version /\ w.was = db.version[w.row].path /\ w.path.sub = w.was.sub /\ w.path.name = w.was.name
  BY <1>2 DEF Path, WithSuffix
<1>6. w.kind = "write" /\ w.pic = Render(file[r.source], r.ops)
  OBVIOUS
<1> HIDE DEF s, w
<1>7. WITNESS s
<1> QED BY <1>1, <1>3, <1>4, <1>5, <1>6

\* A picture rendered at full size.
LEMMA RenderedInv ==
  ASSUME EditInv, NEW r \in reqs, Rendered(r)
  PROVE  EditInv'
<1>1. UNCHANGED <<db, file, thumb, count>> /\ r.kind = "render"
  BY DEF Rendered
<1>2. CASE r.source \notin DOMAIN file
  <2>1. reqs' \subseteq reqs
    BY <1>2 DEF Rendered, Over
  <2> QED BY <1>1, <2>1, QuietEnd, Counting
<1>3. CASE r.source \in DOMAIN file
  <2>1. PICK s : /\ reqs' = (reqs \ {r}) \cup {s} /\ DOMAIN s = DOMAIN r \cup {"kind", "pic", "row", "was", "path"}
                 /\ s.kind = "write"
                 /\ \A x \in DOMAIN r : x \in {"kind", "pic", "row", "was", "path"} \/ s[x] = r[x]
                 /\ \/ /\ s.row = Nothing /\ s.path.sub = "edits" /\ s.path.name = r.n
                    \/ /\ s.row \in DOMAIN db.version /\ s.was = db.version[s.row].path
                       /\ s.path.sub = s.was.sub /\ s.path.name = s.was.name
                 /\ s.path = Path(s.path.dir, s.path.sub, s.path.name, s.path.ext)
    BY <1>3, RenderedMakes
  <2>2. {"kind", "n", "by", "of", "source", "ops", "parent"} \subseteq DOMAIN r /\ Claims(r) = {r.n} /\ Unused(r)
    BY <1>1 DEF EditInv, NamesOk, Fits, Shaped, Claims, Early
  <2>3. s.n = r.n /\ ("job" \in DOMAIN s => "job" \in DOMAIN r /\ s.job = r.job)
    BY <2>1, <2>2
  <2>4. Claims(s) \subseteq {r.n}
    BY <2>1, <2>3 DEF Claims
  <2>5. Shaped(s)
    <3>1. s.row # Nothing => /\ s.row \in DOMAIN db.version /\ s.path.name = NameOf(db, s.row) /\ s.was.name = NameOf(db, s.row)
                             /\ s.was.sub = "edits" /\ s.path.sub = "edits"
      BY <2>1 DEF EditInv, RowsOk, NameOf
    <3>2. s.row = Nothing => s.path.sub = "edits" /\ s.path.name = s.n
      BY <2>1, <2>3, EditsAssumption DEF EditInv, RowsOk
    <3>3. Writing(s)
      BY <2>1, <2>2, <3>1, <3>2 DEF Writing
    <3> QED BY <2>1, <3>1, <3>3 DEF Shaped
  <2>6. Unused(s)
    BY <1>1, <2>1, <2>2, <2>4 DEF Unused, Early
  <2>7. {"kind", "n"} \subseteq DOMAIN s /\ Claims(s) \subseteq Claims(r) /\ s.kind # "bulk" /\ r.kind # "bulk"
    BY <1>1, <2>1, <2>2, <2>4
  <2> QED BY <1>1, <2>1, <2>3, <2>5, <2>6, <2>7, QuietStep DEF Fits
<1> QED BY <1>2, <1>3

\* A request that goes on with another kind, and has what it had.
LEMMA GoesOnAs ==
  ASSUME EditInv, NEW r \in reqs, NEW kind, GoesOn(r, [kind |-> kind])
  PROVE  \E s : /\ reqs' = (reqs \ {r}) \cup {s} /\ DOMAIN s = DOMAIN r /\ s.kind = kind /\ s.n = r.n
                /\ \A x \in DOMAIN r : x # "kind" => s[x] = r[x]
<1>1. {"kind", "n"} \subseteq DOMAIN r
  BY DEF EditInv, NamesOk
<1>2. WITNESS With([kind |-> kind], r)
<1> QED BY <1>1 DEF GoesOn, With

\* Its file written.
LEMMA WrittenInv ==
  ASSUME EditInv, NEW r \in reqs, Written(r)
  PROVE  EditInv'
<1>1. /\ r.kind = "write" /\ file' = Put(file, r.path, r.pic) /\ GoesOn(r, [kind |-> "commit"])
      /\ db' = db /\ thumb' = thumb /\ count' = count
  BY DEF Written
<1>2. PICK s : /\ reqs' = (reqs \ {r}) \cup {s} /\ DOMAIN s = DOMAIN r /\ s.kind = "commit" /\ s.n = r.n
               /\ \A x \in DOMAIN r : x # "kind" => s[x] = r[x]
  BY <1>1, GoesOnAs
<1>3. /\ Writing(r) /\ Unused(r) /\ {"kind", "n"} \subseteq DOMAIN r
      /\ r.row # Nothing => /\ r.row \in DOMAIN db.version /\ r.path.name = NameOf(db, r.row) /\ r.was.name = NameOf(db, r.row) /\ r.was.sub = "edits"
      /\ r.n[1] \in Int /\ r.n[1] <= count
  BY <1>1 DEF EditInv, NamesOk, Fits, Shaped
<1>4. {"by", "of", "parent", "row", "was", "path", "pic"} \subseteq DOMAIN r
  BY <1>3 DEF Writing
<1>5. s.row = r.row /\ s.path = r.path /\ s.pic = r.pic /\ s.was = r.was /\ ("job" \in DOMAIN s => "job" \in DOMAIN r /\ s.job = r.job)
  BY <1>2, <1>4
<1>6. Claims(r) = (IF r.row = Nothing THEN {r.n} ELSE {}) /\ Claims(s) = Claims(r)
  BY <1>1, <1>2, <1>5 DEF Claims, Early
<1> DEFINE nm == r.path.name
<1>7. \A q \in reqs \ {r} : nm \notin Claims(q)
  <2>1. CASE r.row = Nothing
    <3>1. nm \in Claims(r)
      BY <1>3, <1>6, <2>1 DEF Writing
    <3> QED BY <3>1, NotOthers
  <2>2. CASE r.row # Nothing
    BY <1>3, <2>2, NotVersions
  <2> QED BY <2>1, <2>2
<1>8. nm[1] \in Int /\ nm[1] <= count
  <2>1. CASE r.row = Nothing
    BY <1>3, <2>1 DEF Writing
  <2>2. CASE r.row # Nothing
    BY <1>3, <2>2 DEF EditInv, RowsOk
  <2> QED BY <2>1, <2>2
<1>9. FilesOk' /\ Moves(nm)
  BY <1>1, <1>3, <1>8, FilePut, Counting DEF Writing
<1>10. RowsOk' /\ Renamed(nm)
  BY <1>1, RowsSame, Counting
<1>11. Fits(s)'
  <2>1. Writing(s)
    BY <1>2, <1>3, <1>5 DEF Writing
  <2>2. Shaped(s)'
    BY <1>1, <1>2, <1>3, <1>5, <2>1 DEF Shaped, NameOf, Writing
  <2>3. \A x \in DOMAIN file' : x.sub = "edits" /\ x.name \in Claims(s) => file'[x] = r.pic
    BY <1>1, <1>3, <1>6 DEF Unused, Put
  <2>4. Unused(s)'
    BY <1>1, <1>2, <1>3, <1>5, <1>6, <2>3 DEF Unused, Early, NameOf
  <2> QED BY <2>2, <2>4 DEF Fits
<1> HIDE DEF nm
<1>12. {"kind", "n"} \subseteq DOMAIN s /\ Claims(s) \subseteq Claims(r) /\ s.kind # "bulk" /\ r.kind # "bulk"
  BY <1>1, <1>2, <1>3, <1>6
<1> QED BY <1>1, <1>2, <1>5, <1>7, <1>9, <1>10, <1>11, <1>12, Step

\* What overwriting does to the rows: one version has another file.
LEMMA OverwrittenRows ==
  ASSUME EditInv, NEW r \in reqs, Overwritten(r)
  PROVE  /\ r.row \in DOMAIN db.version /\ count' = count /\ DOMAIN db' = DOMAIN db
         /\ \A x \in DOMAIN db \ {"version"} : db'[x] = db[x]
         /\ DOMAIN db'.version = DOMAIN db.version
         /\ \A v \in DOMAIN db.version : v # r.row => db'.version[v] = db.version[v]
         /\ DOMAIN db'.version[r.row] = DOMAIN db.version[r.row]
         /\ \A x \in {"of", "parent", "current"} : db'.version[r.row][x] = db.version[r.row][x]
         /\ db'.version[r.row].shows = r.pic
         /\ db'.version[r.row].path = r.path \/ (db'.version[r.row].path = db.version[r.row].path /\ r.was = r.path)
<1>1. /\ r.kind = "commit" /\ r.row # Nothing /\ count' = count
      /\ db' = [db EXCEPT !.version[r.row].shows = r.pic,
                           !.version[r.row].path = IF r.was # r.path THEN r.path ELSE @]
  BY DEF Overwritten
<1>2. r.row \in DOMAIN db.version
  BY <1>1 DEF EditInv, Fits, Shaped
<1>3. "version" \in DOMAIN db /\ DOMAIN db.version[r.row] = {"of", "parent", "path", "current", "shows"}
  BY <1>2 DEF EditInv, RowsOk
<1>4. DOMAIN db'.version[r.row] = DOMAIN db.version[r.row] /\ db'.version[r.row].shows = r.pic
  BY <1>1, <1>2, <1>3
<1>5. \A x \in {"of", "parent", "current"} : db'.version[r.row][x] = db.version[r.row][x]
  BY <1>1, <1>2, <1>3
<1>6. db'.version[r.row].path = r.path \/ (db'.version[r.row].path = db.version[r.row].path /\ r.was = r.path)
  BY <1>1, <1>2, <1>3
<1>7. /\ DOMAIN db' = DOMAIN db /\ \A x \in DOMAIN db \ {"version"} : db'[x] = db[x]
      /\ DOMAIN db'.version = DOMAIN db.version /\ \A v \in DOMAIN db.version : v # r.row => db'.version[v] = db.version[v]
  BY <1>1, <1>3
<1> QED BY <1>1, <1>2, <1>4, <1>5, <1>6, <1>7

\* Overwriting.
LEMMA OverwrittenInv ==
  ASSUME EditInv, NEW r \in reqs, Overwritten(r)
  PROVE  EditInv'
<1>1. /\ r.kind = "commit" /\ r.row # Nothing /\ GoesOn(r, [kind |-> "thumb"])
      /\ file' = IF r.was # r.path THEN [x \in DOMAIN file \ {r.was} |-> file[x]] ELSE file
      /\ thumb' = thumb /\ count' = count
  BY DEF Overwritten
<1>2. PICK s : /\ reqs' = (reqs \ {r}) \cup {s} /\ DOMAIN s = DOMAIN r /\ s.kind = "thumb" /\ s.n = r.n
               /\ \A x \in DOMAIN r : x # "kind" => s[x] = r[x]
  BY <1>1, GoesOnAs
<1>3. /\ Writing(r) /\ {"kind", "n"} \subseteq DOMAIN r
      /\ r.row \in DOMAIN db.version /\ r.path.name = NameOf(db, r.row) /\ r.was.name = NameOf(db, r.row) /\ r.was.sub = "edits"
  BY <1>1 DEF EditInv, NamesOk, Fits, Shaped
<1>4. {"by", "of", "parent", "row", "was", "path", "pic"} \subseteq DOMAIN r
  BY <1>3 DEF Writing
<1>5. s.row = r.row /\ s.path = r.path /\ ("job" \in DOMAIN s => "job" \in DOMAIN r /\ s.job = r.job)
  BY <1>2, <1>4
<1>6. Claims(s) = {}
  BY <1>2 DEF Claims, Early
<1>7. /\ DOMAIN db' = DOMAIN db
      /\ \A x \in DOMAIN db \ {"version"} : db'[x] = db[x]
      /\ DOMAIN db'.version = DOMAIN db.version
      /\ \A v \in DOMAIN db.version : v # r.row => db'.version[v] = db.version[v]
      /\ DOMAIN db'.version[r.row] = DOMAIN db.version[r.row]
      /\ \A x \in {"of", "parent", "current"} : db'.version[r.row][x] = db.version[r.row][x]
      /\ db'.version[r.row].path = r.path \/ (db'.version[r.row].path = db.version[r.row].path /\ r.was = r.path)
  BY OverwrittenRows
<1> DEFINE nm == NameOf(db, r.row)
<1>8. RowsOk' /\ Renamed(nm)
  <2>1. \A x \in {"photo", "inst", "crop", "derived"} : db'[x] = db[x]
    BY <1>7 DEF EditInv, RowsOk
  <2>2. db'.photo = db.photo /\ db'.inst = db.inst /\ db'.crop = db.crop /\ db'.derived = db.derived
    BY <2>1
  <2>3. DOMAIN db.photo = Asset /\ \A v \in DOMAIN db.version : db.version[v].path.sub = "edits"
    BY DEF EditInv, RowsOk
  <2>4. \A v \in DOMAIN db.version : /\ DOMAIN db'.version[v] = DOMAIN db.version[v] /\ db'.version[v].of = db.version[v].of
                                     /\ db'.version[v].path.sub = "edits" /\ NameOf(db', v) = NameOf(db, v)
    BY <1>3, <1>7, <2>3 DEF NameOf, Writing
  <2> HIDE DEF nm
  <2> QED BY <1>1, <1>7, <2>2, <2>3, <2>4, RowsKept, Counting
<1>9. FilesOk' /\ Moves(nm)
  <2>1. CASE r.was # r.path
    BY <1>1, <1>3, <2>1, FileGone, Counting
  <2>2. CASE r.was = r.path
    BY <1>1, <2>2, FileSame, Counting
  <2> QED BY <2>1, <2>2
<1>10. Fits(s)'
  <2>1. Shaped(s)'
    BY <1>2, <1>3, <1>4, <1>5, <1>7 DEF Shaped
  <2> QED BY <1>2, <1>6, <2>1 DEF Fits, Unused, Early
<1>11. \A q \in reqs \ {r} : nm \notin Claims(q)
  BY <1>3, NotVersions
<1> HIDE DEF nm
<1>12. {"kind", "n"} \subseteq DOMAIN s /\ Claims(s) \subseteq Claims(r) /\ s.kind # "bulk" /\ r.kind # "bulk"
  BY <1>1, <1>2, <1>3, <1>6
<1> QED BY <1>1, <1>2, <1>5, <1>8, <1>9, <1>10, <1>11, <1>12, Step

\* A version of the request's picture is added, and the request goes on with its number.
LEMMA VersionAdded ==
  ASSUME EditInv, NEW r \in reqs, NEW seen, NEW kind, kind \in {"thumb", "clean"}, db' = AddVersion(db, seen, Row(r)),
         r.kind \in {"commit", "insert"}, r.row = Nothing, GoesOn(r, [kind |-> kind, row |-> NewId(db.version)]),
         UNCHANGED <<file, thumb, count>>
  PROVE  EditInv'
<1>0. PICK s : s = With([kind |-> kind, row |-> NewId(db.version)], r)
  OBVIOUS
<1> DEFINE nm == r.n
           id == NewId(db.version)
           row == Row(r)
<1>1. /\ Writing(r) /\ Unused(r) /\ {"kind", "n"} \subseteq DOMAIN r /\ Claims(r) = {nm}
      /\ r.n[1] \in Int /\ r.n[1] <= count
  BY DEF EditInv, NamesOk, Fits, Shaped, Claims, Early
<1>2. {"by", "of", "parent", "row", "was", "path", "pic"} \subseteq DOMAIN r /\ r.path.name = nm /\ r.path.sub = "edits"
  BY <1>1 DEF Writing
<1>3. /\ reqs' = (reqs \ {r}) \cup {s} /\ DOMAIN s = DOMAIN r /\ s.kind = kind /\ s.n = nm /\ s.row = id
      /\ ("job" \in DOMAIN s => "job" \in DOMAIN r /\ s.job = r.job) /\ {"row", "path", "by"} \subseteq DOMAIN s
  BY <1>0, <1>1, <1>2 DEF GoesOn, With
<1>4. Claims(s) = {} /\ s.kind # "bulk" /\ r.kind # "bulk"
  BY <1>3 DEF Claims, Early
<1>5. /\ DOMAIN row = {"of", "parent", "path", "current", "shows"} /\ row.path = r.path
  BY DEF Row
<1>6. \A v \in DOMAIN db.version : NameOf(db, v) # nm
  BY <1>1 DEF Unused
<1> HIDE DEF row, id
<1>7. RowsOk' /\ Renamed(nm) /\ DOMAIN db'.version = DOMAIN db.version \cup {id}
  <2>1. db' = AddVersion(db, seen, row)
    BY DEF row
  <2> HIDE DEF nm
  <2>2. row.path.name = nm /\ row.path.sub = "edits" /\ nm[1] \in Int /\ nm[1] <= count' /\ count' = count
    BY <1>1, <1>2, <1>5 DEF nm
  <2> QED BY <1>5, <1>6, <2>1, <2>2, RowAdded, Counting DEF id
<1>8. FilesOk' /\ Moves(nm)
  BY FileSame, Counting
<1>9. Fits(s)'
  <2>1. s.row \in DOMAIN db'.version
    BY <1>3, <1>7
  <2>2. s.kind = "thumb" \/ s.kind = "clean"
    BY <1>3
  <2>3. Shaped(s)'
    <3>1. CASE s.kind = "thumb"
      BY <1>3, <2>1, <3>1 DEF Shaped
    <3>2. CASE s.kind = "clean"
      BY <1>3, <2>1, <3>2 DEF Shaped
    <3> QED BY <2>2, <3>1, <3>2
  <2>4. Unused(s)'
    BY <1>4, <2>2 DEF Unused, Early
  <2> QED BY <2>3, <2>4 DEF Fits
<1>10. \A q \in reqs \ {r} : nm \notin Claims(q)
  BY <1>1, NotOthers
<1>11. {"kind", "n"} \subseteq DOMAIN s /\ Claims(s) \subseteq Claims(r)
  BY <1>1, <1>3, <1>4
<1> HIDE DEF nm
<1> QED BY <1>3, <1>4, <1>7, <1>8, <1>9, <1>10, <1>11, Step DEF nm

\* A version inserted.
LEMMA InsertedInv ==
  ASSUME EditInv, NEW r \in reqs, Inserted(r)
  PROVE  EditInv'
<1>1. r.kind = "insert" /\ r.row = Nothing
  BY DEF Inserted, EditInv, Fits, Shaped
<1>2. PICK kind : kind = IF r.by = "upscale" THEN "clean" ELSE "thumb"
  OBVIOUS
<1>3. db' = AddVersion(db, r.seen, Row(r)) /\ GoesOn(r, [kind |-> kind, row |-> NewId(db.version)]) /\ UNCHANGED <<file, thumb, count>>
  BY <1>2 DEF Inserted
<1> QED BY <1>1, <1>2, <1>3, VersionAdded

\* The current versions read.
LEMMA CurrentReadInv ==
  ASSUME EditInv, NEW r \in reqs, CurrentRead(r)
  PROVE  EditInv'
<1> DEFINE s == With([kind |-> "insert", seen |-> Current(db, r.of)], r)
<1>1. r.kind = "commit" /\ r.row = Nothing /\ UNCHANGED <<db, file, thumb, count>> /\ reqs' = (reqs \ {r}) \cup {s}
  BY DEF CurrentRead, GoesOn
<1>2. Writing(r) /\ Unused(r) /\ {"kind", "n"} \subseteq DOMAIN r /\ Claims(r) = {r.n}
  BY <1>1 DEF EditInv, NamesOk, Fits, Shaped, Claims, Early
<1>3. {"by", "of", "parent", "row", "was", "path", "pic"} \subseteq DOMAIN r
  BY <1>2 DEF Writing
<1>4. /\ DOMAIN s = DOMAIN r \cup {"seen"} /\ s.kind = "insert" /\ s.seen = Current(db, r.of)
      /\ \A x \in DOMAIN r : x \in {"kind", "seen"} \/ s[x] = r[x]
  BY <1>2 DEF With
<1> HIDE DEF s
<1>5. s.n = r.n /\ s.row = Nothing /\ s.path = r.path /\ s.pic = r.pic /\ s.of = r.of /\ ("job" \in DOMAIN s => "job" \in DOMAIN r /\ s.job = r.job)
  BY <1>1, <1>2, <1>3, <1>4
<1>6. Claims(s) = {r.n} /\ s.kind # "bulk" /\ r.kind # "bulk" /\ {"kind", "n"} \subseteq DOMAIN s
  BY <1>1, <1>2, <1>4, <1>5 DEF Claims, Early
<1>7. Shaped(s)
  <2>1. \A v \in s.seen : v \in DOMAIN db.version /\ db.version[v].of = s.of
    BY <1>4, <1>5 DEF Current
  <2>2. Writing(s)
    BY <1>2, <1>3, <1>4, <1>5 DEF Writing
  <2> QED BY <1>4, <1>5, <2>1, <2>2 DEF Shaped
<1>8. Unused(s)
  BY <1>1, <1>2, <1>4, <1>5, <1>6 DEF Unused, Early
<1> QED BY <1>1, <1>2, <1>5, <1>6, <1>7, <1>8, QuietStep DEF Fits

-----------------------------------------------------------------------------
(* Thumbnails, crops and turns.                                              *)

\* Steps that change thumbnails only.
LEMMA QuietThumbs ==
  ASSUME EditInv, UNCHANGED <<db, file>>, NamesOk', count <= count', ThumbsOk', \A s \in reqs' : s \in reqs \/ Fits(s)
  PROVE  EditInv'
<1>1. RowsOk'
  BY DEF EditInv, RowsOk, NamesOk, NameOf
<1>2. FilesOk'
  BY DEF EditInv, FilesOk, NamesOk
<1>3. \A s \in reqs' : Fits(s)'
  BY DEF EditInv, Fits, Shaped, Unused, Turning, Writing, NameOf
<1> QED BY <1>1, <1>2, <1>3 DEF EditInv

\* A name that no request claims.
LEMMA NewUnclaimed ==
  ASSUME EditInv
  PROVE  \A q \in reqs : NewName \notin Claims(q)
<1>1. \A q \in reqs : \A c \in Claims(q) : c[1] \in Int /\ c[1] <= count
  BY ClaimsOld DEF EditInv
<1>2. NewName[1] = count + 1
  BY DEF NewName
<1> QED BY <1>1, <1>2, Counting

\* A step that ends a request.
LEMMA Ending ==
  ASSUME EditInv, reqs' \subseteq reqs, count' \in Nat, count <= count', NEW nm, Renamed(nm), Moves(nm),
         RowsOk', FilesOk', ThumbsOk', \A q \in reqs' : nm \notin Claims(q)
  PROVE  EditInv'
<1>1. NamesOk'
  BY Going DEF EditInv
<1> QED BY <1>1, Together

\* The thumbnails of a version made.
LEMMA VersionThumbInv ==
  ASSUME EditInv, NEW r \in reqs, VersionThumb(r)
  PROVE  EditInv'
<1>1. /\ r.kind = "thumb" /\ UNCHANGED <<db, file, count>>
      /\ thumb' = IF r.path \in DOMAIN file THEN Put(thumb, <<"version", r.row, "small">>, file[r.path]) ELSE thumb
      /\ IF r.by = "save" THEN GoesOn(r, [kind |-> "dedupe"]) ELSE Over(r)
  BY DEF VersionThumb
<1>2. r.row \in DOMAIN db.version /\ {"kind", "n"} \subseteq DOMAIN r
  BY <1>1 DEF EditInv, Fits, Shaped, NamesOk
<1> DEFINE u == <<"version", r.row, "small">>
<1>6. Thumbnail(u) /\ u[2] = r.row
  BY DEF Thumbnail
<1>7. \A t \in DOMAIN thumb' : t = u \/ t \in DOMAIN thumb
  BY <1>1 DEF Put
<1>3. ThumbsOk'
  <2> HIDE DEF u
  <2> QED BY <1>1, <1>2, <1>6, <1>7 DEF EditInv, ThumbsOk
<1> HIDE DEF u
<1>4. CASE r.by = "save"
  <2>1. PICK s : /\ reqs' = (reqs \ {r}) \cup {s} /\ DOMAIN s = DOMAIN r /\ s.kind = "dedupe" /\ s.n = r.n
                 /\ \A x \in DOMAIN r : x # "kind" => s[x] = r[x]
    BY <1>1, <1>4, GoesOnAs
  <2>2. Claims(s) = {} /\ Shaped(s)
    BY <2>1 DEF Claims, Early, Shaped
  <2>3. Unused(s)
    BY <2>1, <2>2 DEF Unused, Early
  <2>4. {"kind", "n"} \subseteq DOMAIN s /\ Claims(s) \subseteq Claims(r) /\ s.kind # "bulk" /\ r.kind # "bulk"
        /\ ("job" \in DOMAIN s => "job" \in DOMAIN r /\ s.job = r.job)
    BY <1>1, <1>2, <2>1, <2>2
  <2>5. NamesOk'
    BY <1>1, <2>1, <2>4, GoingOn, Counting DEF EditInv
  <2> QED BY <1>1, <1>3, <2>1, <2>2, <2>3, <2>5, QuietThumbs, Counting DEF Fits
<1>5. CASE r.by # "save"
  <2>1. reqs' \subseteq reqs
    BY <1>1, <1>5 DEF Over
  <2>2. NamesOk'
    BY <1>1, <2>1, Going, Counting DEF EditInv
  <2> QED BY <1>1, <1>3, <2>1, <2>2, QuietThumbs, Counting
<1> QED BY <1>4, <1>5

\* A thumbnail stored.
LEMMA ThumbStoredInv ==
  ASSUME EditInv, NEW r \in reqs, ThumbStored(r)
  PROVE  EditInv'
<1>1. /\ r.kind = "get" /\ UNCHANGED <<db, file, count>> /\ reqs' \subseteq reqs /\ thumb' = Put(thumb, r.of, r.pic)
  BY DEF ThumbStored, Over
<1>2. Thumbnail(r.of) /\ (r.of[1] = "version" => r.of[2] \in DOMAIN db.version)
  BY <1>1 DEF EditInv, Fits, Shaped
<1>5. \A t \in DOMAIN thumb' : t = r.of \/ t \in DOMAIN thumb
  BY <1>1 DEF Put
<1>3. ThumbsOk'
  BY <1>1, <1>2, <1>5 DEF EditInv, ThumbsOk
<1>4. NamesOk'
  BY <1>1, Going, Counting DEF EditInv
<1> QED BY <1>1, <1>3, <1>4, QuietThumbs, Counting

\* Faces found in a version.
LEMMA DedupeInv ==
  ASSUME EditInv, NEW r \in reqs, NEW found, IsFiniteSet(DOMAIN found), Dedupe(r, found)
  PROVE  EditInv'
<1> DEFINE Crops(as) == {CropName(r.row, j) : j \in {i \in DOMAIN found : found[i] = as}}
           News == {[crop |-> CropName(r.row, j), found |-> Append(r.n, j)] : j \in {i \in DOMAIN found : found[i] = "new"}}
<1>1. reqs' \subseteq reqs /\ thumb' = thumb /\ count' = count
  BY DEF Dedupe, Over
<1>2. \/ UNCHANGED <<file, db>>
      \/ /\ file' = With([x \in Crops("new") |-> file[db.version[r.row].path]], [x \in DOMAIN file \ Crops("known") |-> file[x]])
         /\ db' = [db EXCEPT !.derived = @ \cup News]
  BY DEF Dedupe
<1>3. CASE UNCHANGED <<file, db>>
  BY <1>1, <1>3, QuietEnd, Counting
<1>4. CASE /\ file' = With([x \in Crops("new") |-> file[db.version[r.row].path]], [x \in DOMAIN file \ Crops("known") |-> file[x]])
           /\ db' = [db EXCEPT !.derived = @ \cup News]
  <2>0. \A j : LET x == CropName(r.row, j) IN x.sub = "faces" /\ x.dir = "_unknown" /\ x = Path(x.dir, x.sub, x.name, x.ext)
    BY DEF CropName, Path
  <2>1. \A as : \A x \in Crops(as) : x.sub = "faces" /\ x.dir = "_unknown" /\ x = Path(x.dir, x.sub, x.name, x.ext)
    <3> SUFFICES ASSUME NEW as, NEW x \in Crops(as)
                 PROVE  x.sub = "faces" /\ x.dir = "_unknown" /\ x = Path(x.dir, x.sub, x.name, x.ext)
      OBVIOUS
    <3>1. PICK j : x = CropName(r.row, j)
      OBVIOUS
    <3> QED BY <2>0, <3>1
  <2>2. IsFiniteSet(News) /\ \A c \in News : c.crop.dir = "_unknown" /\ c.crop.sub = "faces"
    <3> DEFINE J == {i \in DOMAIN found : found[i] = "new"}
               f == [j \in J |-> [crop |-> CropName(r.row, j), found |-> Append(r.n, j)]]
    <3>1. IsFiniteSet(J)
      BY FS_Subset
    <3>2. f \in Surjection(J, News)
      BY DEF Surjection
    <3>3. IsFiniteSet(News)
      <4> HIDE DEF f, J, News
      <4> QED BY <3>1, <3>2, FS_Surjection
    <3>4. \A c \in News : \E j : c.crop = CropName(r.row, j)
      OBVIOUS
    <3> HIDE DEF News
    <3> QED BY <2>0, <3>3, <3>4
  <2> HIDE DEF Crops, News
  <2>3. /\ DOMAIN db' = DOMAIN db /\ db'.photo = db.photo /\ db'.inst = db.inst /\ db'.crop = db.crop /\ db'.version = db.version
        /\ db'.derived = db.derived \cup News
    BY <1>4 DEF EditInv, RowsOk
  <2>4. IsFiniteSet(db'.derived)
    <3>1. IsFiniteSet(db.derived)
      BY DEF EditInv, RowsOk
    <3>2. PICK D, E : D = db.derived /\ E = News
      OBVIOUS
    <3>3. IsFiniteSet(D \cup E)
      <4>1. IsFiniteSet(D) /\ IsFiniteSet(E)
        BY <2>2, <3>1, <3>2
      <4> QED BY <4>1, FS_Union
    <3>4. db'.derived = D \cup E
      BY <2>3, <3>2
    <3> QED BY <3>3, <3>4
  <2>5. RowsOk' /\ Renamed(NewName)
    <3>1. RowsOk'
      BY <1>1, <2>2, <2>3, <2>4 DEF EditInv, RowsOk, NameOf
    <3>2. Renamed(NewName)
      BY <1>1, <2>3, Counting DEF Renamed, NameOf
    <3> QED BY <3>1, <3>2
  <2>6. FilesOk'
    BY <1>1, <1>4, <2>1 DEF EditInv, FilesOk, With
  <2>7. Spares(NewName)
    BY <1>4, <2>1 DEF Spares, With
  <2>8. ThumbsOk'
    BY <1>1, <2>5, ThumbsStill
  <2>9. Moves(NewName)
    BY <2>7, SparedMoves
  <2> QED BY <1>1, <2>5, <2>6, <2>8, <2>9, Ending, NewUnclaimed, Counting
<1> QED BY <1>2, <1>3, <1>4

\* What a turn goes on to.
LEMMA TurnFileMakes ==
  ASSUME EditInv, NEW r \in reqs, TurnFile(r)
  PROVE  /\ r.kind = "turn" /\ UNCHANGED <<db, thumb, count>>
         /\ \E next \in DOMAIN r.paths :
              /\ next \notin r.done
              /\ IF r.first \notin r.done THEN next = r.first ELSE \A j \in DOMAIN r.paths \ r.done : next <= j
              /\ \/ r.paths[next] \notin DOMAIN file /\ file' = file /\ reqs' = reqs \ {r}
                 \/ /\ r.paths[next] \in DOMAIN file
                    /\ file' = [file EXCEPT ![r.paths[next]] = Render(@, r.ops)]
                    /\ \E s : /\ reqs' = (reqs \ {r}) \cup {s} /\ DOMAIN s = DOMAIN r /\ s.done = r.done \cup {next}
                              /\ s.from = IF next = r.first THEN Size(file[r.paths[next]]) ELSE r.from
                              /\ \A x \in DOMAIN r : x \notin {"done", "from"} => s[x] = r[x]
<1>1. r.kind = "turn" /\ UNCHANGED <<db, thumb, count>>
  BY DEF TurnFile
<1>2. {"target", "ops", "paths", "first", "done", "from", "hash"} \subseteq DOMAIN r
  BY <1>1 DEF EditInv, Fits, Shaped, Turning
<1>3. PICK next \in DOMAIN r.paths \ r.done :
          /\ IF r.first \notin r.done THEN next = r.first ELSE \A j \in DOMAIN r.paths \ r.done : next <= j
          /\ IF r.paths[next] \in DOMAIN file
             THEN /\ file' = [file EXCEPT ![r.paths[next]] = Render(@, r.ops)]
                  /\ GoesOn(r, [done |-> r.done \cup {next}, from |-> IF next = r.first THEN Size(file[r.paths[next]]) ELSE r.from])
             ELSE Over(r) /\ UNCHANGED file
  BY DEF TurnFile
<1>4. CASE r.paths[next] \in DOMAIN file
  <2>1. PICK s : s = With([done |-> r.done \cup {next}, from |-> IF next = r.first THEN Size(file[r.paths[next]]) ELSE r.from], r)
    OBVIOUS
  <2>2. reqs' = (reqs \ {r}) \cup {s}
    BY <1>3, <1>4, <2>1 DEF GoesOn
  <2>3. /\ DOMAIN s = DOMAIN r /\ s.done = r.done \cup {next}
        /\ s.from = IF next = r.first THEN Size(file[r.paths[next]]) ELSE r.from
        /\ \A x \in DOMAIN r : x \notin {"done", "from"} => s[x] = r[x]
    BY <1>2, <2>1 DEF With
  <2> QED BY <1>1, <1>3, <1>4, <2>2, <2>3
<1>5. CASE r.paths[next] \notin DOMAIN file
  BY <1>1, <1>3, <1>5 DEF Over
<1> QED BY <1>4, <1>5

\* A file that is turned is not the file of a new edit: of another version, or in no edits folder.
LEMMA TurnedName ==
  ASSUME EditInv, NEW r \in reqs, r.kind = "turn", NEW j \in DOMAIN r.paths, r.paths[j].sub = "edits"
  PROVE  /\ r.target[1] = "version" /\ r.target[2] \in DOMAIN db.version /\ DOMAIN r.paths = {0}
         /\ r.paths[j].name = NameOf(db, r.target[2])
BY DEF EditInv, Fits, Shaped, Turning

\* One file turned.
LEMMA TurnFileInv ==
  ASSUME EditInv, NEW r \in reqs, TurnFile(r)
  PROVE  EditInv'
<1>1. r.kind = "turn" /\ UNCHANGED <<db, thumb, count>>
  BY TurnFileMakes
<1>2. PICK next \in DOMAIN r.paths :
         \/ r.paths[next] \notin DOMAIN file /\ file' = file /\ reqs' = reqs \ {r}
         \/ /\ r.paths[next] \in DOMAIN file
            /\ file' = [file EXCEPT ![r.paths[next]] = Render(@, r.ops)]
            /\ \E s : /\ reqs' = (reqs \ {r}) \cup {s} /\ DOMAIN s = DOMAIN r /\ s.done = r.done \cup {next}
                      /\ \A x \in DOMAIN r : x \notin {"done", "from"} => s[x] = r[x]
  BY TurnFileMakes
<1>3. CASE r.paths[next] \notin DOMAIN file /\ file' = file /\ reqs' = reqs \ {r}
  <2>1. reqs' \subseteq reqs
    BY <1>3
  <2> QED BY <1>1, <1>3, <2>1, QuietEnd, Counting
<1>4. CASE r.paths[next] \in DOMAIN file /\ file' = [file EXCEPT ![r.paths[next]] = Render(@, r.ops)]
           /\ \E s : /\ reqs' = (reqs \ {r}) \cup {s} /\ DOMAIN s = DOMAIN r /\ s.done = r.done \cup {next}
                     /\ \A x \in DOMAIN r : x \notin {"done", "from"} => s[x] = r[x]
  <2>1. PICK s : /\ reqs' = (reqs \ {r}) \cup {s} /\ DOMAIN s = DOMAIN r /\ s.done = r.done \cup {next}
                 /\ \A x \in DOMAIN r : x \notin {"done", "from"} => s[x] = r[x]
    BY <1>4
  <2>2. Turning(r) /\ {"kind", "n"} \subseteq DOMAIN r
    BY <1>1 DEF EditInv, NamesOk, Fits, Shaped
  <2>3. {"target", "ops", "paths", "first", "done", "from", "hash"} \subseteq DOMAIN r
    BY <2>2 DEF Turning
  <2>4. s.kind = "turn" /\ s.n = r.n /\ s.target = r.target /\ s.paths = r.paths /\ s.first = r.first
        /\ ("job" \in DOMAIN s => "job" \in DOMAIN r /\ s.job = r.job)
    BY <1>1, <2>1, <2>2, <2>3
  <2>5. Turning(s)
    <3>1. PICK t, paths : t = r.target /\ paths = r.paths
      OBVIOUS
    <3>2. s.target = t /\ s.paths = paths /\ s.done \subseteq DOMAIN paths
      BY <2>1, <2>2, <2>4, <3>1 DEF Turning
    <3>3. /\ t = <<t[1], t[2]>> /\ r.first \in DOMAIN paths
          /\ \/ /\ t[1] = "instance" /\ t[2] \in Asset
                /\ \A j \in DOMAIN paths : paths[j].sub \in {"photos", "trash"}
             \/ /\ t[1] = "face" /\ t[2] \in Face /\ DOMAIN paths = {0}
                /\ paths[0].sub = "faces" /\ paths[0].name = db.crop[t[2]].name
             \/ /\ t[1] = "version" /\ t[2] \in DOMAIN db.version /\ DOMAIN paths = {0}
                /\ paths[0].sub = "edits" /\ paths[0].name = NameOf(db, t[2])
      BY <2>2, <3>1 DEF Turning
    <3> QED BY <2>1, <2>3, <2>4, <3>1, <3>2, <3>3 DEF Turning
  <2>6. Claims(s) = {} /\ Fits(s)
    BY <2>4, <2>5 DEF Claims, Early, Fits, Shaped, Unused
  <2>7. FilesOk'
    BY <1>1, <1>4 DEF EditInv, FilesOk
  <2>8. \E nm : Moves(nm) /\ \A q \in reqs \ {r} : nm \notin Claims(q)
    <3>1. CASE r.paths[next].sub = "edits"
      <4>1. r.target[2] \in DOMAIN db.version /\ r.paths[next].name = NameOf(db, r.target[2])
        BY <1>1, <3>1, TurnedName
      <4>2. Moves(r.paths[next].name)
        <5>1. Spares(r.paths[next].name)
          BY <1>4 DEF Spares
        <5> QED BY <5>1, SparedMoves
      <4> QED BY <4>1, <4>2, NotVersions
    <3>2. CASE r.paths[next].sub # "edits"
      <4>1. Moves(NewName)
        <5>1. Spares(NewName)
          BY <1>4, <3>2 DEF Spares
        <5> QED BY <5>1, SparedMoves
      <4> QED BY <4>1, NewUnclaimed
    <3> QED BY <3>1, <3>2
  <2>9. PICK nm : Moves(nm) /\ \A q \in reqs \ {r} : nm \notin Claims(q)
    BY <2>8
  <2>10. RowsOk' /\ Renamed(nm)
    BY <1>1, RowsSame, Counting
  <2>11. Fits(s)'
    BY <1>1, <2>4, <2>6 DEF Fits, Shaped, Turning, Unused, NameOf, Early
  <2>12. {"kind", "n"} \subseteq DOMAIN s /\ Claims(s) \subseteq Claims(r) /\ s.kind # "bulk" /\ r.kind # "bulk"
    BY <1>1, <2>1, <2>2, <2>4, <2>6
  <2> QED BY <1>1, <2>1, <2>4, <2>7, <2>9, <2>10, <2>11, <2>12, Step
<1> QED BY <1>2, <1>3, <1>4

\* Rows of versions and files stay.
LEMMA OtherRows ==
  ASSUME EditInv, count' = count, file' = file, DOMAIN db' = DOMAIN db, DOMAIN db'.photo = Asset,
         db'.inst = db.inst, db'.crop = db.crop, db'.derived = db.derived, DOMAIN db'.version = DOMAIN db.version,
         \A v \in DOMAIN db.version : /\ DOMAIN db'.version[v] = DOMAIN db.version[v] /\ db'.version[v].of = db.version[v].of
                                      /\ db'.version[v].path = db.version[v].path
  PROVE  RowsOk' /\ FilesOk' /\ Renamed(NewName) /\ Moves(NewName)
<1>1. \A v \in DOMAIN db.version : /\ DOMAIN db'.version[v] = DOMAIN db.version[v] /\ db'.version[v].of = db.version[v].of
                                   /\ db'.version[v].path.sub = "edits" /\ NameOf(db', v) = NameOf(db, v)
  BY DEF EditInv, RowsOk, NameOf
<1>2. RowsOk' /\ Renamed(NewName)
  BY <1>1, RowsKept, Counting
<1> QED BY <1>2, FileSame, Counting

\* What the end of turning a photo does to the rows.
LEMMA PhotoTurnedRows ==
  ASSUME EditInv, NEW r \in reqs, PhotoTurned(r)
  PROVE  /\ r.kind = "turn" /\ r.target[1] = "instance" /\ UNCHANGED <<file, thumb, count>>
         /\ DOMAIN db' = DOMAIN db /\ DOMAIN db'.photo = Asset
         /\ db'.inst = db.inst /\ db'.crop = db.crop /\ db'.derived = db.derived /\ db'.version = db.version
         /\ (db' = db /\ reqs' = reqs \ {r}) \/ GoesOn(r, [kind |-> "drop"])
<1> DEFINE a == r.target[2]
           p == file[r.paths[r.first]]
           new == [hash |-> p, size |-> FoldLeft(SizeAfter, r.from, r.ops)]
           ledger == Rekeyed(db.ledger, r.hash, p)
           box == BoxesTurned(db, a, r.ops, r.from)
<1>1. r.kind = "turn" /\ r.target[1] = "instance" /\ UNCHANGED <<file, thumb, count>>
  BY DEF PhotoTurned
<1>2. \/ Over(r) /\ db' = db
      \/ db' = [db EXCEPT !.photo[a] = new, !.ledger = ledger, !.box = box] /\ GoesOn(r, [kind |-> "drop"])
  BY DEF PhotoTurned
<1> HIDE DEF new, ledger, box, a
<1>3. DOMAIN db = {"photo", "inst", "box", "crop", "version", "ledger", "derived"} /\ DOMAIN db.photo = Asset
  BY DEF EditInv, RowsOk
<1> QED BY <1>1, <1>2, <1>3 DEF Over

\* A photo turned.
LEMMA PhotoTurnedInv ==
  ASSUME EditInv, NEW r \in reqs, PhotoTurned(r)
  PROVE  EditInv'
<1>1. /\ r.kind = "turn" /\ r.target[1] = "instance" /\ UNCHANGED <<file, thumb, count>>
      /\ DOMAIN db' = DOMAIN db /\ DOMAIN db'.photo = Asset
      /\ db'.inst = db.inst /\ db'.crop = db.crop /\ db'.derived = db.derived /\ db'.version = db.version
      /\ (db' = db /\ reqs' = reqs \ {r}) \/ GoesOn(r, [kind |-> "drop"])
  BY PhotoTurnedRows
<1>2. CASE db' = db /\ reqs' = reqs \ {r}
  <2>1. reqs' \subseteq reqs
    BY <1>2
  <2> QED BY <1>1, <1>2, <2>1, QuietEnd, Counting
<1>3. CASE GoesOn(r, [kind |-> "drop"])
  <2>1. PICK s : /\ reqs' = (reqs \ {r}) \cup {s} /\ DOMAIN s = DOMAIN r /\ s.kind = "drop" /\ s.n = r.n
                 /\ \A x \in DOMAIN r : x # "kind" => s[x] = r[x]
    BY <1>3, GoesOnAs
  <2>2. {"kind", "n", "target"} \subseteq DOMAIN r
    BY <1>1 DEF EditInv, NamesOk, Fits, Shaped, Turning
  <2>3. Claims(s) = {} /\ ("job" \in DOMAIN s => "job" \in DOMAIN r /\ s.job = r.job)
    BY <2>1 DEF Claims, Early
  <2>4. RowsOk' /\ FilesOk' /\ Renamed(NewName) /\ Moves(NewName)
    BY <1>1, OtherRows
  <2>5. Fits(s)'
    BY <2>1, <2>2, <2>3 DEF Fits, Shaped, Unused, Early
  <2>6. {"kind", "n"} \subseteq DOMAIN s /\ Claims(s) \subseteq Claims(r) /\ s.kind # "bulk" /\ r.kind # "bulk"
    BY <1>1, <2>1, <2>2, <2>3
  <2> QED BY <1>1, <2>1, <2>3, <2>4, <2>5, <2>6, Step, NewUnclaimed
<1> QED BY <1>1, <1>2, <1>3

\* What the end of turning a crop or a version does to the rows.
LEMMA CopyTurnedRows ==
  ASSUME EditInv, NEW r \in reqs, CopyTurned(r)
  PROVE  /\ r.kind = "turn" /\ r.target[1] \in {"version", "face"} /\ UNCHANGED <<file, count>> /\ reqs' = reqs \ {r}
         /\ r.done = DOMAIN r.paths /\ r.target = <<r.target[1], r.target[2]>> /\ DOMAIN r.paths = {0}
         /\ DOMAIN db' = DOMAIN db /\ \A x \in DOMAIN db \ {"version"} : db'[x] = db[x]
         /\ DOMAIN db'.version = DOMAIN db.version
         /\ \A v \in DOMAIN db.version : /\ DOMAIN db'.version[v] = DOMAIN db.version[v]
                                         /\ \A x \in DOMAIN db.version[v] \ {"shows"} : db'.version[v][x] = db.version[v][x]
                                         /\ <<"version", v>> # r.target => db'.version[v] = db.version[v]
         /\ r.target[1] = "version" => /\ r.target[2] \in DOMAIN db.version
                                       /\ db'.version[r.target[2]].shows = Render(db.version[r.target[2]].shows, r.ops)
<1>1. /\ r.kind = "turn" /\ r.target[1] # "instance" /\ UNCHANGED <<file, count>> /\ reqs' = reqs \ {r} /\ r.done = DOMAIN r.paths
      /\ db' = IF r.target[1] = "version" THEN [db EXCEPT !.version[r.target[2]].shows = Render(@, r.ops)] ELSE db
  BY DEF CopyTurned, Over
<1>2. PICK t : t = r.target
  OBVIOUS
<1>3. t = <<t[1], t[2]>> /\ (t[1] = "face" \/ (t[1] = "version" /\ t[2] \in DOMAIN db.version)) /\ DOMAIN r.paths = {0}
  BY <1>1, <1>2 DEF EditInv, Fits, Shaped, Turning
<1>4. CASE t[1] = "face"
  BY <1>1, <1>2, <1>3, <1>4
<1>5. CASE t[1] = "version"
  <2>1. PICK k \in DOMAIN db.version : k = t[2]
    BY <1>3, <1>5
  <2>2. db' = [db EXCEPT !.version[k].shows = Render(@, r.ops)]
    BY <1>1, <1>2, <1>5, <2>1
  <2>3. "version" \in DOMAIN db /\ \A v \in DOMAIN db.version : DOMAIN db.version[v] = {"of", "parent", "path", "current", "shows"}
    BY DEF EditInv, RowsOk
  <2>4. /\ DOMAIN db' = DOMAIN db /\ \A x \in DOMAIN db \ {"version"} : db'[x] = db[x]
        /\ DOMAIN db'.version = DOMAIN db.version
    BY <2>2, <2>3
  <2>5. \A v \in DOMAIN db.version : v # k => db'.version[v] = db.version[v]
    BY <2>2, <2>3
  <2>6. /\ DOMAIN db'.version[k] = DOMAIN db.version[k] /\ db'.version[k].shows = Render(db.version[k].shows, r.ops)
        /\ \A x \in DOMAIN db.version[k] \ {"shows"} : db'.version[k][x] = db.version[k][x]
    BY <2>2, <2>3
  <2>7. \A v \in DOMAIN db.version : <<"version", v>> # t => v # k
    BY <1>3, <1>5, <2>1
  <2> QED BY <1>1, <1>2, <1>3, <1>5, <2>1, <2>4, <2>5, <2>6, <2>7
<1> QED BY <1>3, <1>4, <1>5

\* A crop or a version turned.
LEMMA CopyTurnedInv ==
  ASSUME EditInv, NEW r \in reqs, CopyTurned(r)
  PROVE  EditInv'
<1>1. /\ UNCHANGED <<file, count>> /\ reqs' = reqs \ {r} /\ r.target[1] \in {"version", "face"}
      /\ DOMAIN db' = DOMAIN db /\ \A x \in DOMAIN db \ {"version"} : db'[x] = db[x]
      /\ DOMAIN db'.version = DOMAIN db.version
      /\ \A v \in DOMAIN db.version : /\ DOMAIN db'.version[v] = DOMAIN db.version[v]
                                      /\ \A x \in DOMAIN db.version[v] \ {"shows"} : db'.version[v][x] = db.version[v][x]
      /\ r.target[1] = "version" => r.target[2] \in DOMAIN db.version
  BY CopyTurnedRows
<1>2. \A x \in {"photo", "inst", "crop", "derived"} : db'[x] = db[x]
  BY <1>1 DEF EditInv, RowsOk
<1>3. \A v \in DOMAIN db.version : \A x \in {"of", "path"} : db'.version[v][x] = db.version[v][x]
  BY <1>1 DEF EditInv, RowsOk
<1>4. \A v \in DOMAIN db.version : db'.version[v].of = db.version[v].of /\ db'.version[v].path = db.version[v].path
  BY <1>3
<1>5. db'.photo = db.photo /\ db'.inst = db.inst /\ db'.crop = db.crop /\ db'.derived = db.derived /\ DOMAIN db.photo = Asset
  BY <1>2 DEF EditInv, RowsOk
<1>6. RowsOk' /\ FilesOk' /\ Renamed(NewName) /\ Moves(NewName)
  BY <1>1, <1>4, <1>5, OtherRows
<1>7. thumb' = IF r.paths[0] \in DOMAIN file THEN Put(thumb, <<r.target[1], r.target[2], "small">>, file[r.paths[0]]) ELSE thumb
  BY DEF CopyTurned
<1> DEFINE u == <<r.target[1], r.target[2], "small">>
<1>10. r.target[1] = "face" => r.target[2] \in Face
  BY <1>1 DEF CopyTurned, EditInv, Fits, Shaped, Turning
<1>11. Thumbnail(u) /\ u[1] = r.target[1] /\ u[2] = r.target[2]
  BY <1>1, <1>10 DEF Thumbnail
<1>12. \A t \in DOMAIN thumb' : t = u \/ t \in DOMAIN thumb
  BY <1>7 DEF Put
<1>8. ThumbsOk'
  <2> HIDE DEF u
  <2> QED BY <1>1, <1>11, <1>12 DEF EditInv, ThumbsOk
<1> HIDE DEF u
<1>9. reqs' \subseteq reqs
  BY <1>1
<1> QED BY <1>1, <1>6, <1>8, <1>9, Ending, NewUnclaimed, Counting

-----------------------------------------------------------------------------
(* Bulk edits, imports, and the rest of the library.                         *)

\* The bulk edit that asked for a turn notes it.
Note(r, q) == IF "job" \in DOMAIN r /\ q.n = r.job THEN [q EXCEPT !.done = @ \cup {r.target[2]}] ELSE q

\* A bulk edit that notes a photo as done is otherwise as before.
LEMMA Noted ==
  ASSUME EditInv, NEW r \in reqs, NEW q \in reqs
  PROVE  /\ {"kind", "n"} \subseteq DOMAIN Note(r, q) /\ Note(r, q).n = q.n /\ Note(r, q).kind = q.kind
         /\ Claims(Note(r, q)) = Claims(q) /\ ("job" \in DOMAIN Note(r, q) => "job" \in DOMAIN q /\ Note(r, q).job = q.job)
         /\ Fits(Note(r, q)) /\ (q.kind # "bulk" => Note(r, q) = q)
<1>1. CASE ~("job" \in DOMAIN r /\ q.n = r.job)
  <2>1. Note(r, q) = q
    BY <1>1 DEF Note
  <2> QED BY <2>1 DEF EditInv, NamesOk
<1>2. CASE "job" \in DOMAIN r /\ q.n = r.job
  <2>1. q.kind = "bulk" /\ {"kind", "n"} \subseteq DOMAIN q /\ Fits(q)
    BY <1>2 DEF EditInv, NamesOk
  <2>2. {"op", "done", "todo"} \subseteq DOMAIN q
    BY <2>1 DEF Fits, Shaped
  <2>3. PICK s : s = Note(r, q)
    OBVIOUS
  <2>4. DOMAIN s = DOMAIN q /\ \A x \in DOMAIN q \ {"done"} : s[x] = q[x]
    BY <1>2, <2>3 DEF Note
  <2>5. s.kind = "bulk" /\ s.n = q.n /\ s.todo = q.todo /\ ("job" \in DOMAIN s => s.job = q.job)
    BY <2>1, <2>2, <2>4
  <2>6. Claims(s) = Claims(q)
    BY <2>1, <2>5 DEF Claims
  <2>7. Fits(s)
    BY <2>1, <2>2, <2>4, <2>5, <2>6 DEF Fits, Shaped, Unused, Early
  <2> QED BY <2>1, <2>2, <2>3, <2>4, <2>5, <2>6, <2>7
<1> QED BY <1>1, <1>2

\* The thumbnails of a photo dropped.
LEMMA ThumbsDroppedInv ==
  ASSUME EditInv, NEW r \in reqs, ThumbsDropped(r)
  PROVE  EditInv'
<1>1. /\ UNCHANGED <<db, file, count>> /\ reqs' = {Note(r, q) : q \in reqs \ {r}}
      /\ thumb' = [t \in {u \in DOMAIN thumb : <<u[1], u[2]>> # <<"asset", r.target[2]>>} |-> thumb[t]]
  BY DEF ThumbsDropped, Note
<1>2. \A q \in reqs : /\ {"kind", "n"} \subseteq DOMAIN Note(r, q) /\ Note(r, q).n = q.n /\ Note(r, q).kind = q.kind
                      /\ Claims(Note(r, q)) = Claims(q) /\ ("job" \in DOMAIN Note(r, q) => "job" \in DOMAIN q /\ Note(r, q).job = q.job)
                      /\ Fits(Note(r, q))
  BY Noted
<1>3. NamesOk'
  <2>1. NamesOk /\ count' = count
    BY <1>1 DEF EditInv
  <2>2. \A q, p \in reqs' : q.n = p.n => q = p
    BY <1>1, <1>2, <2>1 DEF NamesOk
  <2>3. \A b, q \in reqs' : b.kind = "bulk" => q.n \notin Claims(b)
    BY <1>1, <1>2, <2>1 DEF NamesOk
  <2>4. \A q, p \in reqs' : q # p => Claims(q) \cap Claims(p) = {}
    BY <1>1, <1>2, <2>1 DEF NamesOk
  <2>5. \A q \in reqs' : {"kind", "n"} \subseteq DOMAIN q /\ q.n[1] \in Int /\ q.n[1] <= count'
    BY <1>1, <1>2, <2>1 DEF NamesOk
  <2>6. \A q \in reqs' : "job" \in DOMAIN q => /\ q.job = <<q.job[1], 0>> /\ q.job[1] \in Int /\ q.job[1] <= count'
                                              /\ \A p \in reqs' : p.n = q.job => p.kind = "bulk"
    BY <1>1, <1>2, <2>1 DEF NamesOk
  <2>7. count' \in Nat
    BY <2>1 DEF NamesOk
  <2> QED BY <2>2, <2>3, <2>4, <2>5, <2>6, <2>7 DEF NamesOk
<1>4. ThumbsOk'
  BY <1>1 DEF EditInv, ThumbsOk
<1>5. \A s \in reqs' : Fits(s)
  BY <1>1, <1>2
<1> QED BY <1>1, <1>3, <1>4, <1>5, QuietThumbs, Counting

\* The start of a bulk edit.
LEMMA BulkEditInv ==
  ASSUME EditInv, NEW S, NEW op, BulkEdit(S, op)
  PROVE  EditInv'
<1> DEFINE I == {i \in Inst : db.inst[i].live /\ AssetOf[i] \in S}
           q == [kind |-> "bulk", op |-> op, done |-> {}, todo |-> [i \in I |-> db.inst[i].path]]
<1>1. New(q) /\ UNCHANGED <<db, file, thumb>>
  BY DEF BulkEdit
<1>2. PICK s : /\ reqs' = reqs \cup {s} /\ count' = count + 1 /\ DOMAIN s = DOMAIN q \cup {"n"}
               /\ s.n = NewName /\ \A x \in DOMAIN q : s[x] = q[x]
  <2>1. "n" \notin DOMAIN q /\ "kind" \in DOMAIN q
    OBVIOUS
  <2> HIDE DEF q
  <2> QED BY <1>1, <2>1, Named
<1>3. DOMAIN s = {"n", "kind", "op", "done", "todo"} /\ s.kind = "bulk" /\ s.todo = [i \in I |-> db.inst[i].path]
  BY <1>2
<1>4. I \subseteq Inst /\ (\A i \in I : i # 0) /\ s.n = <<s.n[1], 0>> /\ s.n[1] = count + 1
  BY <1>2, EditsAssumption DEF NewName
<1> HIDE DEF I
<1>5. Claims(s) = {<<count + 1, i>> : i \in I}
  BY <1>3, <1>4 DEF Claims
<1>6. s.n \notin Claims(s) /\ \A c \in Claims(s) : c[1] = count + 1
  BY <1>4, <1>5
<1>7. Shaped(s)
  BY <1>3, <1>4 DEF Shaped, EditInv, RowsOk
<1>8. {"kind", "n"} \subseteq DOMAIN s /\ "job" \notin DOMAIN s
  BY <1>3
<1> QED BY <1>1, <1>2, <1>6, <1>7, <1>8, QuietStart

\* A bulk edit that goes on to the next photo, and the request it makes for this one.
LEMMA Splitting ==
  ASSUME NamesOk, NEW r \in reqs, r.kind = "bulk", NEW s, NEW c \in Claims(r), NEW q, reqs' = (reqs \ {r}) \cup {s, q}, count' = count,
         {"kind", "n"} \subseteq DOMAIN s, s.n = r.n, s.kind = "bulk", Claims(s) = Claims(r) \ {c},
         "job" \in DOMAIN s => "job" \in DOMAIN r /\ s.job = r.job,
         {"kind", "n", "job"} \subseteq DOMAIN q, q.n = c, q.kind # "bulk", Claims(q) \subseteq {c}, q.job = r.n,
         r.n = <<r.n[1], 0>>, c[2] # 0
  PROVE  NamesOk'
<1>0. c[1] \in Int /\ c[1] <= count /\ c # r.n
  BY ClaimsOld
<1>1. \A x, y \in reqs' : x.n = y.n => x = y
  BY <1>0 DEF NamesOk
<1>2. \A x, y \in reqs' : x.kind = "bulk" => y.n \notin Claims(x)
  BY <1>0 DEF NamesOk
<1>3. \A x, y \in reqs' : x # y => Claims(x) \cap Claims(y) = {}
  BY DEF NamesOk
<1>4. \A x \in reqs' : {"kind", "n"} \subseteq DOMAIN x /\ x.n[1] \in Int /\ x.n[1] <= count'
  BY <1>0 DEF NamesOk
<1>5. \A x \in reqs' : "job" \in DOMAIN x => /\ x.job = <<x.job[1], 0>> /\ x.job[1] \in Int /\ x.job[1] <= count'
                                            /\ \A y \in reqs' : y.n = x.job => y.kind = "bulk"
  <2> SUFFICES ASSUME NEW x \in reqs', "job" \in DOMAIN x
               PROVE  /\ x.job = <<x.job[1], 0>> /\ x.job[1] \in Int /\ x.job[1] <= count'
                      /\ \A y \in reqs' : y.n = x.job => y.kind = "bulk"
    OBVIOUS
  <2>1. x.job = <<x.job[1], 0>> /\ x.job[1] \in Int /\ x.job[1] <= count'
    BY DEF NamesOk
  <2>2. c # x.job
    BY <2>1
  <2>3. \A y \in reqs : y.n = x.job => y.kind = "bulk"
    BY DEF NamesOk
  <2> QED BY <2>1, <2>2, <2>3
<1> QED BY <1>1, <1>2, <1>3, <1>4, <1>5 DEF NamesOk

\* The request a bulk edit makes for its next photo.
LEMMA BulkNextMakes ==
  ASSUME EditInv, NEW r \in reqs, BulkNext(r)
  PROVE  /\ r.kind = "bulk" /\ UNCHANGED <<db, file, thumb, count>>
         /\ \/ reqs' = reqs \ {r}
            \/ \E i \in DOMAIN r.todo : \E s :
                  /\ DOMAIN s = DOMAIN r /\ s.todo = [j \in DOMAIN r.todo \ {i} |-> r.todo[j]]
                  /\ \A x \in DOMAIN r \ {"todo"} : s[x] = r[x]
                  /\ \/ reqs' = (reqs \ {r}) \cup {s}
                     \/ \E q : /\ reqs' = (reqs \ {r}) \cup {s, q} /\ {"kind", "n", "job"} \subseteq DOMAIN q
                               /\ q.n = <<r.n[1], i>> /\ q.job = r.n /\ q.kind \in {"render", "turn"} /\ Shaped(q)
                               /\ Claims(q) \subseteq {q.n} /\ "key" \notin DOMAIN q
                               /\ q.kind = "render" => q.by = "bulk"
                               /\ q.kind = "turn" => q.target[1] = "instance"
<1>1. r.kind = "bulk" /\ UNCHANGED <<db, file, thumb, count>>
  BY DEF BulkNext
<1>2. {"kind", "n", "op", "done", "todo"} \subseteq DOMAIN r /\ DOMAIN r.todo \subseteq Inst
  BY <1>1 DEF EditInv, NamesOk, Fits, Shaped
<1>3. CASE Over(r)
  BY <1>1, <1>3 DEF Over
<1> DEFINE Goes(i) == [todo |-> [j \in DOMAIN r.todo \ {i} |-> r.todo[j]]]
           Rest(i) == With(Goes(i), r)
           Child(i, q) == With([n |-> <<r.n[1], i>>, job |-> r.n], q)
           Edit(i) == Child(i, Copy("bulk", <<"instance", i>>, r.todo[i], <<r.op>>, Nothing))
           Turn(i) == Child(i, TurnPhoto(AssetOf[i], i, <<r.op>>))
<1>4. ASSUME NEW i \in DOMAIN r.todo,
             reqs' = (reqs \ {r}) \cup {Rest(i), Edit(i)} \/ GoesOn(r, Goes(i)) \/ reqs' = (reqs \ {r}) \cup {Rest(i), Turn(i)}
      PROVE  \E s :
                  /\ DOMAIN s = DOMAIN r /\ s.todo = [j \in DOMAIN r.todo \ {i} |-> r.todo[j]]
                  /\ \A x \in DOMAIN r \ {"todo"} : s[x] = r[x]
                  /\ \/ reqs' = (reqs \ {r}) \cup {s}
                     \/ \E q : /\ reqs' = (reqs \ {r}) \cup {s, q} /\ {"kind", "n", "job"} \subseteq DOMAIN q
                               /\ q.n = <<r.n[1], i>> /\ q.job = r.n /\ q.kind \in {"render", "turn"} /\ Shaped(q)
                               /\ Claims(q) \subseteq {q.n} /\ "key" \notin DOMAIN q
                               /\ q.kind = "render" => q.by = "bulk"
                               /\ q.kind = "turn" => q.target[1] = "instance"
  <2>1. PICK s : s = Rest(i)
    OBVIOUS
  <2>2. /\ DOMAIN s = DOMAIN r /\ s.todo = [j \in DOMAIN r.todo \ {i} |-> r.todo[j]]
        /\ \A x \in DOMAIN r \ {"todo"} : s[x] = r[x]
    BY <1>2, <2>1 DEF With
  <2>3. CASE GoesOn(r, Goes(i))
    <3>1. reqs' = (reqs \ {r}) \cup {s}
      BY <2>1, <2>3 DEF GoesOn
    <3> QED BY <2>2, <3>1
  <2>4. CASE reqs' = (reqs \ {r}) \cup {Rest(i), Edit(i)}
    <3>1. PICK o, ops, p : o = <<"instance", i>> /\ ops = <<r.op>> /\ p = r.todo[i]
      OBVIOUS
    <3>2. PICK q : q = Edit(i)
      OBVIOUS
    <3>3. q = With([n |-> <<r.n[1], i>>, job |-> r.n], Copy("bulk", o, p, ops, Nothing))
      BY <3>1, <3>2
    <3>4. /\ DOMAIN q = {"n", "job", "kind", "by", "of", "source", "ops", "parent"}
          /\ q.n = <<r.n[1], i>> /\ q.job = r.n
          /\ \A x \in DOMAIN Copy("bulk", o, p, ops, Nothing) : x \in DOMAIN q /\ q[x] = Copy("bulk", o, p, ops, Nothing)[x]
      BY <3>3 DEF With, Copy
    <3>5. q.kind = "render" /\ q.by = "bulk" /\ Shaped(q) /\ Claims(q) = {q.n}
      BY <3>4, CopyShaped
    <3>6. reqs' = (reqs \ {r}) \cup {s, q}
      BY <2>1, <2>4, <3>2
    <3> HIDE DEF Rest, Edit, Child, Goes
    <3> QED BY <2>2, <3>4, <3>5, <3>6
  <2>5. CASE reqs' = (reqs \ {r}) \cup {Rest(i), Turn(i)}
    <3>0. PICK ops : ops = <<r.op>>
      OBVIOUS
    <3>1. PICK a \in Asset, k \in Inst : a = AssetOf[i] /\ k = i
      BY <1>2, EditsAssumption
    <3>2. PICK q : q = Turn(i)
      OBVIOUS
    <3>3. q = With([n |-> <<r.n[1], i>>, job |-> r.n], TurnPhoto(a, k, ops))
      BY <3>0, <3>1, <3>2
    <3>4. /\ DOMAIN q = {"n", "job", "kind", "target", "ops", "hash", "paths", "first", "done", "from"}
          /\ q.n = <<r.n[1], i>> /\ q.job = r.n
          /\ \A x \in DOMAIN TurnPhoto(a, k, ops) : x \in DOMAIN q /\ q[x] = TurnPhoto(a, k, ops)[x]
      BY <3>3 DEF With, TurnPhoto
    <3>5. q.kind = "turn" /\ q.target[1] = "instance" /\ Shaped(q) /\ Claims(q) = {}
      BY <3>4, TurnPhotoShaped
    <3>6. reqs' = (reqs \ {r}) \cup {s, q}
      BY <2>1, <2>5, <3>2
    <3> HIDE DEF Rest, Turn, Child, Goes
    <3> QED BY <2>2, <3>4, <3>5, <3>6
  <2> QED BY <1>4, <2>3, <2>4, <2>5
<1>5. Over(r) \/ \E i \in DOMAIN r.todo : reqs' = (reqs \ {r}) \cup {Rest(i), Edit(i)} \/ GoesOn(r, Goes(i))
                                          \/ reqs' = (reqs \ {r}) \cup {Rest(i), Turn(i)}
  BY DEF BulkNext
<1> HIDE DEF Rest, Edit, Turn, Child, Goes
<1> QED BY <1>1, <1>3, <1>4, <1>5

\* The next photo of a bulk edit.
LEMMA BulkNextInv ==
  ASSUME EditInv, NEW r \in reqs, BulkNext(r)
  PROVE  EditInv'
<1>1. /\ r.kind = "bulk" /\ UNCHANGED <<db, file, thumb, count>>
      /\ \/ reqs' = reqs \ {r}
         \/ \E i \in DOMAIN r.todo : \E s :
               /\ DOMAIN s = DOMAIN r /\ s.todo = [j \in DOMAIN r.todo \ {i} |-> r.todo[j]]
               /\ \A x \in DOMAIN r \ {"todo"} : s[x] = r[x]
               /\ \/ reqs' = (reqs \ {r}) \cup {s}
                  \/ \E q : /\ reqs' = (reqs \ {r}) \cup {s, q} /\ {"kind", "n", "job"} \subseteq DOMAIN q
                            /\ q.n = <<r.n[1], i>> /\ q.job = r.n /\ q.kind \in {"render", "turn"} /\ Shaped(q)
                            /\ Claims(q) \subseteq {q.n} /\ "key" \notin DOMAIN q
                            /\ q.kind = "render" => q.by = "bulk"
                            /\ q.kind = "turn" => q.target[1] = "instance"
  BY BulkNextMakes
<1>2. {"kind", "n", "op", "done", "todo"} \subseteq DOMAIN r /\ DOMAIN r.todo \subseteq Inst /\ r.n = <<r.n[1], 0>>
  BY <1>1 DEF EditInv, NamesOk, Fits, Shaped
<1>3. CASE reqs' = reqs \ {r}
  <2>1. reqs' \subseteq reqs
    BY <1>3
  <2> QED BY <1>1, <2>1, QuietEnd, Counting
<1>4. ASSUME NEW i \in DOMAIN r.todo, NEW s, DOMAIN s = DOMAIN r, s.todo = [j \in DOMAIN r.todo \ {i} |-> r.todo[j]],
             \A x \in DOMAIN r \ {"todo"} : s[x] = r[x]
      PROVE  /\ s.kind = "bulk" /\ s.n = r.n /\ ("job" \in DOMAIN s => "job" \in DOMAIN r /\ s.job = r.job)
             /\ Claims(s) = Claims(r) \ {<<r.n[1], i>>} /\ Fits(s) /\ <<r.n[1], i>> \in Claims(r) /\ i # 0
  <2>1. s.kind = "bulk" /\ s.n = r.n /\ ("job" \in DOMAIN s => "job" \in DOMAIN r /\ s.job = r.job)
    BY <1>1, <1>2, <1>4
  <2>2. i # 0 /\ i \in Inst
    BY <1>2, EditsAssumption
  <2>3. Claims(r) = {<<r.n[1], j>> : j \in DOMAIN r.todo} /\ Claims(s) = {<<r.n[1], j>> : j \in DOMAIN r.todo \ {i}}
    BY <1>1, <1>4, <2>1 DEF Claims
  <2>4. Claims(s) = Claims(r) \ {<<r.n[1], i>>}
    BY <2>3
  <2>5. Shaped(s)
    <3>1. \A j \in DOMAIN r.todo : r.todo[j].sub \in {"photos", "trash"}
      BY <1>1 DEF EditInv, Fits, Shaped
    <3> QED BY <1>2, <1>4, <2>1, <3>1 DEF Shaped
  <2>6. Unused(s)
    BY <1>1, <2>1, <2>4 DEF EditInv, Fits, Unused
  <2> QED BY <2>1, <2>2, <2>3, <2>4, <2>5, <2>6 DEF Fits
<1>5. ASSUME NEW i \in DOMAIN r.todo, NEW s, DOMAIN s = DOMAIN r, s.todo = [j \in DOMAIN r.todo \ {i} |-> r.todo[j]],
             \A x \in DOMAIN r \ {"todo"} : s[x] = r[x], reqs' = (reqs \ {r}) \cup {s}
      PROVE  EditInv'
  <2>1. /\ s.kind = "bulk" /\ s.n = r.n /\ ("job" \in DOMAIN s => "job" \in DOMAIN r /\ s.job = r.job)
        /\ Claims(s) \subseteq Claims(r) /\ Fits(s) /\ {"kind", "n"} \subseteq DOMAIN s
    BY <1>2, <1>4, <1>5
  <2> QED BY <1>1, <1>5, <2>1, QuietStep
<1>6. ASSUME NEW i \in DOMAIN r.todo, NEW s, DOMAIN s = DOMAIN r, s.todo = [j \in DOMAIN r.todo \ {i} |-> r.todo[j]],
             \A x \in DOMAIN r \ {"todo"} : s[x] = r[x],
             NEW q, reqs' = (reqs \ {r}) \cup {s, q}, {"kind", "n", "job"} \subseteq DOMAIN q,
             q.n = <<r.n[1], i>>, q.job = r.n, q.kind \in {"render", "turn"}, Shaped(q), Claims(q) \subseteq {q.n}
      PROVE  EditInv'
  <2>1. /\ s.kind = "bulk" /\ s.n = r.n /\ ("job" \in DOMAIN s => "job" \in DOMAIN r /\ s.job = r.job)
        /\ Claims(s) = Claims(r) \ {q.n} /\ Fits(s) /\ {"kind", "n"} \subseteq DOMAIN s /\ q.n \in Claims(r) /\ i # 0
    BY <1>2, <1>4, <1>6
  <2>2. q.n[2] # 0
    BY <1>6, <2>1
  <2>3. NamesOk'
    <3>1. PICK c \in Claims(r) : c = q.n
      BY <2>1
    <3>2. NamesOk /\ count' = count
      BY <1>1 DEF EditInv
    <3> QED BY <1>1, <1>2, <1>6, <2>1, <2>2, <3>1, <3>2, Splitting
  <2>4. Unused(q)
    BY <1>1, <1>6, <2>1 DEF EditInv, Fits, Unused
  <2> QED BY <1>1, <1>6, <2>1, <2>3, <2>4, Quiet, Counting DEF Fits
<1> QED BY <1>1, <1>3, <1>5, <1>6

\* An upload is written, and is about to become a version.
LEMMA ImportMakes ==
  ASSUME EditInv, NEW a, ImportVersion(a)
  PROVE  \E s :
            /\ reqs' = reqs \cup {s} /\ count' = count + 1 /\ UNCHANGED <<db, thumb, session, editor>>
            /\ DOMAIN s = {"kind", "n", "by", "of", "parent", "row", "was", "pic", "path", "seen"}
            /\ s.kind = "insert" /\ s.by = "import" /\ s.n = NewName /\ s.row = Nothing /\ s.seen = Current(db, s.of)
            /\ file' = Put(file, s.path, s.pic) /\ s.path.sub = "edits" /\ s.path.name = NewName
            /\ s.path = Path(s.path.dir, s.path.sub, s.path.name, s.path.ext)
<1> DEFINE owner == <<"instance", Min(LiveOf(db, a))>>
           path == Path(DirOf(db, owner), "edits", NewName, "png")
           q == [kind |-> "insert", by |-> "import", of |-> owner, parent |-> Nothing, row |-> Nothing, was |-> Nothing,
                 pic |-> Uploaded, path |-> path, seen |-> Current(db, owner)]
<1>1. New(q) /\ file' = Put(file, q.path, q.pic) /\ UNCHANGED <<db, thumb, session, editor>>
  BY DEF ImportVersion
<1>2. PICK o, p, c : o = owner /\ p = path /\ c = Current(db, owner)
  OBVIOUS
<1>3. /\ DOMAIN q = {"kind", "by", "of", "parent", "row", "was", "pic", "path", "seen"} /\ q.kind = "insert" /\ q.by = "import"
      /\ q.of = o /\ q.row = Nothing /\ q.path = p /\ q.seen = c
  BY <1>2
<1>4. p.sub = "edits" /\ p.name = NewName /\ p = Path(p.dir, p.sub, p.name, p.ext) /\ c = Current(db, o)
  BY <1>2 DEF Path
<1> HIDE DEF q, owner, path
<1>5. PICK s : /\ reqs' = reqs \cup {s} /\ count' = count + 1 /\ DOMAIN s = DOMAIN q \cup {"n"}
               /\ s.n = NewName /\ \A x \in DOMAIN q : s[x] = q[x]
  BY <1>1, <1>3, Named
<1>6. /\ DOMAIN s = {"kind", "n", "by", "of", "parent", "row", "was", "pic", "path", "seen"}
      /\ s.kind = "insert" /\ s.by = "import" /\ s.row = Nothing /\ s.of = o /\ s.path = p /\ s.pic = q.pic /\ s.seen = c
  BY <1>3, <1>5
<1>7. file' = Put(file, s.path, s.pic) /\ s.seen = Current(db, s.of)
  BY <1>1, <1>3, <1>4, <1>6
<1>8. s.path.sub = "edits" /\ s.path.name = NewName /\ s.path = Path(s.path.dir, s.path.sub, s.path.name, s.path.ext)
  BY <1>4, <1>6
<1>9. WITNESS s
<1> QED BY <1>1, <1>5, <1>6, <1>7, <1>8

\* The file of an upload.
LEMMA ImportVersionInv ==
  ASSUME EditInv, NEW a, ImportVersion(a)
  PROVE  EditInv'
<1>1. PICK s :
            /\ reqs' = reqs \cup {s} /\ count' = count + 1 /\ UNCHANGED <<db, thumb, session, editor>>
            /\ DOMAIN s = {"kind", "n", "by", "of", "parent", "row", "was", "pic", "path", "seen"}
            /\ s.kind = "insert" /\ s.by = "import" /\ s.n = NewName /\ s.row = Nothing /\ s.seen = Current(db, s.of)
            /\ file' = Put(file, s.path, s.pic) /\ s.path.sub = "edits" /\ s.path.name = NewName
            /\ s.path = Path(s.path.dir, s.path.sub, s.path.name, s.path.ext)
  BY ImportMakes
<1>2. NewName[1] = count + 1 /\ count \in Nat
  BY Counting DEF NewName
<1>3. \A v \in DOMAIN db.version : NameOf(db, v) # NewName
  BY <1>2 DEF EditInv, RowsOk
<1>4. count' \in Nat /\ count <= count' /\ NewName[1] \in Int /\ NewName[1] <= count'
  BY <1>1, <1>2
<1>5. PICK nm : nm = NewName
  OBVIOUS
<1>6. RowsOk' /\ Renamed(nm)
  BY <1>1, <1>4, RowsSame
<1>7. FilesOk' /\ Moves(nm)
  <2>1. s.path.name[1] \in Int /\ s.path.name[1] <= count'
    BY <1>1, <1>4
  <2>2. PICK x, pic : x = s.path /\ pic = s.pic
    OBVIOUS
  <2>3. FilesOk' /\ Moves(x.name)
    BY <1>1, <1>4, <2>1, <2>2, FilePut
  <2> QED BY <1>1, <1>5, <2>2, <2>3
<1>8. Claims(s) = {nm} /\ s.kind # "bulk" /\ "job" \notin DOMAIN s /\ {"kind", "n"} \subseteq DOMAIN s
  BY <1>1, <1>5 DEF Claims, Early
<1>9. NamesOk'
  <2>1. NamesOk
    BY DEF EditInv
  <2>2. \A q \in reqs : \A c \in Claims(q) : c[1] \in Int /\ c[1] <= count
    BY <2>1, ClaimsOld
  <2>3. \A c \in Claims(s) : c[1] = count + 1
    BY <1>2, <1>5, <1>8
  <2> QED BY <1>1, <1>8, <2>1, <2>2, <2>3, Coming
<1>10. ThumbsOk'
  BY <1>1, <1>6, ThumbsStill
<1>11. Fits(s)'
  <2>1. Writing(s)
    BY <1>1 DEF Writing
  <2>2. \A v \in s.seen : v \in DOMAIN db'.version /\ db'.version[v].of = s.of
    BY <1>1 DEF Current
  <2>3. Shaped(s)'
    BY <1>1, <2>1, <2>2 DEF Shaped, Writing
  <2>4. \A v \in DOMAIN db'.version : NameOf(db', v) \notin Claims(s)
    BY <1>1, <1>3, <1>5, <1>8
  <2>5. \A x \in DOMAIN file' : x.sub = "edits" /\ x.name \in Claims(s) => file'[x] = s.pic
    <3>1. \A x \in DOMAIN file : x.sub = "edits" => x.name # nm
      BY <1>2, <1>5 DEF EditInv, FilesOk
    <3> QED BY <1>1, <1>8, <3>1 DEF Put
  <2>6. s.kind \notin Early \cup {"bulk", "write"}
    BY <1>1 DEF Early
  <2>7. Unused(s)'
    BY <2>4, <2>5, <2>6 DEF Unused
  <2> QED BY <2>3, <2>7 DEF Fits
<1>12. \A q \in reqs' : (q \in reqs /\ nm \notin Claims(q)) \/ Fits(q)'
  BY <1>1, <1>5, <1>11, NewUnclaimed
<1> QED BY <1>6, <1>7, <1>9, <1>10, <1>12, Together

-----------------------------------------------------------------------------
(* The current version is chosen.                                            *)

\* The version picked and what its flag was.
LEMMA SetCurrentMakes ==
  ASSUME EditInv, NEW a, NEW v \in DOMAIN db.version, SetCurrent(a, v)
  PROVE  \E s : /\ reqs' = reqs \cup {s} /\ count' = count + 1 /\ UNCHANGED <<db, file, thumb, session, editor>>
                /\ DOMAIN s = {"kind", "n", "by", "of", "row", "was"} /\ s.kind = "pick" /\ s.by = "set" /\ s.n = NewName
                /\ s.row = v /\ s.of = db.version[v].of /\ s.was = db.version[v].current
<1> DEFINE q == [kind |-> "pick", by |-> "set", of |-> db.version[v].of, row |-> v, was |-> db.version[v].current]
<1>1. New(q) /\ UNCHANGED <<db, file, thumb, session, editor>>
  BY DEF SetCurrent
<1>2. /\ DOMAIN q = {"kind", "by", "of", "row", "was"} /\ q.kind = "pick" /\ q.by = "set" /\ q.row = v
      /\ q.of = db.version[v].of /\ q.was = db.version[v].current
  OBVIOUS
<1> HIDE DEF q
<1>3. PICK s : /\ reqs' = reqs \cup {s} /\ count' = count + 1 /\ DOMAIN s = DOMAIN q \cup {"n"}
               /\ s.n = NewName /\ \A x \in DOMAIN q : s[x] = q[x]
  BY <1>1, <1>2, Named
<1>4. WITNESS s
<1> QED BY <1>1, <1>2, <1>3

\* A version picked.
LEMMA SetCurrentInv ==
  ASSUME EditInv, NEW a, NEW v \in DOMAIN db.version, SetCurrent(a, v)
  PROVE  EditInv'
<1>1. PICK s : /\ reqs' = reqs \cup {s} /\ count' = count + 1 /\ UNCHANGED <<db, file, thumb, session, editor>>
               /\ DOMAIN s = {"kind", "n", "by", "of", "row", "was"} /\ s.kind = "pick" /\ s.by = "set" /\ s.n = NewName
               /\ s.row = v /\ s.of = db.version[v].of /\ s.was = db.version[v].current
  BY SetCurrentMakes
<1>2. Claims(s) = {} /\ Shaped(s)
  BY <1>1 DEF Claims, Early, Shaped
<1> QED BY <1>1, <1>2, QuietStart

\* The other versions that are current.
LEMMA SiblingsReadMakes ==
  ASSUME EditInv, NEW r \in reqs, SiblingsRead(r)
  PROVE  \E s : /\ r.kind = "pick" /\ reqs' = (reqs \ {r}) \cup {s} /\ UNCHANGED <<db, file, thumb, session, editor, count>>
                /\ DOMAIN s = DOMAIN r \cup {"seen"} /\ s.kind = "switch" /\ s.seen = Current(db, r.of)
                /\ s.n = r.n /\ s.by = r.by /\ s.of = r.of /\ s.row = r.row /\ s.was = r.was
                /\ \A x \in DOMAIN r : x # "kind" /\ x # "seen" => s[x] = r[x]
<1>1. r.kind = "pick" /\ GoesOn(r, [kind |-> "switch", seen |-> Current(db, r.of)]) /\ UNCHANGED <<db, file, thumb, session, editor, count>>
  BY DEF SiblingsRead
<1>2. PICK c : c = Current(db, r.of)
  OBVIOUS
<1>3. PICK s : s = With([kind |-> "switch", seen |-> c], r)
  OBVIOUS
<1>4. reqs' = (reqs \ {r}) \cup {s}
  BY <1>1, <1>2, <1>3 DEF GoesOn
<1>5. {"kind", "n", "by", "of", "row", "was"} \subseteq DOMAIN r
  BY <1>1 DEF EditInv, NamesOk, Fits, Shaped
<1>6. /\ DOMAIN s = DOMAIN r \cup {"seen"} /\ s.kind = "switch" /\ s.seen = c
      /\ \A x \in DOMAIN r : x # "kind" /\ x # "seen" => s[x] = r[x]
  BY <1>3, <1>5 DEF With
<1>7. s.n = r.n /\ s.by = r.by /\ s.of = r.of /\ s.row = r.row /\ s.was = r.was
  BY <1>5, <1>6
<1>8. WITNESS s
<1> QED BY <1>1, <1>2, <1>4, <1>6, <1>7

\* They are of the owner of the version picked.
LEMMA SiblingsReadInv ==
  ASSUME EditInv, NEW r \in reqs, SiblingsRead(r)
  PROVE  EditInv'
<1>1. PICK s : /\ r.kind = "pick" /\ reqs' = (reqs \ {r}) \cup {s} /\ UNCHANGED <<db, file, thumb, session, editor, count>>
               /\ DOMAIN s = DOMAIN r \cup {"seen"} /\ s.kind = "switch" /\ s.seen = Current(db, r.of)
               /\ s.n = r.n /\ s.by = r.by /\ s.of = r.of /\ s.row = r.row /\ s.was = r.was
               /\ \A x \in DOMAIN r : x # "kind" /\ x # "seen" => s[x] = r[x]
  BY SiblingsReadMakes
<1>2. /\ {"kind", "n", "by", "of", "row", "was"} \subseteq DOMAIN r
      /\ r.row \in DOMAIN db.version /\ db.version[r.row].of = r.of
  BY <1>1 DEF EditInv, NamesOk, Fits, Shaped
<1>3. Claims(s) = {}
  BY <1>1 DEF Claims, Early
<1>4. \A w \in s.seen : w \in DOMAIN db.version /\ db.version[w].of = s.of
  BY <1>1 DEF Current
<1>5. Shaped(s)
  BY <1>1, <1>2, <1>4 DEF Shaped
<1>6. Unused(s)
  BY <1>1, <1>3 DEF Unused, Early
<1>7. /\ {"kind", "n"} \subseteq DOMAIN s /\ Claims(s) \subseteq Claims(r) /\ s.kind # "bulk" /\ r.kind # "bulk"
      /\ ("job" \in DOMAIN s => "job" \in DOMAIN r /\ s.job = r.job)
  BY <1>1, <1>2, <1>3
<1> QED BY <1>1, <1>5, <1>6, <1>7, QuietStep DEF Fits

\* The rows have changed in their flags only.
SwitchRows(r) ==
    /\ DOMAIN db' = DOMAIN db /\ \A x \in DOMAIN db \ {"version"} : db'[x] = db[x]
    /\ DOMAIN db'.version = DOMAIN db.version
    /\ \A w \in DOMAIN db.version :
          /\ DOMAIN db'.version[w] = DOMAIN db.version[w]
          /\ \A x \in DOMAIN db.version[w] \ {"current"} : db'.version[w][x] = db.version[w][x]
          /\ db'.version[w].current <=> FlagThen(r, w)

\* That is what switching does.
LEMMA SwitchedRows ==
  ASSUME EditInv, NEW r \in reqs, Switched(r)
  PROVE  SwitchRows(r)
<1> DEFINE T == [w \in DOMAIN db.version |-> [db.version[w] EXCEPT !.current = FlagThen(r, w)]]
<1>1. db' = [db EXCEPT !.version = T]
  BY DEF Switched
<1>2. "version" \in DOMAIN db /\ \A w \in DOMAIN db.version : "current" \in DOMAIN db.version[w]
  BY DEF EditInv, RowsOk
<1>3. DOMAIN T = DOMAIN db.version /\ \A w \in DOMAIN db.version : T[w] = [db.version[w] EXCEPT !.current = FlagThen(r, w)]
  OBVIOUS
<1> HIDE DEF T
<1>4. DOMAIN db' = DOMAIN db /\ db'.version = T /\ \A x \in DOMAIN db \ {"version"} : db'[x] = db[x]
  BY <1>1, <1>2
<1>5. ASSUME NEW w \in DOMAIN db.version
      PROVE  /\ DOMAIN db'.version[w] = DOMAIN db.version[w]
             /\ \A x \in DOMAIN db.version[w] \ {"current"} : db'.version[w][x] = db.version[w][x]
             /\ db'.version[w].current <=> FlagThen(r, w)
  <2>1. PICK u, m, c : u = db.version[w] /\ m = T[w] /\ c = FlagThen(r, w)
    OBVIOUS
  <2>2. m = [u EXCEPT !.current = c] /\ "current" \in DOMAIN u
    BY <1>2, <1>3, <2>1
  <2>3. DOMAIN m = DOMAIN u /\ m.current = c /\ \A x \in DOMAIN u \ {"current"} : m[x] = u[x]
    BY <2>2
  <2> QED BY <1>4, <2>1, <2>3
<1> QED BY <1>3, <1>4, <1>5 DEF SwitchRows

\* Another current version.
LEMMA SwitchedInv ==
  ASSUME EditInv, NEW r \in reqs, Switched(r)
  PROVE  EditInv'
<1>1. reqs' \subseteq reqs /\ UNCHANGED <<file, thumb, count>>
  BY DEF Switched, Over
<1>2. SwitchRows(r)
  BY SwitchedRows
<1>3. \A x \in {"photo", "inst", "crop", "derived"} : db'[x] = db[x]
  BY <1>2 DEF SwitchRows, EditInv, RowsOk
<1>4. \A w \in DOMAIN db.version : \A x \in {"of", "path"} : db'.version[w][x] = db.version[w][x]
  BY <1>2 DEF SwitchRows, EditInv, RowsOk
<1>5. \A w \in DOMAIN db.version : db'.version[w].of = db.version[w].of /\ db'.version[w].path = db.version[w].path
  BY <1>4
<1>6. db'.photo = db.photo /\ db'.inst = db.inst /\ db'.crop = db.crop /\ db'.derived = db.derived /\ DOMAIN db.photo = Asset
  BY <1>3 DEF EditInv, RowsOk
<1>7. count' \in Nat /\ count <= count'
  BY <1>1, Counting
<1>8. \A w \in DOMAIN db.version : /\ DOMAIN db'.version[w] = DOMAIN db.version[w] /\ db'.version[w].of = db.version[w].of
                                   /\ db'.version[w].path.sub = "edits" /\ NameOf(db', w) = NameOf(db, w)
  BY <1>2, <1>5 DEF SwitchRows, EditInv, RowsOk, NameOf
<1>9. PICK nm : nm = NewName
  OBVIOUS
<1>10. RowsOk' /\ Renamed(nm)
  BY <1>2, <1>6, <1>7, <1>8, RowsKept DEF SwitchRows
<1>11. FilesOk' /\ Moves(nm)
  BY <1>1, <1>7, FileSame
<1>12. ThumbsOk'
  BY <1>1, <1>10, ThumbsStill
<1>13. \A q \in reqs' : nm \notin Claims(q)
  BY <1>1, <1>9, NewUnclaimed
<1> QED BY <1>1, <1>7, <1>10, <1>11, <1>12, <1>13, Ending

\* A thumbnail asked for.
LEMMA GetThumbnailInv ==
  ASSUME EditInv, NEW t \in Thumbs, GetThumbnail(t)
  PROVE  EditInv'
<1>1. PICK x : ThumbMiss(t, x)
  BY DEF GetThumbnail
<1>2. PICK q : q = [kind |-> "get", of |-> t, pic |-> file[x]]
  OBVIOUS
<1>3. New(q) /\ UNCHANGED <<db, file, thumb>>
  BY <1>1, <1>2 DEF ThumbMiss
<1>4. DOMAIN q = {"kind", "of", "pic"} /\ q.kind = "get" /\ q.of = t
  BY <1>2
<1>5. PICK s : /\ reqs' = reqs \cup {s} /\ count' = count + 1 /\ DOMAIN s = DOMAIN q \cup {"n"}
               /\ s.n = NewName /\ \A y \in DOMAIN q : s[y] = q[y]
  BY <1>3, <1>4, Named
<1>6. DOMAIN s = {"n", "kind", "of", "pic"} /\ s.kind = "get" /\ s.of = t
  BY <1>4, <1>5
<1>7. Thumbnail(t) /\ (t[1] = "version" => t[2] \in DOMAIN db.version)
  <2>1. CASE \E a \in Asset : t = <<"asset", a, "small">>
    BY <2>1 DEF Thumbnail
  <2>2. CASE \E v \in DOMAIN db.version, size \in {"small", "large"} : t = <<"version", v, size>>
    BY <2>2 DEF Thumbnail
  <2> QED BY <2>1, <2>2 DEF Thumbs
<1>8. Claims(s) = {} /\ Shaped(s)
  BY <1>6, <1>7 DEF Claims, Early, Shaped
<1>9. {"kind", "n"} \subseteq DOMAIN s /\ "job" \notin DOMAIN s /\ s.kind # "bulk"
  BY <1>6
<1> QED BY <1>3, <1>5, <1>8, <1>9, QuietStart

\* A folder is renamed: files go along, with their names.
LEMMA RenameMoves ==
  ASSUME EditInv, NEW dir, NEW new, RenameFolder(dir, new), NEW x \in DOMAIN file'
  PROVE  \E y \in DOMAIN file : x = Moved(y, dir, new) /\ x.sub = y.sub /\ x.name = y.name /\ x.ext = y.ext /\ file'[x] = file[y]
                                /\ x = Path(x.dir, x.sub, x.name, x.ext)
<1> DEFINE To(z) == Moved(z, dir, new)
           Back(z) == IF z.dir = new THEN Path(dir, z.sub, z.name, z.ext) ELSE z
<1>1. new \notin {z.dir : z \in DOMAIN file} /\ file' = [z \in {To(u) : u \in DOMAIN file} |-> file[Back(z)]]
  BY DEF RenameFolder
<1>2. PICK y \in DOMAIN file : x = To(y)
  BY <1>1
<1>3. y = Path(y.dir, y.sub, y.name, y.ext)
  BY DEF EditInv, FilesOk
<1>4. x.sub = y.sub /\ x.name = y.name /\ x.ext = y.ext /\ x = Path(x.dir, x.sub, x.name, x.ext) /\ Back(x) = y
  <2>1. CASE y.dir = dir /\ y.sub # "trash"
    <3>1. x = Path(new, y.sub, y.name, y.ext)
      BY <1>2, <2>1 DEF Moved
    <3>2. x.dir = new /\ x.sub = y.sub /\ x.name = y.name /\ x.ext = y.ext
      BY <3>1 DEF Path
    <3> QED BY <1>3, <2>1, <3>1, <3>2
  <2>2. CASE ~(y.dir = dir /\ y.sub # "trash")
    <3>1. x = y
      BY <1>2, <2>2 DEF Moved
    <3> QED BY <1>1, <1>3, <3>1
  <2> QED BY <2>1, <2>2
<1>5. file'[x] = file[y]
  BY <1>1, <1>4
<1> QED BY <1>2, <1>4, <1>5

\* What renaming a folder does to the rows.
LEMMA RenameRows ==
  ASSUME EditInv, NEW dir, NEW new, RenameFolder(dir, new)
  PROVE  /\ count' = count + 1 /\ UNCHANGED <<thumb, session, editor, reqs>> /\ DOMAIN db' = DOMAIN db
         /\ \A x \in DOMAIN db \ {"inst", "crop"} : db'[x] = db[x]
         /\ DOMAIN db'.inst = Inst /\ \A i \in Inst : DOMAIN db'.inst[i] = {"path", "live"} /\ db'.inst[i].path.sub = db.inst[i].path.sub
         /\ DOMAIN db'.crop = Face /\ \A f \in Face : /\ db'.crop[f] = Moved(db.crop[f], dir, new)
                                                      /\ db'.crop[f].sub = db.crop[f].sub /\ db'.crop[f].name = db.crop[f].name
<1>1. PICK I, C : I = [i \in Inst |-> [path |-> Moved(db.inst[i].path, dir, new), live |-> db.inst[i].live]] /\ C = [f \in Face |-> Moved(db.crop[f], dir, new)]
  OBVIOUS
<1>2. /\ count' = count + 1 /\ UNCHANGED <<thumb, session, editor, reqs>>
      /\ db' = [db EXCEPT !.inst = I, !.crop = C]
  BY <1>1 DEF RenameFolder
<1>3. DOMAIN db = {"photo", "inst", "box", "crop", "version", "ledger", "derived"}
  BY DEF EditInv, RowsOk
<1>4. DOMAIN db' = DOMAIN db /\ (\A x \in DOMAIN db \ {"inst", "crop"} : db'[x] = db[x]) /\ db'.inst = I /\ db'.crop = C
  BY <1>2, <1>3
<1>5. \A x : Moved(x, dir, new).sub = x.sub /\ Moved(x, dir, new).name = x.name
  BY DEF Moved, Path
<1>6. ASSUME NEW i \in Inst PROVE DOMAIN I[i] = {"path", "live"} /\ I[i].path.sub = db.inst[i].path.sub
  <2>1. DOMAIN I[i] = {"path", "live"} /\ I[i].path = Moved(db.inst[i].path, dir, new)
    BY <1>1
  <2> QED BY <1>5, <2>1
<1>7. DOMAIN I = Inst /\ DOMAIN C = Face /\ \A f \in Face : /\ C[f] = Moved(db.crop[f], dir, new)
                                                           /\ C[f].sub = db.crop[f].sub /\ C[f].name = db.crop[f].name
  BY <1>1, <1>5
<1> QED BY <1>2, <1>4, <1>6, <1>7

\* A renamed folder.
LEMMA RenameFolderInv ==
  ASSUME EditInv, NEW dir, NEW new, RenameFolder(dir, new)
  PROVE  EditInv'
<1>1. /\ count' = count + 1 /\ UNCHANGED <<thumb, session, editor, reqs>> /\ DOMAIN db' = DOMAIN db
      /\ \A x \in DOMAIN db \ {"inst", "crop"} : db'[x] = db[x]
      /\ DOMAIN db'.inst = Inst /\ \A i \in Inst : DOMAIN db'.inst[i] = {"path", "live"} /\ db'.inst[i].path.sub = db.inst[i].path.sub
      /\ DOMAIN db'.crop = Face /\ \A f \in Face : /\ db'.crop[f] = Moved(db.crop[f], dir, new)
                                                   /\ db'.crop[f].sub = db.crop[f].sub /\ db'.crop[f].name = db.crop[f].name
  BY RenameRows
<1>2. \A x \in {"photo", "version", "derived"} : db'[x] = db[x]
  BY <1>1 DEF EditInv, RowsOk
<1>3. db'.photo = db.photo /\ db'.version = db.version /\ db'.derived = db.derived
  BY <1>2
<1>4. count \in Nat /\ count' \in Nat /\ count <= count' /\ reqs' \subseteq reqs
  BY <1>1, Counting
<1>5. RowsOk'
  <2>1. \A v \in DOMAIN db.version : NameOf(db', v) = NameOf(db, v)
    BY <1>3 DEF NameOf
  <2>2. \A v \in DOMAIN db.version : NameOf(db, v)[1] \in Int /\ NameOf(db, v)[1] <= count'
    BY <1>1, <1>4 DEF EditInv, RowsOk
  <2> QED BY <1>1, <1>3, <2>1, <2>2 DEF EditInv, RowsOk
<1>6. PICK nm : nm = NewName
  OBVIOUS
<1>7. Renamed(nm)
  BY <1>1, <1>3, <1>4 DEF Renamed, NameOf
<1>8. \A x \in DOMAIN file' : \E y \in DOMAIN file : x.sub = y.sub /\ x.name = y.name /\ file'[x] = file[y] /\ x = Path(x.dir, x.sub, x.name, x.ext)
  BY RenameMoves
<1>9. FilesOk'
  BY <1>1, <1>4, <1>8 DEF EditInv, FilesOk
<1>10. Moves(nm)
  BY <1>8 DEF Moves
<1>11. ThumbsOk'
  BY <1>1, <1>7, ThumbsStill
<1>12. \A q \in reqs' : nm \notin Claims(q)
  BY <1>1, <1>6, NewUnclaimed
<1> QED BY <1>4, <1>5, <1>7, <1>9, <1>10, <1>11, <1>12, Ending

\* What the trash does to rows and files.
LEMMA TrashMoves ==
  ASSUME EditInv, NEW i \in Inst, TrashOrRestore(i)
  PROVE  /\ count' = count + 1 /\ UNCHANGED <<thumb, session, editor, reqs>> /\ DOMAIN db' = DOMAIN db
         /\ \A x \in DOMAIN db \ {"inst"} : db'[x] = db[x]
         /\ DOMAIN db'.inst = Inst /\ \A j \in Inst : DOMAIN db'.inst[j] = {"path", "live"} /\ db'.inst[j].path.sub \in {"photos", "trash"}
         /\ \E y : /\ y = Path(y.dir, y.sub, y.name, y.ext) /\ y.sub \in {"photos", "trash"}
                   /\ file' = [z \in (DOMAIN file \ {db.inst[i].path}) \cup {y} |-> IF z = y THEN file[db.inst[i].path] ELSE file[z]]
         /\ db.inst[i].path.sub \in {"photos", "trash"}
<1>1. PICK x, y, row : /\ x = db.inst[i].path
                       /\ y = Path(x.dir, IF db.inst[i].live THEN "trash" ELSE "photos", x.name, x.ext)
                       /\ row = [path |-> y, live |-> ~db.inst[i].live]
  OBVIOUS
<1>2. /\ count' = count + 1 /\ UNCHANGED <<thumb, session, editor, reqs>>
      /\ db' = [db EXCEPT !.inst[i] = row]
      /\ file' = [z \in (DOMAIN file \ {x}) \cup {y} |-> IF z = y THEN file[x] ELSE file[z]]
  BY <1>1 DEF TrashOrRestore
<1>3. y = Path(y.dir, y.sub, y.name, y.ext) /\ y.sub \in {"photos", "trash"}
  BY <1>1 DEF Path
<1>4. DOMAIN row = {"path", "live"} /\ row.path = y
  BY <1>1
<1>5. "inst" \in DOMAIN db /\ DOMAIN db.inst = Inst /\ \A j \in Inst : DOMAIN db.inst[j] = {"path", "live"} /\ db.inst[j].path.sub \in {"photos", "trash"}
  BY DEF EditInv, RowsOk
<1>6. DOMAIN db' = DOMAIN db /\ \A k \in DOMAIN db \ {"inst"} : db'[k] = db[k]
  BY <1>2, <1>5
<1>7. DOMAIN db'.inst = Inst /\ db'.inst[i] = row /\ \A j \in Inst \ {i} : db'.inst[j] = db.inst[j]
  BY <1>2, <1>5
<1>8. \A j \in Inst : DOMAIN db'.inst[j] = {"path", "live"} /\ db'.inst[j].path.sub \in {"photos", "trash"}
  BY <1>3, <1>4, <1>5, <1>7
<1>9. db.inst[i].path.sub \in {"photos", "trash"}
  BY <1>5
<1>10. \E z : /\ z = Path(z.dir, z.sub, z.name, z.ext) /\ z.sub \in {"photos", "trash"}
              /\ file' = [u \in (DOMAIN file \ {db.inst[i].path}) \cup {z} |-> IF u = z THEN file[db.inst[i].path] ELSE file[u]]
  <2>1. WITNESS y
  <2> QED BY <1>1, <1>2, <1>3
<1> QED BY <1>2, <1>6, <1>7, <1>8, <1>9, <1>10

\* An instance trashed or restored.
LEMMA TrashInv ==
  ASSUME EditInv, NEW i \in Inst, TrashOrRestore(i)
  PROVE  EditInv'
<1>1. /\ count' = count + 1 /\ UNCHANGED <<thumb, session, editor, reqs>> /\ DOMAIN db' = DOMAIN db
      /\ \A x \in DOMAIN db \ {"inst"} : db'[x] = db[x]
      /\ DOMAIN db'.inst = Inst /\ \A j \in Inst : DOMAIN db'.inst[j] = {"path", "live"} /\ db'.inst[j].path.sub \in {"photos", "trash"}
      /\ \E y : /\ y = Path(y.dir, y.sub, y.name, y.ext) /\ y.sub \in {"photos", "trash"}
                /\ file' = [z \in (DOMAIN file \ {db.inst[i].path}) \cup {y} |-> IF z = y THEN file[db.inst[i].path] ELSE file[z]]
      /\ db.inst[i].path.sub \in {"photos", "trash"}
  BY TrashMoves
<1>2. \A x \in {"photo", "crop", "version", "derived"} : db'[x] = db[x]
  BY <1>1 DEF EditInv, RowsOk
<1>3. db'.photo = db.photo /\ db'.crop = db.crop /\ db'.version = db.version /\ db'.derived = db.derived
  BY <1>2
<1>4. count \in Nat /\ count' \in Nat /\ count <= count' /\ reqs' \subseteq reqs
  BY <1>1, Counting
<1>5. RowsOk'
  <2>1. \A v \in DOMAIN db.version : NameOf(db', v) = NameOf(db, v)
    BY <1>3 DEF NameOf
  <2>2. \A v \in DOMAIN db.version : NameOf(db, v)[1] \in Int /\ NameOf(db, v)[1] <= count'
    BY <1>1, <1>4 DEF EditInv, RowsOk
  <2> QED BY <1>1, <1>3, <2>1, <2>2 DEF EditInv, RowsOk
<1>6. PICK nm : nm = NewName
  OBVIOUS
<1>7. Renamed(nm)
  BY <1>3, <1>4 DEF Renamed, NameOf
<1>8. PICK x, y : /\ x = db.inst[i].path /\ x.sub \in {"photos", "trash"} /\ y = Path(y.dir, y.sub, y.name, y.ext) /\ y.sub \in {"photos", "trash"}
                  /\ file' = [z \in (DOMAIN file \ {x}) \cup {y} |-> IF z = y THEN file[x] ELSE file[z]]
  BY <1>1
<1>9. FilesOk'
  BY <1>1, <1>4, <1>8 DEF EditInv, FilesOk
<1>10. Moves(nm)
  <2>1. Spares(nm)
    BY <1>8 DEF Spares
  <2> QED BY <2>1, SparedMoves
<1>11. ThumbsOk'
  BY <1>1, <1>7, ThumbsStill
<1>12. \A q \in reqs' : nm \notin Claims(q)
  BY <1>1, <1>6, NewUnclaimed
<1> QED BY <1>4, <1>5, <1>7, <1>9, <1>10, <1>11, <1>12, Ending

\* A crash.
LEMMA CrashInv ==
  ASSUME EditInv, Crash
  PROVE  EditInv'
<1>1. reqs' \subseteq reqs /\ UNCHANGED <<db, file, thumb, count>>
  BY DEF Crash
<1> QED BY <1>1, QuietEnd, Counting

-----------------------------------------------------------------------------
(* Runs of workflows.                                                        *)

\* Several requests come at once.
LEMMA ComingAll ==
  ASSUME NamesOk, NEW S, reqs' = reqs \cup S, count' = count + 1,
         \A s \in S : /\ {"kind", "n"} \subseteq DOMAIN s /\ s.n[1] = count + 1 /\ Claims(s) = {s.n} /\ s.kind # "bulk" /\ "job" \notin DOMAIN s,
         \A s, t \in S : s.n = t.n => s = t
  PROVE  NamesOk'
<1>0. \A q \in reqs : \A c \in Claims(q) : c[1] \in Int /\ c[1] <= count
  BY ClaimsOld
<1>1. \A q, p \in reqs' : q.n = p.n => q = p
  BY DEF NamesOk
<1>2. \A b, q \in reqs' : b.kind = "bulk" => q.n \notin Claims(b)
  BY <1>0 DEF NamesOk
<1>3. \A q, p \in reqs' : q # p => Claims(q) \cap Claims(p) = {}
  BY <1>0 DEF NamesOk
<1>4. \A q \in reqs' : {"kind", "n"} \subseteq DOMAIN q /\ q.n[1] \in Int /\ q.n[1] <= count'
  BY DEF NamesOk
<1>5. \A q \in reqs' : "job" \in DOMAIN q => /\ q.job = <<q.job[1], 0>> /\ q.job[1] \in Int /\ q.job[1] <= count'
                                            /\ \A p \in reqs' : p.n = q.job => p.kind = "bulk"
  BY DEF NamesOk
<1>6. count' \in Nat
  BY DEF NamesOk
<1> QED BY <1>1, <1>2, <1>3, <1>4, <1>5, <1>6 DEF NamesOk

\* The jobs a run of ComfyUI makes.
LEMMA EnqueueMakes ==
  ASSUME NEW k, NEW run, NEW targets, NEW node, EnqueueRuns(k, run, targets, node)
  PROVE  \E S : /\ reqs' = reqs \cup S /\ count' = count + 1 /\ UNCHANGED <<db, file, thumb, session, editor, comfyVars>>
                /\ \A s \in S : /\ {"kind", "n", "target"} \subseteq DOMAIN s /\ s.n[1] = count + 1 /\ s.kind = "queued"
                                /\ {"job", "key"} \cap DOMAIN s = {}
                /\ \A s, t \in S : s.n = t.n => s = t
<1> DEFINE jobs == ExpandBatch(InputsOf(k, run))
           Job(i) == [kind |-> "queued", n |-> <<count + 1, i>>, flow |-> k, inputs |-> jobs[i], dir |-> settings.dir,
                      target |-> IF targets = <<>> THEN Nothing ELSE targets[i], node |-> node]
           S == {Job(i) : i \in DOMAIN jobs}
<1>1. reqs' = reqs \cup S /\ count' = count + 1 /\ UNCHANGED <<db, file, thumb, session, editor, comfyVars>>
  BY DEF EnqueueRuns
<1> HIDE DEF jobs
<1>2. \A i \in DOMAIN jobs : /\ DOMAIN Job(i) = {"kind", "n", "flow", "inputs", "dir", "target", "node"}
                             /\ Job(i).n = <<count + 1, i>> /\ Job(i).kind = "queued"
  OBVIOUS
<1> HIDE DEF Job
<1>3. \A s \in S : /\ {"kind", "n", "target"} \subseteq DOMAIN s /\ s.n[1] = count + 1 /\ s.kind = "queued"
                   /\ {"job", "key"} \cap DOMAIN s = {}
  BY <1>2
<1>4. \A s, t \in S : s.n = t.n => s = t
  <2> SUFFICES ASSUME NEW i \in DOMAIN jobs, NEW j \in DOMAIN jobs, Job(i).n = Job(j).n
               PROVE  i = j
    OBVIOUS
  <2> QED BY <1>2
<1> QED BY <1>1, <1>3, <1>4

\* A run queued.
LEMMA EnqueueInv ==
  ASSUME EditInv, NEW k, NEW run, NEW targets, NEW node, EnqueueRuns(k, run, targets, node)
  PROVE  EditInv'
<1>1. PICK S : /\ reqs' = reqs \cup S /\ count' = count + 1 /\ UNCHANGED <<db, file, thumb, session, editor, comfyVars>>
               /\ \A s \in S : /\ {"kind", "n", "target"} \subseteq DOMAIN s /\ s.n[1] = count + 1 /\ s.kind = "queued"
                               /\ {"job", "key"} \cap DOMAIN s = {}
               /\ \A s, t \in S : s.n = t.n => s = t
  BY EnqueueMakes
<1>2. \A s \in S : Claims(s) = {s.n} /\ Shaped(s)
  BY <1>1 DEF Claims, Early, Shaped
<1>3. \A s \in S : {"kind", "n"} \subseteq DOMAIN s /\ s.n[1] = count + 1 /\ Claims(s) = {s.n} /\ s.kind # "bulk" /\ "job" \notin DOMAIN s
  BY <1>1, <1>2
<1>4. NamesOk'
  <2>1. NamesOk
    BY DEF EditInv
  <2> QED BY <1>1, <1>3, <2>1, ComingAll
<1>5. \A s \in S : Unused(s)
  <2>1. count \in Nat
    BY Counting
  <2>2. \A s \in S : \A v \in DOMAIN db.version : NameOf(db, v) \notin Claims(s)
    BY <1>3, <2>1 DEF EditInv, RowsOk
  <2>3. \A s \in S : \A x \in DOMAIN file : x.sub = "edits" => x.name \notin Claims(s)
    BY <1>3, <2>1 DEF EditInv, FilesOk
  <2> QED BY <1>1, <2>2, <2>3 DEF Unused
<1> QED BY <1>1, <1>2, <1>4, <1>5, Quiet, Counting DEF Fits

\* A job goes on: it keeps its name and its target, and neither is used yet.
LEMMA JobStep ==
  ASSUME EditInv, UNCHANGED <<db, file, thumb, count>>, NEW r \in reqs, r.kind \in Early \ {"render"}, NEW w, GoesOn(r, w),
         "kind" \in DOMAIN w, w.kind \in Early \ {"render"}, {"n", "target", "job"} \cap DOMAIN w = {}
  PROVE  EditInv'
<1>1. PICK s : s = With(w, r)
  OBVIOUS
<1>2. reqs' = (reqs \ {r}) \cup {s}
  BY <1>1 DEF GoesOn
<1>3. {"kind", "n", "target"} \subseteq DOMAIN r /\ Claims(r) = {r.n} /\ Unused(r) /\ r.kind # "bulk"
  BY DEF EditInv, NamesOk, Fits, Shaped, Early, Claims
<1>4. /\ DOMAIN s = DOMAIN r \cup DOMAIN w /\ s.kind = w.kind /\ s.n = r.n
      /\ "job" \in DOMAIN s => "job" \in DOMAIN r /\ s.job = r.job
  BY <1>1, <1>3 DEF With
<1>5. Claims(s) = Claims(r) /\ s.kind # "bulk" /\ {"kind", "n", "target"} \subseteq DOMAIN s
  BY <1>3, <1>4 DEF Claims, Early
<1>6. Shaped(s)
  BY <1>4, <1>5 DEF Shaped, Early
<1>7. Unused(s)
  BY <1>3, <1>4, <1>5 DEF Unused, Early
<1> QED BY <1>2, <1>3, <1>4, <1>5, <1>6, <1>7, QuietStep DEF Fits

\* A job that starts.
LEMMA RunStartsInv ==
  ASSUME EditInv, NEW r \in reqs, RunStarts(r)
  PROVE  EditInv'
<1>1. PICK w : w = [kind |-> "upload", sent |-> <<>>, next |-> 1, paths |-> [j \in DOMAIN r.inputs |-> PathOfInput(r.inputs[j])]]
  OBVIOUS
<1>2. r.kind = "queued" /\ GoesOn(r, w) /\ UNCHANGED <<db, file, thumb, count>>
  BY <1>1 DEF RunStarts
<1>3. DOMAIN w = {"kind", "sent", "next", "paths"} /\ w.kind = "upload"
  BY <1>1
<1> QED BY <1>2, <1>3, JobStep DEF Early

\* A picture uploaded to ComfyUI.
LEMMA UploadInv ==
  ASSUME EditInv, NEW r \in reqs, Upload(r)
  PROVE  EditInv'
<1>1. PICK w : w = [sent |-> Put(r.sent, r.inputs[r.next].key, file[r.paths[r.next]]), next |-> r.next + 1]
  OBVIOUS
<1>2. r.kind = "upload" /\ (GoesOn(r, w) \/ Over(r)) /\ UNCHANGED <<db, file, thumb, count>>
  BY <1>1 DEF Upload
<1>3. CASE Over(r)
  <2>1. reqs' \subseteq reqs
    BY <1>3 DEF Over
  <2> QED BY <1>2, <2>1, QuietEnd, Counting
<1>4. CASE GoesOn(r, w)
  <2>1. PICK s : s = With(w, r)
    OBVIOUS
  <2>2. reqs' = (reqs \ {r}) \cup {s}
    BY <1>4, <2>1 DEF GoesOn
  <2>3. {"kind", "n", "target"} \subseteq DOMAIN r /\ Claims(r) = {r.n} /\ Unused(r) /\ r.kind # "bulk"
    BY <1>2 DEF EditInv, NamesOk, Fits, Shaped, Early, Claims
  <2>4. DOMAIN w = {"sent", "next"}
    BY <1>1
  <2>5. /\ DOMAIN s = DOMAIN r \cup DOMAIN w /\ s.kind = "upload" /\ s.n = r.n
        /\ "job" \in DOMAIN s => "job" \in DOMAIN r /\ s.job = r.job
    BY <1>2, <2>1, <2>3, <2>4 DEF With
  <2>6. Claims(s) = Claims(r) /\ s.kind # "bulk" /\ {"kind", "n", "target"} \subseteq DOMAIN s
    BY <2>3, <2>5 DEF Claims, Early
  <2>7. Shaped(s)
    BY <2>5, <2>6 DEF Shaped, Early
  <2>8. Unused(s)
    BY <1>2, <2>3, <2>5, <2>6 DEF Unused, Early
  <2> QED BY <1>2, <2>2, <2>3, <2>5, <2>6, <2>7, <2>8, QuietStep DEF Fits
<1> QED BY <1>2, <1>3, <1>4

\* A prompt submitted.
LEMMA SubmitPromptInv ==
  ASSUME EditInv, NEW r \in reqs, SubmitPrompt(r)
  PROVE  EditInv'
<1>1. PICK w : w = [kind |-> "wait", prompt |-> Len(comfy.prompts) + 1]
  OBVIOUS
<1>2. r.kind = "upload" /\ (GoesOn(r, w) \/ Over(r)) /\ UNCHANGED <<db, file, thumb, count>>
  BY <1>1 DEF SubmitPrompt
<1>3. CASE Over(r)
  <2>1. reqs' \subseteq reqs
    BY <1>3 DEF Over
  <2> QED BY <1>2, <2>1, QuietEnd, Counting
<1>4. DOMAIN w = {"kind", "prompt"} /\ w.kind = "wait"
  BY <1>1
<1> QED BY <1>2, <1>3, <1>4, JobStep DEF Early

\* Its picture found.
LEMMA OutputFoundInv ==
  ASSUME EditInv, NEW r \in reqs, OutputFound(r)
  PROVE  EditInv'
<1>1. PICK w : w = [kind |-> "fetch", name |-> CHOOSE q \in Listed(r.prompt, r.node) : TRUE]
  OBVIOUS
<1>2. r.kind = "wait" /\ GoesOn(r, w) /\ UNCHANGED <<db, file, thumb, count>>
  BY <1>1 DEF OutputFound
<1>3. DOMAIN w = {"kind", "name"} /\ w.kind = "fetch"
  BY <1>1
<1> QED BY <1>2, <1>3, JobStep DEF Early

\* A job that gives up.
LEMMA TimedOutInv ==
  ASSUME EditInv, NEW r \in reqs, TimedOut(r)
  PROVE  EditInv'
<1>1. reqs' \subseteq reqs /\ UNCHANGED <<db, file, thumb, count>>
  BY DEF TimedOut, Over
<1> QED BY <1>1, QuietEnd, Counting

\* The picture of a face fetched.
LEMMA FetchForFaceInv ==
  ASSUME EditInv, NEW r \in reqs, FetchForFace(r)
  PROVE  EditInv'
<1>1. PICK w, t, p : /\ t = r.target /\ p = Path(DirOf(db, r.target), "edits", r.n, "png")
                     /\ w = [kind |-> "write", by |-> "upscale", of |-> t, parent |-> Nothing, row |-> Nothing, was |-> Nothing,
                             pic |-> comfy.output[r.name], path |-> p]
  OBVIOUS
<1>2. r.kind = "fetch" /\ (GoesOn(r, w) \/ Over(r)) /\ UNCHANGED <<db, file, thumb, count>>
  BY <1>1 DEF FetchForFace
<1>3. CASE Over(r)
  <2>1. reqs' \subseteq reqs
    BY <1>3 DEF Over
  <2> QED BY <1>2, <2>1, QuietEnd, Counting
<1>4. CASE GoesOn(r, w)
  <2>1. PICK s : s = With(w, r)
    OBVIOUS
  <2>2. reqs' = (reqs \ {r}) \cup {s}
    BY <1>4, <2>1 DEF GoesOn
  <2>3. {"kind", "n", "target"} \subseteq DOMAIN r /\ Claims(r) = {r.n} /\ Unused(r) /\ r.kind # "bulk"
    BY <1>2 DEF EditInv, NamesOk, Fits, Shaped, Early, Claims
  <2>4. /\ DOMAIN w = {"kind", "by", "of", "parent", "row", "was", "pic", "path"} /\ w.kind = "write" /\ w.row = Nothing /\ w.path = p
        /\ p.sub = "edits" /\ p.name = r.n /\ p = Path(p.dir, p.sub, p.name, p.ext)
    BY <1>1 DEF Path
  <2>5. /\ DOMAIN s = DOMAIN r \cup DOMAIN w /\ s.kind = "write" /\ s.n = r.n /\ s.row = Nothing /\ s.path = p
        /\ "job" \in DOMAIN s => "job" \in DOMAIN r /\ s.job = r.job
    BY <2>1, <2>3, <2>4 DEF With
  <2>6. Claims(s) = Claims(r) /\ s.kind # "bulk" /\ {"kind", "n"} \subseteq DOMAIN s
    BY <2>3, <2>5 DEF Claims, Early
  <2>7. Shaped(s)
    <3>1. Writing(s)
      BY <2>4, <2>5 DEF Writing
    <3> QED BY <2>5, <3>1 DEF Shaped
  <2>8. Unused(s)
    BY <1>2, <2>3, <2>5, <2>6 DEF Unused, Early
  <2> QED BY <1>2, <2>2, <2>3, <2>5, <2>6, <2>7, <2>8, QuietStep DEF Fits
<1> QED BY <1>2, <1>3, <1>4

\* The request and the file when the picture of a photo is fetched.
LEMMA FetchForPhotoMakes ==
  ASSUME EditInv, NEW r \in reqs, FetchForPhoto(r)
  PROVE  /\ r.kind = "fetch" /\ UNCHANGED <<db, thumb, session, editor, count>>
         /\ \/ reqs' = reqs \ {r} /\ file' = file
            \/ \E s, p : /\ reqs' = (reqs \ {r}) \cup {s} /\ DOMAIN s = DOMAIN r \cup {"kind", "pic", "path"}
                         /\ s.kind = "check" /\ s.path = p /\ p.sub = "edits" /\ p.name = r.n
                         /\ p = Path(p.dir, p.sub, p.name, p.ext) /\ file' = Put(file, p, s.pic)
                         /\ s.n = r.n /\ s.target = r.target /\ r.target[1] = "instance"
                         /\ "job" \in DOMAIN s => "job" \in DOMAIN r /\ s.job = r.job
<1>1. PICK w, p, pic : /\ p = EditPath(r.target[2], r.n) /\ pic = comfy.output[r.name]
                       /\ w = [kind |-> "check", pic |-> pic, path |-> p]
  OBVIOUS
<1>2. /\ r.kind = "fetch" /\ r.target[1] = "instance" /\ UNCHANGED <<db, thumb, session, editor, count>>
      /\ (file' = Put(file, p, pic) /\ GoesOn(r, w)) \/ (Over(r) /\ UNCHANGED file)
  BY <1>1 DEF FetchForPhoto
<1>3. CASE Over(r) /\ UNCHANGED file
  BY <1>2, <1>3 DEF Over
<1>4. CASE file' = Put(file, p, pic) /\ GoesOn(r, w)
  <2>1. PICK s : s = With(w, r)
    OBVIOUS
  <2>2. {"kind", "n", "target"} \subseteq DOMAIN r
    BY <1>2 DEF EditInv, NamesOk, Fits, Shaped
  <2>3. DOMAIN w = {"kind", "pic", "path"} /\ w.kind = "check" /\ w.pic = pic /\ w.path = p
    BY <1>1
  <2>4. /\ DOMAIN s = DOMAIN r \cup {"kind", "pic", "path"} /\ s.kind = "check" /\ s.path = p /\ s.pic = pic
        /\ s.n = r.n /\ s.target = r.target
        /\ "job" \in DOMAIN s => "job" \in DOMAIN r /\ s.job = r.job
    BY <2>1, <2>2, <2>3 DEF With
  <2>5. p.sub = "edits" /\ p.name = r.n /\ p = Path(p.dir, p.sub, p.name, p.ext)
    BY <1>1 DEF EditPath, Path
  <2>6. reqs' = (reqs \ {r}) \cup {s}
    BY <1>4, <2>1 DEF GoesOn
  <2> QED BY <1>2, <1>4, <2>4, <2>5, <2>6
<1> QED BY <1>2, <1>3, <1>4

\* The picture of a photo fetched.
LEMMA FetchForPhotoInv ==
  ASSUME EditInv, NEW r \in reqs, FetchForPhoto(r)
  PROVE  EditInv'
<1>1. /\ r.kind = "fetch" /\ UNCHANGED <<db, thumb, session, editor, count>>
      /\ \/ reqs' = reqs \ {r} /\ file' = file
         \/ \E s, p : /\ reqs' = (reqs \ {r}) \cup {s} /\ DOMAIN s = DOMAIN r \cup {"kind", "pic", "path"}
                      /\ s.kind = "check" /\ s.path = p /\ p.sub = "edits" /\ p.name = r.n
                      /\ p = Path(p.dir, p.sub, p.name, p.ext) /\ file' = Put(file, p, s.pic)
                      /\ s.n = r.n /\ s.target = r.target /\ r.target[1] = "instance"
                      /\ "job" \in DOMAIN s => "job" \in DOMAIN r /\ s.job = r.job
  BY FetchForPhotoMakes
<1>2. CASE reqs' = reqs \ {r} /\ file' = file
  <2>1. reqs' \subseteq reqs
    BY <1>2
  <2> QED BY <1>1, <1>2, <2>1, QuietEnd, Counting
<1>3. ASSUME NEW s, NEW p, reqs' = (reqs \ {r}) \cup {s}, DOMAIN s = DOMAIN r \cup {"kind", "pic", "path"},
             s.kind = "check", s.path = p, p.sub = "edits", p.name = r.n,
             p = Path(p.dir, p.sub, p.name, p.ext), file' = Put(file, p, s.pic),
             s.n = r.n, s.target = r.target, r.target[1] = "instance",
             "job" \in DOMAIN s => "job" \in DOMAIN r /\ s.job = r.job
      PROVE  EditInv'
  <2>1. /\ {"kind", "n", "target"} \subseteq DOMAIN r /\ Claims(r) = {r.n} /\ Unused(r) /\ r.kind # "bulk"
        /\ r.n[1] \in Int /\ r.n[1] <= count
    BY <1>1 DEF EditInv, NamesOk, Fits, Shaped, Early, Claims
  <2>2. Claims(s) = {r.n} /\ {"kind", "n"} \subseteq DOMAIN s /\ s.kind # "bulk"
    BY <1>3, <2>1 DEF Claims, Early
  <2>3. PICK nm : nm = r.n
    OBVIOUS
  <2>4. RowsOk' /\ Renamed(nm)
    BY <1>1, RowsSame, Counting
  <2>5. FilesOk' /\ Moves(nm)
    <3>1. FilesOk' /\ Moves(p.name)
      <4>1. PICK pic : pic = s.pic
        OBVIOUS
      <4>2. p.name[1] \in Int /\ p.name[1] <= count' /\ count' \in Nat /\ count <= count'
        BY <1>1, <1>3, <2>1, Counting
      <4> QED BY <1>3, <4>1, <4>2, FilePut
    <3> QED BY <1>3, <2>3, <3>1
  <2>6. Fits(s)'
    <3>1. Shaped(s)'
      BY <1>3, <2>1, <2>2 DEF Shaped
    <3>2. Unused(s)'
      BY <1>1, <1>3, <2>1, <2>2 DEF Unused, Early, NameOf
    <3> QED BY <3>1, <3>2 DEF Fits
  <2>7. \A q \in reqs \ {r} : nm \notin Claims(q)
    BY <2>1, <2>3, NotOthers
  <2> QED BY <1>1, <1>3, <2>1, <2>2, <2>4, <2>5, <2>6, <2>7, Step
<1> QED BY <1>1, <1>2, <1>3

\* It is checked against the photos there are.
LEMMA CheckedInv ==
  ASSUME EditInv, NEW r \in reqs, Checked(r)
  PROVE  EditInv'
<1>1. /\ r.kind = "check" /\ UNCHANGED <<db, thumb, count>>
      /\ (Over(r) /\ file' = Without(r.path)) \/ (GoesOn(r, [kind |-> "add"]) /\ UNCHANGED file)
  BY DEF Checked
<1>2. {"kind", "n", "path", "pic", "target"} \subseteq DOMAIN r /\ r.target[1] = "instance" /\ r.path.sub = "edits" /\ r.path.name = r.n
      /\ Claims(r) = {r.n} /\ Unused(r) /\ r.kind # "bulk"
  BY <1>1 DEF EditInv, NamesOk, Fits, Shaped, Early, Claims
<1>3. CASE Over(r) /\ file' = Without(r.path)
  <2>1. PICK x : x = r.path
    OBVIOUS
  <2>2. file' = [z \in DOMAIN file \ {x} |-> file[z]]
    BY <1>3, <2>1 DEF Without
  <2>3. FilesOk' /\ Moves(x.name)
    BY <1>1, <2>2, FileGone, Counting
  <2>4. PICK nm : nm = x.name
    OBVIOUS
  <2>5. RowsOk' /\ Renamed(nm)
    BY <1>1, RowsSame, Counting
  <2>6. reqs' \subseteq reqs /\ r \notin reqs'
    BY <1>3 DEF Over
  <2>7. \A q \in reqs' : nm \notin Claims(q)
    BY <1>2, <2>1, <2>4, <2>6, NotOthers
  <2>8. ThumbsOk'
    BY <1>1, <2>5, ThumbsStill
  <2> QED BY <1>1, <2>3, <2>4, <2>5, <2>6, <2>7, <2>8, Ending, Counting
<1>4. CASE GoesOn(r, [kind |-> "add"]) /\ UNCHANGED file
  <2>1. PICK s : /\ reqs' = (reqs \ {r}) \cup {s} /\ DOMAIN s = DOMAIN r /\ s.kind = "add" /\ s.n = r.n
                 /\ \A x \in DOMAIN r : x # "kind" => s[x] = r[x]
    BY <1>4, GoesOnAs
  <2>2. s.path = r.path /\ s.target = r.target /\ ("job" \in DOMAIN s => "job" \in DOMAIN r /\ s.job = r.job)
    BY <1>2, <2>1
  <2>3. Claims(s) = {r.n} /\ {"kind", "n"} \subseteq DOMAIN s /\ s.kind # "bulk"
    BY <1>2, <2>1 DEF Claims, Early
  <2>4. Shaped(s)
    BY <1>2, <2>1, <2>2 DEF Shaped
  <2>5. Unused(s)
    BY <1>2, <2>1, <2>3 DEF Unused, Early
  <2> QED BY <1>1, <1>2, <1>4, <2>1, <2>2, <2>3, <2>4, <2>5, QuietStep DEF Fits
<1> QED BY <1>1, <1>3, <1>4

\* A new photo has no row that versions could refer to.
LEMMA NewPhotoRows ==
  ASSUME EditInv, NEW a, NEW pic, NEW path, NEW auto, NewPhoto(a, pic, path, auto)
  PROVE  DOMAIN db' = DOMAIN db /\ \A x \in DOMAIN db \ {"ledger"} : db'[x] = db[x]
<1>1. PICK l : l = db.ledger \cup {pic}
  OBVIOUS
<1>2. db' = [db EXCEPT !.ledger = l]
  BY <1>1 DEF NewPhoto
<1> QED BY <1>2

\* It becomes a photo.
LEMMA AddedInv ==
  ASSUME EditInv, NEW r \in reqs, Added(r)
  PROVE  EditInv'
<1>1. /\ r.kind = "add" /\ UNCHANGED <<file, thumb, count>>
      /\ (Over(r) /\ UNCHANGED db) \/ (NewPhoto(r.target[2], r.pic, r.path, TRUE) /\ GoesOn(r, [kind |-> "clean"]))
  BY DEF Added
<1>2. CASE Over(r) /\ UNCHANGED db
  <2>1. reqs' \subseteq reqs
    BY <1>2 DEF Over
  <2> QED BY <1>1, <1>2, <2>1, QuietEnd, Counting
<1>3. CASE NewPhoto(r.target[2], r.pic, r.path, TRUE) /\ GoesOn(r, [kind |-> "clean"])
  <2>1. DOMAIN db' = DOMAIN db /\ \A x \in DOMAIN db \ {"ledger"} : db'[x] = db[x]
    BY <1>3, NewPhotoRows
  <2>2. \A x \in {"photo", "inst", "crop", "version", "derived"} : db'[x] = db[x]
    BY <2>1 DEF EditInv, RowsOk
  <2>3. db'.photo = db.photo /\ db'.inst = db.inst /\ db'.crop = db.crop /\ db'.version = db.version /\ db'.derived = db.derived
        /\ DOMAIN db.photo = Asset
    BY <2>2 DEF EditInv, RowsOk
  <2>4. RowsOk' /\ FilesOk' /\ Renamed(NewName) /\ Moves(NewName)
    BY <1>1, <2>1, <2>3, OtherRows
  <2>5. {"kind", "n", "path", "pic", "target"} \subseteq DOMAIN r /\ r.target[1] = "instance"
    BY <1>1 DEF EditInv, NamesOk, Fits, Shaped
  <2>6. PICK s : /\ reqs' = (reqs \ {r}) \cup {s} /\ DOMAIN s = DOMAIN r /\ s.kind = "clean" /\ s.n = r.n
                 /\ \A x \in DOMAIN r : x # "kind" => s[x] = r[x]
    BY <1>3, GoesOnAs
  <2>7. s.target = r.target /\ ("job" \in DOMAIN s => "job" \in DOMAIN r /\ s.job = r.job)
    BY <2>5, <2>6
  <2>8. Claims(s) = {} /\ {"kind", "n"} \subseteq DOMAIN s /\ s.kind # "bulk" /\ r.kind # "bulk"
    BY <1>1, <2>5, <2>6 DEF Claims, Early
  <2>9. Fits(s)'
    BY <2>5, <2>6, <2>7, <2>8 DEF Fits, Shaped, Unused, Early
  <2>10. Claims(s) \subseteq Claims(r)
    BY <2>8
  <2> QED BY <1>1, <2>4, <2>6, <2>7, <2>8, <2>9, <2>10, Step, NewUnclaimed
<1> QED BY <1>1, <1>2, <1>3

\* And goes from the folder of ComfyUI.
LEMMA CleanedInv ==
  ASSUME EditInv, NEW r \in reqs, Cleaned(r)
  PROVE  EditInv'
<1>1. /\ r.kind = "clean" /\ UNCHANGED <<db, file, thumb, count>>
      /\ IF r.target[1] = "face" THEN GoesOn(r, [kind |-> "thumb"]) ELSE Over(r)
  BY DEF Cleaned
<1>2. CASE r.target[1] # "face"
  <2>1. reqs' \subseteq reqs
    BY <1>1, <1>2 DEF Over
  <2> QED BY <1>1, <2>1, QuietEnd, Counting
<1>3. CASE r.target[1] = "face"
  <2>1. PICK s : /\ reqs' = (reqs \ {r}) \cup {s} /\ DOMAIN s = DOMAIN r /\ s.kind = "thumb" /\ s.n = r.n
                 /\ \A x \in DOMAIN r : x # "kind" => s[x] = r[x]
    BY <1>1, <1>3, GoesOnAs
  <2>2. {"kind", "n", "row", "path", "by"} \subseteq DOMAIN r /\ r.row \in DOMAIN db.version
    BY <1>1, <1>3 DEF EditInv, NamesOk, Fits, Shaped
  <2>3. s.row = r.row /\ ("job" \in DOMAIN s => "job" \in DOMAIN r /\ s.job = r.job)
    BY <2>1, <2>2
  <2>4. Claims(s) = {} /\ {"kind", "n"} \subseteq DOMAIN s /\ s.kind # "bulk" /\ r.kind # "bulk"
    BY <1>1, <2>1, <2>2 DEF Claims, Early
  <2>5. Fits(s) /\ Claims(s) \subseteq Claims(r)
    BY <2>1, <2>2, <2>3, <2>4 DEF Fits, Shaped, Unused, Early
  <2> QED BY <1>1, <2>1, <2>3, <2>4, <2>5, QuietStep
<1> QED BY <1>2, <1>3

\* A result imported by hand.
LEMMA ImportResultInv ==
  ASSUME EditInv, NEW a, NEW q, ImportResult(a, q)
  PROVE  EditInv'
<1>1. PICK p, pic : p = EditPath(a, NewName) /\ pic = comfy.output[q]
  OBVIOUS
<1>2. /\ count' = count + 1 /\ UNCHANGED <<thumb, reqs>> /\ file' = Put(file, p, pic) /\ NewPhoto(a, pic, p, FALSE)
  BY <1>1 DEF ImportResult
<1>3. DOMAIN db' = DOMAIN db /\ \A x \in DOMAIN db \ {"ledger"} : db'[x] = db[x]
  BY <1>2, NewPhotoRows
<1>4. \A x \in {"photo", "inst", "crop", "version", "derived"} : db'[x] = db[x]
  BY <1>3 DEF EditInv, RowsOk
<1>5. db'.photo = db.photo /\ db'.inst = db.inst /\ db'.crop = db.crop /\ db'.version = db.version /\ db'.derived = db.derived
      /\ DOMAIN db.photo = Asset /\ \A v \in DOMAIN db.version : db.version[v].path.sub = "edits"
  BY <1>4 DEF EditInv, RowsOk
<1>6. p.sub = "edits" /\ p.name = NewName /\ p = Path(p.dir, p.sub, p.name, p.ext)
  BY <1>1 DEF EditPath, Path
<1>7. count \in Nat /\ count' \in Nat /\ count <= count' /\ p.name[1] \in Int /\ p.name[1] <= count' /\ reqs' \subseteq reqs
  BY <1>2, <1>6, Counting DEF NewName
<1>8. FilesOk' /\ Moves(p.name)
  BY <1>2, <1>6, <1>7, FilePut
<1>9. PICK nm : nm = p.name
  OBVIOUS
<1>10. RowsOk' /\ Renamed(nm)
  <2>1. \A v \in DOMAIN db.version : NameOf(db', v) = NameOf(db, v) /\ db'.version[v].path.sub = "edits"
    BY <1>5 DEF NameOf
  <2> QED BY <1>3, <1>5, <1>7, <2>1, RowsKept
<1>11. ThumbsOk'
  BY <1>2, <1>10, ThumbsStill
<1>12. \A r \in reqs' : nm \notin Claims(r)
  BY <1>2, <1>6, <1>9, NewUnclaimed
<1> QED BY <1>7, <1>8, <1>9, <1>10, <1>11, <1>12, Ending

\* Steps outside the editor.
LEMMA OutsideInv ==
  ASSUME EditInv, UNCHANGED <<db, file, thumb, reqs>>, count' = count \/ count' = count + 1
  PROVE  EditInv'
<1>1. reqs' \subseteq reqs
  OBVIOUS
<1> QED BY <1>1, QuietEnd, Counting

-----------------------------------------------------------------------------
(* Sessions, and everything together.                                        *)

\* Versions stay.
LEMMA AddingGrows ==
  ASSUME EditInv, NEW seen, NEW row, db' = AddVersion(db, seen, row)
  PROVE  DOMAIN db.version \subseteq DOMAIN db'.version
<1>1. PICK d : d = db'
  OBVIOUS
<1>2. RowsOk /\ d = AddVersion(db, seen, row)
  BY <1>1 DEF EditInv
<1>3. OneMore(d, seen, row)
  BY <1>2, Adding
<1> QED BY <1>1, <1>3 DEF OneMore

\* A step that changes other tables leaves the versions.
LEMMA SameVersions ==
  ASSUME EditInv, NEW S, "version" \notin S, \A x \in DOMAIN db \ S : db'[x] = db[x]
  PROVE  db'.version = db.version
BY DEF EditInv, RowsOk

\* Looking for faces in a version leaves all rows but those of derived crops.
LEMMA DedupeRows ==
  ASSUME EditInv, NEW r, NEW found, Dedupe(r, found)
  PROVE  db'.version = db.version /\ db'.photo = db.photo /\ db'.inst = db.inst /\ db'.crop = db.crop /\ db'.ledger = db.ledger
<1>1. PICK D : db' = db \/ db' = [db EXCEPT !.derived = D]
  <2>1. db' = db \/ db' = [db EXCEPT !.derived = @ \cup
             {[crop |-> CropName(r.row, j), found |-> Append(r.n, j)] : j \in {i \in DOMAIN found : found[i] = "new"}}]
    BY DEF Dedupe
  <2> QED BY <2>1
<1>2. DOMAIN db = {"photo", "inst", "box", "crop", "version", "ledger", "derived"}
  BY DEF EditInv, RowsOk
<1> QED BY <1>1, <1>2

\* No version comes, and none becomes the current one or ceases to be.
RowsStay ==
    /\ DOMAIN db'.version = DOMAIN db.version
    /\ \A v \in DOMAIN db.version : db'.version[v].of = db.version[v].of /\ db'.version[v].current = db.version[v].current

\* Writing over a version does neither.
LEMMA OverwrittenStays ==
  ASSUME EditInv, NEW r \in reqs, Overwritten(r)
  PROVE  RowsStay
<1>1. /\ DOMAIN db'.version = DOMAIN db.version
      /\ \A v \in DOMAIN db.version : v # r.row => db'.version[v] = db.version[v]
      /\ \A x \in {"of", "parent", "current"} : db'.version[r.row][x] = db.version[r.row][x]
  BY OverwrittenRows
<1>2. db'.version[r.row].of = db.version[r.row].of /\ db'.version[r.row].current = db.version[r.row].current
  BY <1>1
<1> QED BY <1>1, <1>2 DEF RowsStay

\* That is so but for two actions.
LEMMA RowsChange ==
  ASSUME EditInv, Next
  PROVE  RowsStay \/ \E r \in reqs : Inserted(r) \/ Switched(r)
<1>1. db'.version = db.version => RowsStay
  BY DEF RowsStay
<1>2. ASSUME NEW r \in reqs, Overwritten(r) PROVE RowsStay
  BY <1>2, OverwrittenStays
<1>3. ASSUME NEW r \in reqs, NEW found, Dedupe(r, found) PROVE RowsStay
  BY <1>1, <1>3, DedupeRows
<1>4. ASSUME NEW r \in reqs, PhotoTurned(r) PROVE RowsStay
  BY <1>1, <1>4, PhotoTurnedRows
<1>5. ASSUME NEW r \in reqs, CopyTurned(r) PROVE RowsStay
  <2>1. /\ DOMAIN db'.version = DOMAIN db.version
        /\ \A v \in DOMAIN db.version : \A x \in DOMAIN db.version[v] \ {"shows"} : db'.version[v][x] = db.version[v][x]
    BY <1>5, CopyTurnedRows
  <2>2. \A v \in DOMAIN db.version : {"of", "current"} \subseteq DOMAIN db.version[v] \ {"shows"}
    BY DEF EditInv, RowsOk
  <2> QED BY <2>1, <2>2 DEF RowsStay
<1>6. ASSUME Renaming PROVE RowsStay
  <2>1. PICK dir : RenameFolder(dir, "renamed")
    BY <1>6 DEF Renaming
  <2>2. \A x \in DOMAIN db \ {"inst", "crop"} : db'[x] = db[x]
    BY <2>1, RenameRows
  <2> QED BY <1>1, <2>2, SameVersions
<1>7. ASSUME NEW i \in Inst, TrashOrRestore(i) PROVE RowsStay
  <2>1. \A x \in DOMAIN db \ {"inst"} : db'[x] = db[x]
    BY <1>7, TrashMoves
  <2> QED BY <1>1, <2>1, SameVersions
<1>8. ASSUME NEW a, NEW pic, NEW path, NEW auto, NewPhoto(a, pic, path, auto) PROVE RowsStay
  <2>1. \A x \in DOMAIN db \ {"ledger"} : db'[x] = db[x]
    BY <1>8, NewPhotoRows
  <2> QED BY <1>1, <2>1, SameVersions
<1>9. ASSUME NEW r \in reqs, Added(r) PROVE RowsStay
  BY <1>1, <1>8, <1>9 DEF Added
<1>10. ASSUME NEW a, NEW q, ImportResult(a, q) PROVE RowsStay
  BY <1>8, <1>10 DEF ImportResult
<1> DEFINE Goal == RowsStay \/ \E r \in reqs : Inserted(r) \/ Switched(r)
<1>11. ASSUME Requests PROVE RowsStay
  <2>1. ASSUME NEW k PROVE (\E op \in Ops : ApplyStart(k, op)) \/ (\E seq : Rollback(k, seq)) \/ (\E mode : Save(k, mode)) => db' = db
    BY DEF ApplyStart, Rollback, Save
  <2>2. (\E S, op : BulkEdit(S, op)) \/ (\E t : GetThumbnail(t)) => db' = db
    BY DEF BulkEdit, GetThumbnail, ThumbMiss
  <2>3. (\E a : ImportVersion(a)) \/ (\E a, v : SetCurrent(a, v)) => db' = db
    BY DEF ImportVersion, SetCurrent
  <2> QED BY <1>1, <1>7, <1>11, <2>1, <2>2, <2>3 DEF Requests
<1>12. ASSUME Steps PROVE Goal
  <2>1. PICK r \in reqs :
           \/ ApplyDone(r)
           \/ Rendered(r) \/ Written(r) \/ Overwritten(r) \/ CurrentRead(r) \/ Inserted(r) \/ VersionThumb(r)
           \/ \E found : Dedupe(r, found)
           \/ TurnFile(r) \/ PhotoTurned(r) \/ ThumbsDropped(r) \/ CopyTurned(r)
           \/ BulkNext(r) \/ SiblingsRead(r) \/ Switched(r) \/ ThumbStored(r)
    BY <1>12 DEF Steps
  <2>2. ApplyDone(r) \/ Rendered(r) \/ Written(r) \/ CurrentRead(r) \/ VersionThumb(r) \/ TurnFile(r) \/ ThumbsDropped(r)
        \/ BulkNext(r) \/ SiblingsRead(r) \/ ThumbStored(r) => db' = db
    BY DEF ApplyDone, Rendered, Written, CurrentRead, VersionThumb, TurnFile, ThumbsDropped, BulkNext, SiblingsRead, ThumbStored
  <2> QED BY <1>1, <1>2, <1>3, <1>4, <1>5, <2>1, <2>2
<1>13. ASSUME ComfyRequests PROVE RowsStay
  <2>1. (\E run : RunWorkflow(run) \/ RunDefaultWorkflow(run)) \/ (\E s : PutSettings(s)) => db' = db
    BY DEF RunWorkflow, RunDefaultWorkflow, EnqueueRuns, PutSettings
  <2> QED BY <1>1, <1>10, <1>13, <2>1 DEF ComfyRequests
<1>14. ASSUME ComfySteps PROVE RowsStay
  <2>1. PICK r \in reqs : \/ RunStarts(r) \/ Upload(r) \/ SubmitPrompt(r) \/ OutputFound(r) \/ TimedOut(r)
                          \/ FetchForFace(r) \/ FetchForPhoto(r) \/ Checked(r) \/ Added(r) \/ Cleaned(r)
    BY <1>14 DEF ComfySteps
  <2>2. Added(r) \/ db' = db
    BY <2>1 DEF RunStarts, Upload, SubmitPrompt, OutputFound, TimedOut, FetchForFace, FetchForPhoto, Checked, Cleaned
  <2> QED BY <1>1, <1>9, <2>2
<1>15. Crash \/ (\E p : Rendering(p)) \/ ComfyStops \/ ComfyStarts => db' = db
  BY DEF Crash, Rendering, ComfyStops, ComfyStarts, vars
<1> QED BY <1>1, <1>6, <1>11, <1>12, <1>13, <1>14, <1>15 DEF Next

\* Versions stay.
LEMMA Grows ==
  ASSUME EditInv, Next
  PROVE  DOMAIN db.version \subseteq DOMAIN db'.version
<1>1. ASSUME NEW r \in reqs, Inserted(r) PROVE DOMAIN db.version \subseteq DOMAIN db'.version
  <2>1. PICK seen, row : db' = AddVersion(db, seen, row)
    BY <1>1 DEF Inserted
  <2> QED BY <2>1, AddingGrows
<1>2. ASSUME NEW r \in reqs, Switched(r) PROVE DOMAIN db'.version = DOMAIN db.version
  BY <1>2, SwitchedRows DEF SwitchRows
<1> QED BY <1>1, <1>2, RowsChange DEF RowsStay

\* Sessions stay in order when their targets do.
LEMMA SessionsStay ==
  ASSUME SessionsOk, DOMAIN db.version \subseteq DOMAIN db'.version, DOMAIN session' = DOMAIN session,
         \A k \in DOMAIN session : DOMAIN session'[k] = DOMAIN session[k] /\ session'[k].target = session[k].target,
         DOMAIN editor' \subseteq DOMAIN editor
  PROVE  SessionsOk'
<1>1. ASSUME NEW k \in DOMAIN session'
      PROVE  /\ DOMAIN session'[k] = {"target", "source", "steps"}
             /\ \/ session'[k].target[1] = "instance" /\ session'[k].target[2] \in Asset
                \/ session'[k].target[1] = "face" /\ session'[k].target[2] \in Face
                \/ session'[k].target[1] = "version" /\ session'[k].target[2] \in DOMAIN db'.version
             /\ session'[k].target = <<session'[k].target[1], session'[k].target[2]>>
  <2>1. PICK t : t = session[k].target /\ t = session'[k].target
    BY <1>1
  <2>2. /\ DOMAIN session[k] = {"target", "source", "steps"}
        /\ \/ t[1] = "instance" /\ t[2] \in Asset
           \/ t[1] = "face" /\ t[2] \in Face
           \/ t[1] = "version" /\ t[2] \in DOMAIN db.version
        /\ t = <<t[1], t[2]>>
    BY <1>1, <2>1 DEF SessionsOk
  <2> QED BY <1>1, <2>1, <2>2
<1>2. DOMAIN editor' \subseteq DOMAIN session'
  BY DEF SessionsOk
<1> QED BY <1>1, <1>2 DEF SessionsOk

\* What a step does to sessions and editors.
LEMMA SessionsChange ==
  ASSUME SessionsOk, Next
  PROVE  /\ DOMAIN session' = DOMAIN session
         /\ \A k \in DOMAIN session : DOMAIN session'[k] = DOMAIN session[k] /\ session'[k].target = session[k].target
         /\ DOMAIN editor' \subseteq DOMAIN editor
<1> DEFINE Body == /\ DOMAIN session' = DOMAIN session
                   /\ \A k \in DOMAIN session : DOMAIN session'[k] = DOMAIN session[k] /\ session'[k].target = session[k].target
                   /\ DOMAIN editor' \subseteq DOMAIN editor
<1>0. \A k \in DOMAIN session : DOMAIN session[k] = {"target", "source", "steps"}
  BY DEF SessionsOk
<1>1. ASSUME session' = session, DOMAIN editor' \subseteq DOMAIN editor PROVE Body
  BY <1>1
<1>2. ASSUME NEW r, ApplyDone(r) PROVE Body
  <2>1. PICK k, S : k = r.key /\ (session' = session \/ session' = [session EXCEPT ![k].steps = S])
    <3>1. session' = session \/ \E pic : session' = [session EXCEPT ![r.key].steps = Put(@, r.seq, [op |-> r.op, shows |-> pic])]
      BY <1>2 DEF ApplyDone
    <3>2. ASSUME NEW pic, session' = [session EXCEPT ![r.key].steps = Put(@, r.seq, [op |-> r.op, shows |-> pic])]
          PROVE  \E S : session' = [session EXCEPT ![r.key].steps = S]
      BY <3>2
    <3> QED BY <3>1, <3>2
  <2>2. DOMAIN editor' \subseteq DOMAIN editor
    <3>1. editor' = editor \/ \E e : editor' = [editor EXCEPT ![r.key] = e]
      BY <1>2 DEF ApplyDone
    <3> QED BY <3>1
  <2>3. DOMAIN session' = DOMAIN session /\ \A j \in DOMAIN session : DOMAIN session'[j] = DOMAIN session[j] /\ session'[j].target = session[j].target
    BY <1>0, <2>1
  <2> QED BY <2>2, <2>3
<1>3. ASSUME NEW k, NEW seq, Rollback(k, seq) PROVE Body
  <2>1. PICK S : session' = session \/ session' = [session EXCEPT ![k].steps = S]
    <3>1. session' = session \/ session' = [session EXCEPT ![k].steps = Keep(@, seq)]
      BY <1>3 DEF Rollback
    <3> QED BY <3>1
  <2>2. DOMAIN editor' \subseteq DOMAIN editor
    BY <1>3 DEF Rollback
  <2>3. DOMAIN session' = DOMAIN session /\ \A j \in DOMAIN session : DOMAIN session'[j] = DOMAIN session[j] /\ session'[j].target = session[j].target
    BY <1>0, <2>1
  <2> QED BY <2>2, <2>3
<1> HIDE DEF Body
<1>4. ASSUME Requests PROVE Body
  <2>1. \A k : (\E op : ApplyStart(k, op)) \/ (\E mode : Save(k, mode)) => session' = session /\ DOMAIN editor' \subseteq DOMAIN editor
    BY DEF ApplyStart, Save
  <2>2. (\E S, op : BulkEdit(S, op)) \/ (\E t : GetThumbnail(t)) \/ (\E i : TrashOrRestore(i)) => session' = session /\ DOMAIN editor' \subseteq DOMAIN editor
    BY DEF BulkEdit, GetThumbnail, ThumbMiss, TrashOrRestore
  <2>3. \A a : ImportVersion(a) \/ (\E v : SetCurrent(a, v)) => session' = session /\ DOMAIN editor' \subseteq DOMAIN editor
    BY DEF ImportVersion, SetCurrent
  <2> QED BY <1>1, <1>3, <1>4, <2>1, <2>2, <2>3 DEF Requests
<1>5. ASSUME Steps PROVE Body
  <2>1. PICK r \in reqs :
           \/ ApplyDone(r)
           \/ Rendered(r) \/ Written(r) \/ Overwritten(r) \/ CurrentRead(r) \/ Inserted(r) \/ VersionThumb(r)
           \/ \E found : Dedupe(r, found)
           \/ TurnFile(r) \/ PhotoTurned(r) \/ ThumbsDropped(r) \/ CopyTurned(r)
           \/ BulkNext(r) \/ SiblingsRead(r) \/ Switched(r) \/ ThumbStored(r)
    BY <1>5 DEF Steps
  <2>2. \/ ApplyDone(r)
        \/ session' = session /\ DOMAIN editor' \subseteq DOMAIN editor
    BY <2>1 DEF Rendered, Written, Overwritten, CurrentRead, Inserted, VersionThumb, Dedupe,
                TurnFile, PhotoTurned, ThumbsDropped, CopyTurned, BulkNext, SiblingsRead, Switched, ThumbStored, Closed
  <2> QED BY <1>1, <1>2, <2>2
<1>6. ASSUME ComfyRequests PROVE Body
  <2>1. session' = session /\ DOMAIN editor' \subseteq DOMAIN editor
    BY <1>6 DEF ComfyRequests, RunWorkflow, RunDefaultWorkflow, EnqueueRuns, PutSettings, ImportResult
  <2> QED BY <1>1, <2>1
<1>7. ASSUME ComfySteps PROVE Body
  <2>1. session' = session /\ DOMAIN editor' \subseteq DOMAIN editor
    BY <1>7 DEF ComfySteps, RunStarts, Upload, SubmitPrompt, OutputFound, TimedOut, FetchForFace, FetchForPhoto, Checked, Added, Cleaned
  <2> QED BY <1>1, <2>1
<1>8. ASSUME Crash \/ Renaming \/ (\E p : Rendering(p)) \/ ComfyStops \/ ComfyStarts PROVE Body
  <2>1. Renaming \/ (\E p : Rendering(p)) \/ ComfyStops \/ ComfyStarts => session' = session /\ DOMAIN editor' \subseteq DOMAIN editor
    BY DEF Renaming, RenameFolder, Rendering, ComfyStops, ComfyStarts, vars
  <2>2. Crash => session' = session /\ DOMAIN editor' \subseteq DOMAIN editor
    BY DEF Crash
  <2> QED BY <1>1, <1>8, <2>1, <2>2
<1>9. Body
  BY <1>4, <1>5, <1>6, <1>7, <1>8 DEF Next
<1> QED BY <1>9 DEF Body

-----------------------------------------------------------------------------
(* Every step, and the beginning.                                            *)

\* A step keeps the invariant.
LEMMA EditStep ==
  ASSUME EditInv, SessionsOk, Next
  PROVE  EditInv'
<1>1. ASSUME Requests PROVE EditInv'
  <2>1. ASSUME NEW v \in DOMAIN db.version, NEW a, SetCurrent(a, v) PROVE EditInv'
    BY <2>1, SetCurrentInv
  <2>2. ASSUME NEW k PROVE /\ \A op : ApplyStart(k, op) => EditInv'
                           /\ \A seq : Rollback(k, seq) => EditInv'
                           /\ \A mode : Save(k, mode) => EditInv'
    BY ApplyStartInv, RollbackInv, SaveInv
  <2>3. \A S, op : BulkEdit(S, op) => EditInv'
    BY BulkEditInv
  <2>4. \A a : ImportVersion(a) => EditInv'
    BY ImportVersionInv
  <2>5. \A t \in Thumbs : GetThumbnail(t) => EditInv'
    BY GetThumbnailInv
  <2>6. \A i \in Inst : TrashOrRestore(i) => EditInv'
    BY TrashInv
  <2> QED BY <1>1, <2>1, <2>2, <2>3, <2>4, <2>5, <2>6 DEF Requests
<1>2. ASSUME Steps PROVE EditInv'
  <2>1. PICK r \in reqs :
           \/ ApplyDone(r)
           \/ Rendered(r) \/ Written(r) \/ Overwritten(r) \/ CurrentRead(r) \/ Inserted(r) \/ VersionThumb(r)
           \/ \E found \in {<<>>, <<"new">>, <<"known">>, <<"new", "new">>} : Dedupe(r, found)
           \/ TurnFile(r) \/ PhotoTurned(r) \/ ThumbsDropped(r) \/ CopyTurned(r)
           \/ BulkNext(r) \/ SiblingsRead(r) \/ Switched(r) \/ ThumbStored(r)
    BY <1>2 DEF Steps
  <2>2. ASSUME NEW found \in {<<>>, <<"new">>, <<"known">>, <<"new", "new">>}, Dedupe(r, found) PROVE EditInv'
    <3>1. DOMAIN found \in {1..0, 1..1, 1..2}
      BY <2>2
    <3>2. IsFiniteSet(DOMAIN found)
      <4>1. IsFiniteSet(1..0) /\ IsFiniteSet(1..1) /\ IsFiniteSet(1..2)
        BY FS_Interval, 0 \in Int, 1 \in Int, 2 \in Int
      <4> QED BY <3>1, <4>1
    <3> QED BY <2>2, <3>2, DedupeInv
  <2> QED BY <2>1, <2>2, ApplyDoneInv, RenderedInv, WrittenInv, OverwrittenInv, CurrentReadInv, InsertedInv, VersionThumbInv,
             TurnFileInv, PhotoTurnedInv, ThumbsDroppedInv, CopyTurnedInv, BulkNextInv, SiblingsReadInv, SwitchedInv, ThumbStoredInv
<1>3. ASSUME ComfyRequests PROVE EditInv'
  <2>1. \A k, run, targets, node : EnqueueRuns(k, run, targets, node) => EditInv'
    BY EnqueueInv
  <2>2. \A run : RunWorkflow(run) \/ RunDefaultWorkflow(run) => EditInv'
    BY <2>1 DEF RunWorkflow, RunDefaultWorkflow
  <2>3. \A s : PutSettings(s) => EditInv'
    BY OutsideInv DEF PutSettings
  <2>4. \A a, q : ImportResult(a, q) => EditInv'
    BY ImportResultInv
  <2> QED BY <1>3, <2>2, <2>3, <2>4 DEF ComfyRequests
<1>4. ASSUME ComfySteps PROVE EditInv'
  <2>1. PICK r \in reqs : \/ RunStarts(r) \/ Upload(r) \/ SubmitPrompt(r) \/ OutputFound(r) \/ TimedOut(r)
                          \/ FetchForFace(r) \/ FetchForPhoto(r) \/ Checked(r) \/ Added(r) \/ Cleaned(r)
    BY <1>4 DEF ComfySteps
  <2> QED BY <2>1, RunStartsInv, UploadInv, SubmitPromptInv, OutputFoundInv, TimedOutInv, FetchForFaceInv, FetchForPhotoInv,
             CheckedInv, AddedInv, CleanedInv
<1>5. ASSUME Renaming PROVE EditInv'
  <2>1. PICK dir : RenameFolder(dir, "renamed")
    BY <1>5 DEF Renaming
  <2> QED BY <2>1, RenameFolderInv
<1>6. ASSUME (\E p : Rendering(p)) \/ ComfyStops \/ ComfyStarts PROVE EditInv'
  <2>1. UNCHANGED <<db, file, thumb, reqs, count>>
    BY <1>6 DEF Rendering, ComfyStops, ComfyStarts, vars
  <2> QED BY <2>1, OutsideInv
<1> QED BY <1>1, <1>2, <1>3, <1>4, <1>5, <1>6, CrashInv DEF Next

\* And the sessions.
LEMMA SessionsStep ==
  ASSUME EditInv, SessionsOk, Next
  PROVE  SessionsOk'
BY Grows, SessionsChange, SessionsStay

\* It holds to begin with.
LEMMA EditStart ==
  ASSUME Init
  PROVE  EditInv /\ SessionsOk
<1>1. PICK w \in Worlds : InitIn(w)
  BY DEF Init
<1>2. Possible(w)
  BY EditsAssumption
<1>3. db = w.db /\ file = w.file /\ session = w.session /\ editor = w.editor /\ thumb = <<>> /\ reqs = {} /\ count = 0
  BY <1>1 DEF InitIn
<1>4. RowsOk
  <2>1. IsFiniteSet({})
    BY FS_EmptySet
  <2>2. PICK d : d = w.db /\ d = db
    BY <1>3
  <2>3. /\ DOMAIN d = {"photo", "inst", "box", "crop", "version", "ledger", "derived"}
        /\ DOMAIN d.photo = Asset /\ DOMAIN d.inst = Inst /\ DOMAIN d.crop = Face
        /\ \A i \in Inst : DOMAIN d.inst[i] = {"path", "live"} /\ d.inst[i].path.sub \in {"photos", "trash"}
        /\ \A f, g \in Face : /\ d.crop[f].sub = "faces" /\ Len(d.crop[f].name) # 2
                              /\ f # g => d.crop[f].name # d.crop[g].name
        /\ DOMAIN d.version \subseteq Nat /\ IsFiniteSet(DOMAIN d.version)
        /\ \A v, u \in DOMAIN d.version :
              /\ DOMAIN d.version[v] = {"of", "parent", "path", "current", "shows"}
              /\ d.version[v].path.sub = "edits" /\ d.version[v].path.name[1] \in Int /\ d.version[v].path.name[1] <= 0
              /\ v # u => d.version[v].path.name # d.version[u].path.name
        /\ d.derived = {}
    BY <1>2, <2>2 DEF Possible
  <2>4. IsFiniteSet(db.derived) /\ \A c \in db.derived : c.crop.dir = "_unknown" /\ c.crop.sub = "faces"
    BY <2>1, <2>2, <2>3
  <2>5. \A v, u \in DOMAIN db.version : v # u => NameOf(db, v) # NameOf(db, u)
    BY <2>2, <2>3 DEF NameOf
  <2>6. \A v \in DOMAIN db.version :
          /\ DOMAIN db.version[v] = {"of", "parent", "path", "current", "shows"}
          /\ db.version[v].path.sub = "edits" /\ NameOf(db, v)[1] \in Int /\ NameOf(db, v)[1] <= count
    BY <1>3, <2>2, <2>3 DEF NameOf
  <2>7. /\ DOMAIN db = {"photo", "inst", "box", "crop", "version", "ledger", "derived"}
        /\ DOMAIN db.photo = Asset /\ DOMAIN db.inst = Inst /\ DOMAIN db.crop = Face
        /\ \A i \in Inst : DOMAIN db.inst[i] = {"path", "live"} /\ db.inst[i].path.sub \in {"photos", "trash"}
        /\ DOMAIN db.version \subseteq Nat /\ IsFiniteSet(DOMAIN db.version)
    BY <2>2, <2>3
  <2>8. ASSUME NEW f \in Face, NEW g \in Face
        PROVE  db.crop[f].sub = "faces" /\ Len(db.crop[f].name) # 2 /\ (f # g => db.crop[f].name # db.crop[g].name)
    <3>1. \A f1, g1 \in Face : d.crop[f1].sub = "faces"
      BY <2>3
    <3>2. \A f1, g1 \in Face : Len(d.crop[f1].name) # 2
      BY <2>3
    <3>3. \A f1, g1 \in Face : f1 # g1 => d.crop[f1].name # d.crop[g1].name
      BY <2>3
    <3> QED BY <2>2, <3>1, <3>2, <3>3
  <2>9. \A f, g \in Face : f # g => db.crop[f].name # db.crop[g].name
    BY <2>8
  <2> QED BY <2>4, <2>5, <2>6, <2>7, <2>8, <2>9 DEF RowsOk
<1>5. FilesOk
  BY <1>2, <1>3 DEF Possible, FilesOk
<1>6. NamesOk /\ ThumbsOk /\ \A r \in reqs : Fits(r)
  BY <1>3 DEF NamesOk, ThumbsOk
<1>7. SessionsOk
  BY <1>2, <1>3 DEF Possible, SessionsOk
<1> QED BY <1>4, <1>5, <1>6, <1>7 DEF EditInv

\* Names, rows and requests stay in step: what a request is about to write has a name no
\* version, no file and no other request has, and a request that writes over a version
\* writes under that version's name.
THEOREM EditsInvariant == Spec => [](EditInv /\ SessionsOk)
<1>1. Init => EditInv /\ SessionsOk
  BY EditStart
<1>2. EditInv /\ SessionsOk /\ [Next]_<<vars, comfyVars>> => (EditInv /\ SessionsOk)'
  <2>1. ASSUME EditInv, SessionsOk, UNCHANGED <<vars, comfyVars>> PROVE (EditInv /\ SessionsOk)'
    <3>1. UNCHANGED <<db, file, thumb, session, editor, reqs, count>>
      BY <2>1 DEF vars
    <3>2. EditInv'
      BY <2>1, <3>1, OutsideInv
    <3>3. SessionsOk'
      BY <2>1, <3>1 DEF SessionsOk
    <3> QED BY <3>2, <3>3
  <2> QED BY <2>1, EditStep, SessionsStep
<1> QED BY <1>1, <1>2, PTL DEF Spec

-----------------------------------------------------------------------------
(* Versions keep their files.                                                *)

\* Request q writes version v.
IsWriter(q, v) == \/ q.kind \in {"write", "commit"} /\ q.row = v
                  \/ q.kind = "turn" /\ q.target = <<"version", v>>

\* File x is there, with this picture.
Holds(x, pic) == x \in DOMAIN file /\ file[x] = pic

\* Request w, which writes version v, finds what it expects.
InHand(w, x, shows) ==
    /\ w.kind = "turn"   => w.paths[0] = x /\ Holds(x, IF w.done = {} THEN shows ELSE Render(shows, w.ops))
    /\ w.kind = "write"  => w.was = x /\ Holds(x, shows)
    /\ w.kind = "commit" => w.was = x /\ Holds(w.path, w.pic) /\ (w.was = w.path \/ Holds(x, shows))

\* Version v has its file, or one writer that finds what it expects.
Whole(v) ==
    /\ Lone(Writers(v))
    /\ Writers(v) = {} => Holds(db.version[v].path, db.version[v].shows)
    /\ \A w \in Writers(v) : InHand(w, db.version[v].path, db.version[v].shows)

\* A version is kept if it has its file, or one writer that is about to give it.
LEMMA KeptIsWhole ==
  ASSUME EditInv, NEW v \in DOMAIN db.version
  PROVE  Kept(v) <=> Whole(v)
<1>1. \A u \in DOMAIN db.version \ {v} : db.version[u].path # db.version[v].path
  BY DEF EditInv, RowsOk, NameOf
<1>2. \A w \in Writers(v) : w.kind \in {"turn", "write", "commit"}
  BY DEF Writers, TurnsOf
<1> QED BY <1>1, <1>2 DEF Kept, Whole, InHand, Holds

\* And the other way round, after a step.
LEMMA WholeIsKept ==
  ASSUME EditInv', NEW v \in DOMAIN db'.version, Whole(v)'
  PROVE  Kept(v)'
<1>1. \A u \in DOMAIN db'.version \ {v} : db'.version[u].path # db'.version[v].path
  BY DEF EditInv, RowsOk, NameOf
<1>2. \A w \in Writers(v)' : w.kind \in {"turn", "write", "commit"}
  BY DEF Writers, TurnsOf
<1> QED BY <1>1, <1>2 DEF Kept, Whole, InHand, Holds

\* Writers of a version write under its name.
LEMMA WritersName ==
  ASSUME EditInv, NEW v \in DOMAIN db.version, NEW w \in Writers(v)
  PROVE  /\ w \in reqs /\ IsWriter(w, v)
         /\ w.kind \in {"write", "commit"} => /\ w.path.sub = "edits" /\ w.path.name = NameOf(db, v)
                                              /\ w.was.sub = "edits" /\ w.was.name = NameOf(db, v)
         /\ w.kind = "turn" => DOMAIN w.paths = {0} /\ w.done \subseteq {0}
<1>1. w \in reqs /\ IsWriter(w, v) /\ Shaped(w)
  BY DEF Writers, TurnsOf, IsWriter, EditInv, Fits
<1>2. v # Nothing
  BY EditsAssumption DEF EditInv, RowsOk
<1>3. CASE w.kind \in {"write", "commit"}
  BY <1>1, <1>2, <1>3 DEF Shaped, Writing, IsWriter
<1>4. CASE w.kind = "turn"
  <2>1. w.target[1] = "version" /\ Turning(w)
    BY <1>1, <1>4 DEF Shaped, IsWriter
  <2> QED BY <1>1, <1>4, <2>1 DEF Turning
<1> QED BY <1>1, <1>3, <1>4 DEF IsWriter

\* No version has the name of what is made next.
LEMMA NamesOld ==
  ASSUME EditInv, NEW v \in DOMAIN db.version
  PROVE  NameOf(db, v) # NewName
BY DEF EditInv, RowsOk, NamesOk, NewName

\* Nobody begins or ends to write version v.
Untouched(v) == \A q : IsWriter(q, v) => (q \in reqs <=> q \in reqs')

\* A step leaves version v's row, the files of its name and its writers alone.
Aside(v) ==
    /\ Untouched(v) /\ db'.version[v].path = db.version[v].path /\ db'.version[v].shows = db.version[v].shows
    /\ \A x : x.sub = "edits" /\ x.name = NameOf(db, v) =>
          /\ x \in DOMAIN file' <=> x \in DOMAIN file
          /\ x \in DOMAIN file => file'[x] = file[x]

\* Such a step keeps it.
LEMMA StaysWhole ==
  ASSUME EditInv, NEW v \in DOMAIN db.version, Whole(v), Aside(v)
  PROVE  Whole(v)'
<1>1. Writers(v)' = Writers(v)
  BY DEF Writers, TurnsOf, IsWriter, Aside, Untouched
<1>2. PICK x, shows : x = db.version[v].path /\ shows = db.version[v].shows /\ db'.version[v].path = x /\ db'.version[v].shows = shows
  BY DEF Aside
<1>3. x.sub = "edits" /\ x.name = NameOf(db, v)
  BY <1>2 DEF EditInv, RowsOk, NameOf
<1>4. \A y, pic : y.sub = "edits" /\ y.name = NameOf(db, v) /\ Holds(y, pic) => Holds(y, pic)'
  BY DEF Aside, Holds
<1>5. ASSUME NEW w \in Writers(v) PROVE InHand(w, x, shows)'
  <2>1. InHand(w, x, shows)
    BY <1>2 DEF Whole
  <2> QED BY <1>3, <1>4, <2>1, WritersName DEF InHand
<1> QED BY <1>1, <1>2, <1>3, <1>4, <1>5 DEF Whole

\* It is one that changes files of another name at most.
LEMMA AsideBy ==
  ASSUME EditInv, NEW v \in DOMAIN db.version, Untouched(v),
         db'.version[v].path = db.version[v].path, db'.version[v].shows = db.version[v].shows,
         NEW nm, Spares(nm), nm # NameOf(db, v)
  PROVE  Aside(v)
BY DEF Aside, Spares

\* The kinds of requests that write a version.
Writes == {"write", "commit", "turn"}

\* Or no file at all.
LEMMA AsideThere ==
  ASSUME EditInv, NEW v \in DOMAIN db.version, Untouched(v), file' = file,
         db'.version[v].path = db.version[v].path, db'.version[v].shows = db.version[v].shows
  PROVE  Aside(v)
BY DEF Aside

\* A request that goes on as one of another kind writes no version.
LEMMA GoesOnAside ==
  ASSUME NEW v, NEW r \in reqs, NEW w, GoesOn(r, w), "kind" \in DOMAIN w, w.kind \notin Writes, ~IsWriter(r, v)
  PROVE  Untouched(v)
BY DEF GoesOn, With, IsWriter, Writes, Untouched

\* Nor does one that is over.
LEMMA OverAside ==
  ASSUME NEW v, NEW r \in reqs, Over(r), ~IsWriter(r, v)
  PROVE  Untouched(v)
BY DEF Over, Untouched

\* Nor a new one of another kind.
LEMMA NewAside ==
  ASSUME NEW v, NEW q, New(q), "n" \notin DOMAIN q, "kind" \in DOMAIN q, q.kind \notin Writes
  PROVE  Untouched(v)
<1>1. PICK s : reqs' = reqs \cup {s} /\ \A x \in DOMAIN q : s[x] = q[x]
  BY Named
<1>2. s.kind \notin Writes
  BY <1>1
<1> QED BY <1>1, <1>2 DEF IsWriter, Writes, Untouched

\* Nothing is no version.
LEMMA NoVersion == ASSUME EditInv PROVE Nothing \notin DOMAIN db.version
BY EditsAssumption DEF EditInv, RowsOk

\* Requests of these kinds write no version.
LEMMA OtherKind ==
  ASSUME NEW r, r.kind \notin Writes, NEW v
  PROVE  ~IsWriter(r, v)
BY DEF IsWriter, Writes

\* The requests that leave rows and files alone.
LEMMA QuietRequests ==
  ASSUME EditInv, NEW v \in DOMAIN db.version,
         \/ \E k, op : ApplyStart(k, op)
         \/ \E k, seq : Rollback(k, seq)
         \/ \E S, op : BulkEdit(S, op)
         \/ \E t : GetThumbnail(t)
         \/ \E a : \E w \in DOMAIN db.version : SetCurrent(a, w)
         \/ \E k, run, targets, node : EnqueueRuns(k, run, targets, node)
         \/ \E s : PutSettings(s)
  PROVE  Untouched(v) /\ db' = db /\ file' = file
<1>1. ASSUME NEW k, NEW op, ApplyStart(k, op) PROVE Untouched(v) /\ db' = db /\ file' = file
  <2> DEFINE q == [kind |-> "apply", key |-> k, op |-> op, ops |-> Append(OpsOf(session[k].steps), op),
                   seq |-> 1 + Max(DOMAIN session[k].steps \cup {0})]
  <2>1. New(q) /\ db' = db /\ file' = file
    BY <1>1 DEF ApplyStart
  <2>2. "n" \notin DOMAIN q /\ "kind" \in DOMAIN q /\ q.kind \notin Writes
    BY DEF Writes
  <2> HIDE DEF q
  <2> QED BY <2>1, <2>2, NewAside
<1>2. ASSUME NEW k, NEW seq, Rollback(k, seq) PROVE Untouched(v) /\ db' = db /\ file' = file
  BY <1>2 DEF Rollback, Untouched
<1>3. ASSUME NEW S, NEW op, BulkEdit(S, op) PROVE Untouched(v) /\ db' = db /\ file' = file
  <2> DEFINE q == [kind |-> "bulk", op |-> op, done |-> {},
                   todo |-> [i \in {j \in Inst : db.inst[j].live /\ AssetOf[j] \in S} |-> db.inst[i].path]]
  <2>1. New(q) /\ db' = db /\ file' = file
    BY <1>3 DEF BulkEdit
  <2>2. "n" \notin DOMAIN q /\ "kind" \in DOMAIN q /\ q.kind \notin Writes
    BY DEF Writes
  <2> HIDE DEF q
  <2> QED BY <2>1, <2>2, NewAside
<1>4. ASSUME NEW t, GetThumbnail(t) PROVE Untouched(v) /\ db' = db /\ file' = file
  <2>1. PICK x : ThumbMiss(t, x)
    BY <1>4 DEF GetThumbnail
  <2> DEFINE q == [kind |-> "get", of |-> t, pic |-> file[x]]
  <2>2. New(q) /\ db' = db /\ file' = file
    BY <2>1 DEF ThumbMiss
  <2>3. "n" \notin DOMAIN q /\ "kind" \in DOMAIN q /\ q.kind \notin Writes
    BY DEF Writes
  <2> HIDE DEF q
  <2> QED BY <2>2, <2>3, NewAside
<1>5. ASSUME NEW k, NEW run, NEW targets, NEW node, EnqueueRuns(k, run, targets, node) PROVE Untouched(v) /\ db' = db /\ file' = file
  <2>1. PICK S : /\ reqs' = reqs \cup S /\ UNCHANGED <<db, file>>
                 /\ \A s \in S : s.kind = "queued"
    <3>1. PICK S : /\ reqs' = reqs \cup S /\ count' = count + 1 /\ UNCHANGED <<db, file, thumb, session, editor, comfyVars>>
                   /\ \A s \in S : /\ {"kind", "n", "target"} \subseteq DOMAIN s /\ s.n[1] = count + 1 /\ s.kind = "queued"
                                   /\ {"job", "key"} \cap DOMAIN s = {}
                   /\ \A s, t \in S : s.n = t.n => s = t
      BY <1>5, EnqueueMakes
    <3> QED BY <3>1
  <2> QED BY <2>1 DEF Untouched, IsWriter
<1>6. ASSUME NEW s, PutSettings(s) PROVE Untouched(v) /\ db' = db /\ file' = file
  BY <1>6 DEF PutSettings, Untouched
<1>7. ASSUME NEW a, NEW w \in DOMAIN db.version, SetCurrent(a, w) PROVE Untouched(v) /\ db' = db /\ file' = file
  <2>1. \E s : /\ reqs' = reqs \cup {s} /\ count' = count + 1 /\ UNCHANGED <<db, file, thumb, session, editor>>
               /\ DOMAIN s = {"kind", "n", "by", "of", "row", "was"} /\ s.kind = "pick" /\ s.by = "set" /\ s.n = NewName
               /\ s.row = w /\ s.of = db.version[w].of /\ s.was = db.version[w].current
    BY <1>7, SetCurrentMakes
  <2>2. PICK s : reqs' = reqs \cup {s} /\ UNCHANGED <<db, file>> /\ s.kind = "pick"
    BY <2>1
  <2> QED BY <2>2 DEF Untouched, IsWriter
<1> QED BY <1>1, <1>2, <1>3, <1>4, <1>5, <1>6, <1>7

\* The steps that do.
LEMMA QuietSteps ==
  ASSUME EditInv, NEW v \in DOMAIN db.version, NEW r \in reqs,
         \/ ApplyDone(r) \/ CurrentRead(r) \/ VersionThumb(r) \/ ThumbsDropped(r) \/ BulkNext(r) \/ SiblingsRead(r) \/ ThumbStored(r)
         \/ RunStarts(r) \/ Upload(r) \/ SubmitPrompt(r) \/ OutputFound(r) \/ TimedOut(r) \/ FetchForFace(r) \/ Cleaned(r)
  PROVE  Untouched(v) /\ db' = db /\ file' = file
<1>0. Nothing # v /\ {"kind", "n"} \subseteq DOMAIN r
  BY NoVersion DEF EditInv, NamesOk
<1>1. CASE ApplyDone(r) \/ ThumbStored(r) \/ TimedOut(r)
  BY <1>1, OverAside, OtherKind DEF ApplyDone, ThumbStored, TimedOut, Writes
<1>2. CASE CurrentRead(r)
  <2> DEFINE w == [kind |-> "insert", seen |-> Current(db, r.of)]
  <2>1. GoesOn(r, w) /\ db' = db /\ file' = file /\ r.kind = "commit" /\ r.row = Nothing
    BY <1>2 DEF CurrentRead
  <2>2. "kind" \in DOMAIN w /\ w.kind \notin Writes
    BY DEF Writes
  <2>3. ~IsWriter(r, v)
    BY <1>0, <2>1 DEF IsWriter
  <2> HIDE DEF w
  <2> QED BY <2>1, <2>2, <2>3, GoesOnAside
<1>3. CASE VersionThumb(r)
  <2> DEFINE w == [kind |-> "dedupe"]
  <2>1. (GoesOn(r, w) \/ Over(r)) /\ db' = db /\ file' = file /\ r.kind = "thumb"
    BY <1>3 DEF VersionThumb
  <2>2. "kind" \in DOMAIN w /\ w.kind \notin Writes
    BY DEF Writes
  <2>3. ~IsWriter(r, v)
    BY <2>1 DEF IsWriter
  <2> HIDE DEF w
  <2> QED BY <2>1, <2>2, <2>3, GoesOnAside, OverAside
<1>4. CASE ThumbsDropped(r)
  <2>1. reqs' = {Note(r, q) : q \in reqs \ {r}} /\ db' = db /\ file' = file /\ r.kind = "drop"
    BY <1>4 DEF ThumbsDropped, Note
  <2>2. \A q \in reqs : Note(r, q).kind = q.kind /\ (q.kind # "bulk" => Note(r, q) = q)
    BY Noted
  <2> QED BY <2>1, <2>2 DEF Untouched, IsWriter
<1>5. CASE BulkNext(r)
  <2>1. /\ r.kind = "bulk" /\ db' = db /\ file' = file
        /\ \/ reqs' = reqs \ {r}
           \/ \E s : /\ s.kind = "bulk"
                     /\ \/ reqs' = (reqs \ {r}) \cup {s}
                        \/ \E q : reqs' = (reqs \ {r}) \cup {s, q} /\ q.kind \in {"render", "turn"}
                                  /\ (q.kind = "turn" => q.target[1] = "instance")
    <3>1. /\ r.kind = "bulk" /\ UNCHANGED <<db, file, thumb, count>>
          /\ \/ reqs' = reqs \ {r}
             \/ \E i \in DOMAIN r.todo : \E s :
                  /\ DOMAIN s = DOMAIN r /\ s.todo = [j \in DOMAIN r.todo \ {i} |-> r.todo[j]]
                  /\ \A x \in DOMAIN r \ {"todo"} : s[x] = r[x]
                  /\ \/ reqs' = (reqs \ {r}) \cup {s}
                     \/ \E q : /\ reqs' = (reqs \ {r}) \cup {s, q} /\ {"kind", "n", "job"} \subseteq DOMAIN q
                               /\ q.n = <<r.n[1], i>> /\ q.job = r.n /\ q.kind \in {"render", "turn"} /\ Shaped(q)
                               /\ Claims(q) \subseteq {q.n} /\ "key" \notin DOMAIN q
                               /\ q.kind = "render" => q.by = "bulk"
                               /\ q.kind = "turn" => q.target[1] = "instance"
      BY <1>5, BulkNextMakes
    <3>2. ASSUME reqs' # reqs \ {r}
          PROVE  \E s : /\ s.kind = "bulk"
                        /\ \/ reqs' = (reqs \ {r}) \cup {s}
                           \/ \E q : reqs' = (reqs \ {r}) \cup {s, q} /\ q.kind \in {"render", "turn"}
                                     /\ (q.kind = "turn" => q.target[1] = "instance")
      <4>0. PICK i \in DOMAIN r.todo : \E s :
                  /\ DOMAIN s = DOMAIN r /\ s.todo = [j \in DOMAIN r.todo \ {i} |-> r.todo[j]]
                  /\ \A x \in DOMAIN r \ {"todo"} : s[x] = r[x]
                  /\ \/ reqs' = (reqs \ {r}) \cup {s}
                     \/ \E q : /\ reqs' = (reqs \ {r}) \cup {s, q} /\ {"kind", "n", "job"} \subseteq DOMAIN q
                               /\ q.n = <<r.n[1], i>> /\ q.job = r.n /\ q.kind \in {"render", "turn"} /\ Shaped(q)
                               /\ Claims(q) \subseteq {q.n} /\ "key" \notin DOMAIN q
                               /\ q.kind = "render" => q.by = "bulk"
                               /\ q.kind = "turn" => q.target[1] = "instance"
        BY <3>1, <3>2
      <4>1. PICK s :
                  /\ DOMAIN s = DOMAIN r /\ s.todo = [j \in DOMAIN r.todo \ {i} |-> r.todo[j]]
                  /\ \A x \in DOMAIN r \ {"todo"} : s[x] = r[x]
                  /\ \/ reqs' = (reqs \ {r}) \cup {s}
                     \/ \E q : /\ reqs' = (reqs \ {r}) \cup {s, q} /\ {"kind", "n", "job"} \subseteq DOMAIN q
                               /\ q.n = <<r.n[1], i>> /\ q.job = r.n /\ q.kind \in {"render", "turn"} /\ Shaped(q)
                               /\ Claims(q) \subseteq {q.n} /\ "key" \notin DOMAIN q
                               /\ q.kind = "render" => q.by = "bulk"
                               /\ q.kind = "turn" => q.target[1] = "instance"
        BY <4>0
      <4>2. s.kind = "bulk"
        BY <1>0, <3>1, <4>1
      <4>3. CASE reqs' = (reqs \ {r}) \cup {s}
        BY <4>2, <4>3
      <4>4. ASSUME NEW q, reqs' = (reqs \ {r}) \cup {s, q}, q.kind \in {"render", "turn"}, q.kind = "turn" => q.target[1] = "instance"
            PROVE  \E z : reqs' = (reqs \ {r}) \cup {s, z} /\ z.kind \in {"render", "turn"} /\ (z.kind = "turn" => z.target[1] = "instance")
        BY <4>4
      <4> QED BY <4>1, <4>2, <4>3, <4>4
    <3> QED BY <3>1, <3>2
  <2>2. \A q : q.kind = "bulk" \/ q.kind = "render" \/ (q.kind = "turn" /\ q.target[1] = "instance") => ~IsWriter(q, v)
    BY DEF IsWriter
  <2> QED BY <2>1, <2>2 DEF Untouched
<1>6. CASE RunStarts(r)
  <2> DEFINE w == [kind |-> "upload", sent |-> <<>>, next |-> 1, paths |-> [j \in DOMAIN r.inputs |-> PathOfInput(r.inputs[j])]]
  <2>1. GoesOn(r, w) /\ db' = db /\ file' = file /\ r.kind = "queued"
    BY <1>6 DEF RunStarts
  <2>2. "kind" \in DOMAIN w /\ w.kind \notin Writes
    BY DEF Writes
  <2>3. ~IsWriter(r, v)
    BY <2>1 DEF IsWriter
  <2> HIDE DEF w
  <2> QED BY <2>1, <2>2, <2>3, GoesOnAside
<1>7. CASE Upload(r)
  <2>1. ~IsWriter(r, v) /\ db' = db /\ file' = file /\ r.kind = "upload"
    BY <1>7 DEF Upload, IsWriter
  <2>2. Over(r) \/ \E sent, next : GoesOn(r, [sent |-> sent, next |-> next])
    BY <1>7 DEF Upload
  <2>3. ASSUME NEW sent, NEW next, GoesOn(r, [sent |-> sent, next |-> next]) PROVE Untouched(v)
    <3>1. PICK s : s = With([sent |-> sent, next |-> next], r)
      OBVIOUS
    <3>2. s.kind = "upload"
      BY <1>0, <2>1, <3>1 DEF With
    <3>3. reqs' = (reqs \ {r}) \cup {s}
      BY <2>3, <3>1 DEF GoesOn
    <3> QED BY <2>1, <3>2, <3>3 DEF Untouched, IsWriter
  <2> QED BY <2>1, <2>2, <2>3, OverAside
<1>8. CASE SubmitPrompt(r)
  <2> DEFINE w == [kind |-> "wait", prompt |-> Len(comfy.prompts) + 1]
  <2>1. (GoesOn(r, w) \/ Over(r)) /\ db' = db /\ file' = file /\ r.kind = "upload"
    BY <1>8 DEF SubmitPrompt
  <2>2. "kind" \in DOMAIN w /\ w.kind \notin Writes
    BY DEF Writes
  <2>3. ~IsWriter(r, v)
    BY <2>1 DEF IsWriter
  <2> HIDE DEF w
  <2> QED BY <2>1, <2>2, <2>3, GoesOnAside, OverAside
<1>9. CASE OutputFound(r)
  <2> DEFINE w == [kind |-> "fetch", name |-> CHOOSE q \in Listed(r.prompt, r.node) : TRUE]
  <2>1. GoesOn(r, w) /\ db' = db /\ file' = file /\ r.kind = "wait"
    BY <1>9 DEF OutputFound
  <2>2. "kind" \in DOMAIN w /\ w.kind \notin Writes
    BY DEF Writes
  <2>3. ~IsWriter(r, v)
    BY <2>1 DEF IsWriter
  <2> HIDE DEF w
  <2> QED BY <2>1, <2>2, <2>3, GoesOnAside
<1>10. CASE FetchForFace(r)
  <2> DEFINE w == [kind |-> "write", by |-> "upscale", of |-> r.target, parent |-> Nothing, row |-> Nothing, was |-> Nothing,
                   pic |-> comfy.output[r.name], path |-> Path(DirOf(db, r.target), "edits", r.n, "png")]
  <2>1. (GoesOn(r, w) \/ Over(r)) /\ db' = db /\ file' = file /\ r.kind = "fetch"
    BY <1>10 DEF FetchForFace
  <2>2. {"kind", "row"} \subseteq DOMAIN w /\ w.kind = "write" /\ w.row = Nothing
    OBVIOUS
  <2>3. ~IsWriter(r, v)
    BY <2>1 DEF IsWriter
  <2> HIDE DEF w
  <2>4. ASSUME GoesOn(r, w) PROVE Untouched(v)
    <3>1. PICK s : s = With(w, r)
      OBVIOUS
    <3>2. s.kind = "write" /\ s.row = Nothing
      BY <2>2, <3>1 DEF With
    <3>3. reqs' = (reqs \ {r}) \cup {s}
      BY <2>4, <3>1 DEF GoesOn
    <3> QED BY <1>0, <2>3, <3>2, <3>3 DEF Untouched, IsWriter
  <2> QED BY <2>1, <2>3, <2>4, OverAside
<1>11. CASE Cleaned(r)
  <2> DEFINE w == [kind |-> "thumb"]
  <2>1. (GoesOn(r, w) \/ Over(r)) /\ db' = db /\ file' = file /\ r.kind = "clean"
    BY <1>11 DEF Cleaned
  <2>2. "kind" \in DOMAIN w /\ w.kind \notin Writes
    BY DEF Writes
  <2>3. ~IsWriter(r, v)
    BY <2>1 DEF IsWriter
  <2> HIDE DEF w
  <2> QED BY <2>1, <2>2, <2>3, GoesOnAside, OverAside
<1>12. CASE SiblingsRead(r)
  <2> DEFINE w == [kind |-> "switch", seen |-> Current(db, r.of)]
  <2>1. GoesOn(r, w) /\ db' = db /\ file' = file /\ r.kind = "pick"
    BY <1>12 DEF SiblingsRead
  <2>2. "kind" \in DOMAIN w /\ w.kind \notin Writes
    BY DEF Writes
  <2>3. ~IsWriter(r, v)
    BY <2>1 DEF IsWriter
  <2> HIDE DEF w
  <2> QED BY <2>1, <2>2, <2>3, GoesOnAside
<1> QED BY <1>1, <1>2, <1>3, <1>4, <1>5, <1>6, <1>7, <1>8, <1>9, <1>10, <1>11, <1>12

-----------------------------------------------------------------------------
(* Steps that leave versions alone, or all but one.                          *)

\* What a request claims is no version's name.
LEMMA ClaimedAside ==
  ASSUME EditInv, NEW v \in DOMAIN db.version, NEW r \in reqs, NEW nm \in Claims(r)
  PROVE  nm # NameOf(db, v)
BY NotVersions

\* Looking for faces leaves versions aside.
LEMMA DedupeAside ==
  ASSUME EditInv, NEW v \in DOMAIN db.version, NEW r \in reqs, NEW found, Dedupe(r, found)
  PROVE  Aside(v)
<1>1. db'.version = db.version
  BY DedupeRows
<1>2. Untouched(v)
  BY OverAside, OtherKind DEF Dedupe, Writes
<1>3. \A j : CropName(r.row, j).sub = "faces"
  BY DEF CropName, Path
<1>4. Spares(NewName)
  <2> DEFINE Crops(as) == {CropName(r.row, j) : j \in {i \in DOMAIN found : found[i] = as}}
  <2>1. \/ UNCHANGED <<file, db>>
        \/ file' = With([x \in Crops("new") |-> file[db.version[r.row].path]], [x \in DOMAIN file \ Crops("known") |-> file[x]])
    BY DEF Dedupe
  <2>2. \A as : \A x \in Crops(as) : x.sub = "faces"
    BY <1>3
  <2> HIDE DEF Crops
  <2> QED BY <2>1, <2>2 DEF Spares, With
<1> QED BY <1>1, <1>2, <1>4, NamesOld, AsideBy

\* So does the trash,
LEMMA TrashAside ==
  ASSUME EditInv, NEW v \in DOMAIN db.version, NEW i \in Inst, TrashOrRestore(i)
  PROVE  Aside(v)
<1>1. /\ count' = count + 1 /\ UNCHANGED <<thumb, session, editor, reqs>> /\ DOMAIN db' = DOMAIN db
      /\ \A x \in DOMAIN db \ {"inst"} : db'[x] = db[x]
      /\ DOMAIN db'.inst = Inst /\ \A j \in Inst : DOMAIN db'.inst[j] = {"path", "live"} /\ db'.inst[j].path.sub \in {"photos", "trash"}
      /\ \E y : /\ y = Path(y.dir, y.sub, y.name, y.ext) /\ y.sub \in {"photos", "trash"}
                /\ file' = [z \in (DOMAIN file \ {db.inst[i].path}) \cup {y} |-> IF z = y THEN file[db.inst[i].path] ELSE file[z]]
      /\ db.inst[i].path.sub \in {"photos", "trash"}
  BY TrashMoves
<1>2. db'.version = db.version
  BY <1>1 DEF EditInv, RowsOk
<1>3. PICK x, y : /\ x.sub \in {"photos", "trash"} /\ y.sub \in {"photos", "trash"}
                  /\ file' = [z \in (DOMAIN file \ {x}) \cup {y} |-> IF z = y THEN file[x] ELSE file[z]]
  BY <1>1
<1>4. Spares(NewName)
  BY <1>3 DEF Spares
<1>5. Untouched(v)
  BY <1>1 DEF Untouched
<1> QED BY <1>2, <1>4, <1>5, NamesOld, AsideBy

\* a photo that has been turned,
LEMMA PhotoTurnedAside ==
  ASSUME EditInv, NEW v \in DOMAIN db.version, NEW r \in reqs, PhotoTurned(r)
  PROVE  Aside(v)
<1>1. r.kind = "turn" /\ r.target[1] = "instance" /\ file' = file /\ db'.version = db.version
      /\ (reqs' = reqs \ {r} \/ GoesOn(r, [kind |-> "drop"]))
  BY PhotoTurnedRows
<1>2. ~IsWriter(r, v)
  BY <1>1 DEF IsWriter
<1>3. Untouched(v)
  <2>1. "kind" \in DOMAIN [kind |-> "drop"] /\ [kind |-> "drop"].kind \notin Writes
    BY DEF Writes
  <2>2. ASSUME GoesOn(r, [kind |-> "drop"]) PROVE Untouched(v)
    BY <1>2, <2>1, <2>2, GoesOnAside
  <2> QED BY <1>1, <1>2, <2>2 DEF Untouched
<1> QED BY <1>1, <1>3, AsideThere

\* another current version,
LEMMA SwitchedAside ==
  ASSUME EditInv, NEW v \in DOMAIN db.version, NEW r \in reqs, Switched(r)
  PROVE  Aside(v)
<1>1. SwitchRows(r) /\ file' = file
  BY SwitchedRows DEF Switched
<1>2. db'.version[v].path = db.version[v].path /\ db'.version[v].shows = db.version[v].shows
  BY <1>1 DEF SwitchRows, EditInv, RowsOk
<1>3. Untouched(v)
  BY OverAside, OtherKind DEF Switched, Writes
<1> QED BY <1>1, <1>2, <1>3, AsideThere

\* A new row leaves the old ones as they are, but for the current one.
LEMMA AddingAside ==
  ASSUME EditInv, NEW v \in DOMAIN db.version, NEW seen, NEW row, db' = AddVersion(db, seen, row)
  PROVE  db'.version[v].path = db.version[v].path /\ db'.version[v].shows = db.version[v].shows /\ db'.version[v].of = db.version[v].of
         /\ db'.version[v].current = IF v \in seen THEN FALSE ELSE db.version[v].current
<1>1. PICK d : d = db'
  OBVIOUS
<1>2. RowsOk /\ d = AddVersion(db, seen, row)
  BY <1>1 DEF EditInv
<1>3. OneMore(d, seen, row)
  BY <1>2, Adding
<1>4. DOMAIN db.version[v] = {"of", "parent", "path", "current", "shows"}
  BY DEF EditInv, RowsOk
<1> QED BY <1>1, <1>3, <1>4 DEF OneMore

\* A request that goes on as a reader of the new version.
LEMMA InsertAside ==
  ASSUME EditInv, NEW v \in DOMAIN db.version, NEW r \in reqs, Inserted(r)
  PROVE  Aside(v)
<1>0. Nothing # v
  BY NoVersion
<1>1. ~IsWriter(r, v)
  BY <1>0 DEF Inserted, IsWriter
<1>2. Untouched(v)
  <2>1. \E kind : kind \in {"thumb", "clean"} /\ GoesOn(r, [kind |-> kind, row |-> NewId(db.version)])
    BY DEF Inserted
  <2>2. PICK w : "kind" \in DOMAIN w /\ w.kind \notin Writes /\ GoesOn(r, w)
    BY <2>1 DEF Writes
  <2> QED BY <1>1, <2>2, GoesOnAside
<1>3. file' = file /\ \E seen, row : db' = AddVersion(db, seen, row)
  BY DEF Inserted
<1>4. db'.version[v].path = db.version[v].path /\ db'.version[v].shows = db.version[v].shows
  <2>1. PICK seen, row : db' = AddVersion(db, seen, row)
    BY <1>3
  <2> QED BY <2>1, AddingAside
<1> QED BY <1>2, <1>3, <1>4, AsideThere

\* the file of an upload,
LEMMA ImportAside ==
  ASSUME EditInv, NEW v \in DOMAIN db.version, NEW a, ImportVersion(a)
  PROVE  Aside(v)
<1>1. \E s :
            /\ reqs' = reqs \cup {s} /\ count' = count + 1 /\ UNCHANGED <<db, thumb, session, editor>>
            /\ DOMAIN s = {"kind", "n", "by", "of", "parent", "row", "was", "pic", "path", "seen"}
            /\ s.kind = "insert" /\ s.by = "import" /\ s.n = NewName /\ s.row = Nothing /\ s.seen = Current(db, s.of)
            /\ file' = Put(file, s.path, s.pic) /\ s.path.sub = "edits" /\ s.path.name = NewName
            /\ s.path = Path(s.path.dir, s.path.sub, s.path.name, s.path.ext)
  BY ImportMakes
<1>2. PICK s, x, pic : /\ reqs' = reqs \cup {s} /\ s.kind = "insert" /\ db' = db
                       /\ file' = Put(file, x, pic) /\ x.sub = "edits" /\ x.name = NewName
  BY <1>1
<1>3. Untouched(v)
  BY <1>2 DEF Untouched, IsWriter
<1>4. PICK nm : nm = NewName
  OBVIOUS
<1>5. Spares(nm)
  BY <1>2, <1>4 DEF Spares, Put
<1> QED BY <1>2, <1>3, <1>4, <1>5, NamesOld, AsideBy

\* a result imported by hand,
LEMMA ResultAside ==
  ASSUME EditInv, NEW v \in DOMAIN db.version, NEW a, NEW q, ImportResult(a, q)
  PROVE  Aside(v)
<1>1. PICK p, pic : p = EditPath(a, NewName) /\ pic = comfy.output[q]
  OBVIOUS
<1>2. reqs' = reqs /\ file' = Put(file, p, pic) /\ NewPhoto(a, pic, p, FALSE)
  BY <1>1 DEF ImportResult
<1>3. db'.version = db.version
  BY <1>2, NewPhotoRows DEF EditInv, RowsOk
<1>4. p.sub = "edits" /\ p.name = NewName
  BY <1>1 DEF EditPath, Path
<1>5. PICK nm : nm = NewName
  OBVIOUS
<1>6. Spares(nm)
  BY <1>2, <1>4, <1>5 DEF Spares, Put
<1>7. Untouched(v)
  BY <1>2 DEF Untouched
<1> QED BY <1>3, <1>5, <1>6, <1>7, NamesOld, AsideBy

\* and a photo ComfyUI has made.
LEMMA PhotoAside ==
  ASSUME EditInv, NEW v \in DOMAIN db.version, NEW r \in reqs, FetchForPhoto(r) \/ Checked(r) \/ Added(r)
  PROVE  Aside(v)
<1>1. r.kind \in {"fetch", "check", "add"} /\ ~IsWriter(r, v) /\ {"kind", "n"} \subseteq DOMAIN r /\ Claims(r) = {r.n}
  BY DEF FetchForPhoto, Checked, Added, IsWriter, EditInv, NamesOk, Claims, Early
<1>2. db'.version = db.version
  BY NewPhotoRows DEF FetchForPhoto, Checked, Added, EditInv, RowsOk
<1>3. Untouched(v)
  <2>1. Over(r) \/ \E w : GoesOn(r, w) /\ "kind" \in DOMAIN w /\ w.kind \notin Writes
    <3>1. CASE FetchForPhoto(r)
      <4>1. Over(r) \/ \E pic, path : GoesOn(r, [kind |-> "check", pic |-> pic, path |-> path])
        BY <3>1 DEF FetchForPhoto
      <4>2. \A pic, path : "kind" \in DOMAIN [kind |-> "check", pic |-> pic, path |-> path]
                           /\ [kind |-> "check", pic |-> pic, path |-> path].kind \notin Writes
        BY DEF Writes
      <4> QED BY <4>1, <4>2
    <3>2. CASE Checked(r) \/ Added(r)
      <4>1. Over(r) \/ \E kind : kind \in {"add", "clean"} /\ GoesOn(r, [kind |-> kind])
        BY <3>2 DEF Checked, Added
      <4>2. \A kind : kind \in {"add", "clean"} => "kind" \in DOMAIN [kind |-> kind] /\ [kind |-> kind].kind \notin Writes
        BY DEF Writes
      <4> QED BY <4>1, <4>2
    <3> QED BY <3>1, <3>2
  <2> QED BY <1>1, <2>1, GoesOnAside, OverAside
<1>4. Spares(r.n)
  <2>1. CASE FetchForPhoto(r)
    <3>1. file' = file \/ \E p, pic : p.sub = "edits" /\ p.name = r.n /\ file' = Put(file, p, pic)
      <4>1. EditPath(r.target[2], r.n).sub = "edits" /\ EditPath(r.target[2], r.n).name = r.n
        BY DEF EditPath, Path
      <4>2. file' = file \/ file' = Put(file, EditPath(r.target[2], r.n), comfy.output[r.name])
        BY <2>1 DEF FetchForPhoto
      <4> QED BY <4>1, <4>2
    <3> QED BY <3>1 DEF Spares, Put
  <2>2. CASE Checked(r)
    <3>1. r.path.sub = "edits" /\ r.path.name = r.n
      BY <2>2 DEF Checked, EditInv, Fits, Shaped
    <3> QED BY <2>2, <3>1 DEF Checked, Spares, Without
  <2>3. CASE Added(r)
    BY <2>3 DEF Added, Spares
  <2> QED BY <2>1, <2>2, <2>3
<1> QED BY <1>1, <1>2, <1>3, <1>4, ClaimedAside, AsideBy

-----------------------------------------------------------------------------
(* Steps that write.                                                         *)

\* Version v is whole after the step, or excused.
Fine(v) == Whole(v)' \/ ~Lone(Writers(v)') \/ \E r \in Writers(v) : Cut(r)

\* A request begins to write a version: it is the only one, or one too many.
LEMMA TakesOver ==
  ASSUME NEW v, Whole(v), UNCHANGED <<db, file>>, NEW s, s \notin Writers(v), Writers(v)' = Writers(v) \cup {s},
         Holds(db.version[v].path, db.version[v].shows) => InHand(s, db.version[v].path, db.version[v].shows)
  PROVE  Whole(v)' \/ ~Lone(Writers(v)')
<1>1. CASE Writers(v) = {}
  BY <1>1 DEF Whole, Lone, InHand, Holds
<1>2. CASE Writers(v) # {}
  BY <1>2 DEF Lone
<1> QED BY <1>1, <1>2

\* Requests that go away, or come.
LEMMA WritersThen ==
  ASSUME NEW v, NEW r \in reqs, NEW s, reqs' = (reqs \ {r}) \cup {s} \/ reqs' = reqs \cup {s}, ~IsWriter(r, v), IsWriter(s, v)
  PROVE  Writers(v)' = Writers(v) \cup {s}
BY DEF Writers, TurnsOf, IsWriter

\* The writer of a version that goes on is the only one, or there is none.
LEMMA OnlyWriter ==
  ASSUME NEW v, Whole(v), NEW r \in Writers(v), NEW s, reqs' = (reqs \ {r}) \cup {s}
  PROVE  Writers(v) = {r} /\ Writers(v)' = IF IsWriter(s, v) THEN {s} ELSE {}
<1>1. Writers(v) = {r}
  BY DEF Whole, Lone
<1>2. \A q \in reqs \ {r} : ~IsWriter(q, v)
  BY <1>1 DEF Writers, TurnsOf, IsWriter
<1> QED BY <1>1, <1>2 DEF Writers, TurnsOf, IsWriter

\* A save takes over a version only as its one writer.
LEMMA SaveFine ==
  ASSUME EditInv, SessionsOk, NEW v \in DOMAIN db.version, Whole(v), NEW k, NEW mode, Save(k, mode)
  PROVE  Fine(v)
<1>1. PICK s : /\ reqs' = reqs \cup {s} /\ count' = count + 1 /\ UNCHANGED <<db, file, thumb, session, editor>>
               /\ {"kind", "n", "ops", "key", "shown", "basis", "smooth"} \subseteq DOMAIN s /\ "job" \notin DOMAIN s /\ s.n = NewName
               /\ s.key = k /\ s.shown = editor[k].shows /\ s.basis = editor[k].basis
               /\ s.smooth = Settled(k)
               /\ s.ops = OpsOf(session[k].steps) /\ k \in DOMAIN editor /\ editor[k].seq > 0
               /\ Shaped(s) /\ s.kind \in {"render", "turn"} /\ Claims(s) \subseteq {s.n}
               /\ s.kind = "turn" /\ s.target[1] = "version" => s.done = {} /\ s.paths[0] = db.version[s.target[2]].path
  BY SaveMakes
<1>2. CASE ~IsWriter(s, v)
  <2>1. Untouched(v)
    BY <1>1, <1>2 DEF Untouched
  <2> QED BY <1>1, <2>1, AsideThere, StaysWhole DEF Fine
<1>3. CASE IsWriter(s, v)
  <2>1. s.kind = "turn" /\ s.target = <<"version", v>>
    BY <1>1, <1>3 DEF IsWriter
  <2>2. InHand(s, db.version[v].path, db.version[v].shows) \/ ~Holds(db.version[v].path, db.version[v].shows)
    BY <1>1, <2>1 DEF InHand
  <2>3. s \notin reqs
    BY <1>1 DEF EditInv, NamesOk, NewName
  <2>4. s \notin Writers(v) /\ Writers(v)' = Writers(v) \cup {s}
    BY <1>1, <1>3, <2>3 DEF Writers, TurnsOf, IsWriter
  <2> QED BY <1>1, <2>2, <2>4, TakesOver DEF Fine
<1> QED BY <1>2, <1>3

\* A rendered picture for a version that is overwritten.
LEMMA RenderedFine ==
  ASSUME EditInv, NEW v \in DOMAIN db.version, Whole(v), NEW r \in reqs, Rendered(r)
  PROVE  Fine(v)
<1>1. r.kind = "render" /\ UNCHANGED <<db, file>> /\ ~IsWriter(r, v) /\ v # Nothing /\ {"kind", "n"} \subseteq DOMAIN r
  BY NoVersion DEF Rendered, IsWriter, EditInv, NamesOk
<1>2. CASE r.source \notin DOMAIN file
  <2>1. Over(r)
    BY <1>2 DEF Rendered
  <2>2. Untouched(v)
    BY <1>1, <2>1, OverAside
  <2> QED BY <1>1, <2>2, AsideThere, StaysWhole DEF Fine
<1>3. CASE r.source \in DOMAIN file
  <2>1. PICK s : /\ reqs' = (reqs \ {r}) \cup {s} /\ DOMAIN s = DOMAIN r \cup {"kind", "pic", "row", "was", "path"}
                 /\ s.kind = "write" /\ s.pic = Render(file[r.source], r.ops)
                 /\ \A x \in DOMAIN r : x \in {"kind", "pic", "row", "was", "path"} \/ s[x] = r[x]
                 /\ \/ /\ s.row = Nothing /\ s.path.sub = "edits" /\ s.path.name = r.n
                    \/ /\ s.row \in DOMAIN db.version /\ s.was = db.version[s.row].path
                       /\ s.path.sub = s.was.sub /\ s.path.name = s.was.name
                 /\ s.path = Path(s.path.dir, s.path.sub, s.path.name, s.path.ext)
    BY <1>3, RenderedMakes
  <2>2. s.n = r.n
    BY <1>1, <2>1
  <2>3. CASE ~IsWriter(s, v)
    <3>1. Untouched(v)
      BY <1>1, <2>1, <2>3 DEF Untouched
    <3> QED BY <1>1, <3>1, AsideThere, StaysWhole DEF Fine
  <2>4. CASE IsWriter(s, v)
    <3>1. s.row = v /\ s.was = db.version[v].path
      BY <1>1, <2>1, <2>4 DEF IsWriter
    <3>2. InHand(s, db.version[v].path, db.version[v].shows) \/ ~Holds(db.version[v].path, db.version[v].shows)
      BY <2>1, <3>1 DEF InHand
    <3>3. s \notin reqs
      BY <1>1, <2>1, <2>2 DEF EditInv, NamesOk
    <3>4. s \notin Writers(v)
      BY <3>3 DEF Writers, TurnsOf
    <3>5. Writers(v)' = Writers(v) \cup {s}
      BY <1>1, <2>1, <2>4, WritersThen
    <3> QED BY <1>1, <3>2, <3>4, <3>5, TakesOver DEF Fine
  <2> QED BY <2>3, <2>4
<1> QED BY <1>2, <1>3

\* The file of a version written.
LEMMA WrittenFine ==
  ASSUME EditInv, NEW v \in DOMAIN db.version, Whole(v), NEW r \in reqs, Written(r)
  PROVE  Fine(v)
<1>1. r.kind = "write" /\ file' = Put(file, r.path, r.pic) /\ db' = db /\ GoesOn(r, [kind |-> "commit"]) /\ v # Nothing
  BY NoVersion DEF Written
<1>2. /\ {"row", "was", "path", "pic", "kind", "n"} \subseteq DOMAIN r /\ r.path.sub = "edits"
      /\ (r.row = Nothing => r.path.name = r.n /\ r.n \in Claims(r)) /\ (r.row # Nothing => r.row \in DOMAIN db.version /\ r.path.name = NameOf(db, r.row))
  BY <1>1 DEF EditInv, NamesOk, Fits, Shaped, Writing, Claims
<1>3. PICK s : /\ reqs' = (reqs \ {r}) \cup {s} /\ DOMAIN s = DOMAIN r /\ s.kind = "commit" /\ s.n = r.n
               /\ \A x \in DOMAIN r : x # "kind" => s[x] = r[x]
  BY <1>1, GoesOnAs
<1>4. s.row = r.row /\ s.was = r.was /\ s.path = r.path /\ s.pic = r.pic
  BY <1>2, <1>3
<1>5. CASE r.row = v
  <2>1. r \in Writers(v) /\ IsWriter(s, v)
    BY <1>1, <1>3, <1>4, <1>5 DEF Writers, IsWriter
  <2>2. Writers(v) = {r} /\ Writers(v)' = {s}
    BY <1>3, <2>1, OnlyWriter
  <2>3. PICK x, shows : x = db.version[v].path /\ shows = db.version[v].shows
    OBVIOUS
  <2>4. r.was = x /\ Holds(x, shows)
    BY <1>1, <2>1, <2>3 DEF Whole, InHand
  <2>5. InHand(s, x, shows)'
    BY <1>1, <1>3, <1>4, <2>4 DEF InHand, Holds, Put
  <2> QED BY <1>1, <2>2, <2>3, <2>5 DEF Fine, Whole, Lone
<1>6. CASE r.row # v
  <2>1. Untouched(v)
    BY <1>1, <1>3, <1>4, <1>6 DEF Untouched, IsWriter
  <2>2. PICK nm : nm = r.path.name
    OBVIOUS
  <2>3. nm # NameOf(db, v)
    BY <1>2, <1>6, <2>2, ClaimedAside DEF EditInv, RowsOk
  <2>4. Spares(nm)
    BY <1>1, <2>2 DEF Spares, Put
  <2> QED BY <1>1, <2>1, <2>3, <2>4, AsideBy, StaysWhole DEF Fine
<1> QED BY <1>5, <1>6

\* The row follows it.
LEMMA OverwrittenFine ==
  ASSUME EditInv, NEW v \in DOMAIN db.version, Whole(v), NEW r \in reqs, Overwritten(r)
  PROVE  Fine(v)
<1>1. /\ r.kind = "commit" /\ r.row # Nothing /\ GoesOn(r, [kind |-> "thumb"])
      /\ file' = IF r.was # r.path THEN [x \in DOMAIN file \ {r.was} |-> file[x]] ELSE file
  BY DEF Overwritten
<1>2. r.row \in DOMAIN db.version /\ r.was.sub = "edits" /\ r.was.name = NameOf(db, r.row) /\ r.path.name = NameOf(db, r.row)
  BY <1>1 DEF EditInv, Fits, Shaped
<1>3. /\ DOMAIN db'.version = DOMAIN db.version
      /\ \A u \in DOMAIN db.version : u # r.row => db'.version[u] = db.version[u]
      /\ db'.version[r.row].shows = r.pic
      /\ db'.version[r.row].path = r.path \/ (db'.version[r.row].path = db.version[r.row].path /\ r.was = r.path)
  BY OverwrittenRows
<1>4. PICK s : reqs' = (reqs \ {r}) \cup {s} /\ s.kind = "thumb"
  <2>1. \E s : /\ reqs' = (reqs \ {r}) \cup {s} /\ DOMAIN s = DOMAIN r /\ s.kind = "thumb" /\ s.n = r.n
                /\ \A x \in DOMAIN r : x # "kind" => s[x] = r[x]
    BY <1>1, GoesOnAs
  <2> QED BY <2>1
<1>5. ~IsWriter(s, v)
  BY <1>4 DEF IsWriter
<1>6. CASE r.row = v
  <2>1. r \in Writers(v)
    BY <1>1, <1>6 DEF Writers
  <2>2. Writers(v) = {r} /\ Writers(v)' = {}
    BY <1>4, <1>5, <2>1, OnlyWriter
  <2>3. r.was = db.version[v].path /\ Holds(r.path, r.pic)
    BY <1>1, <2>1 DEF Whole, InHand
  <2>4. db'.version[v].path = r.path /\ db'.version[v].shows = r.pic
    BY <1>3, <1>6, <2>3
  <2>5. Holds(r.path, r.pic)'
    BY <1>1, <2>3 DEF Holds
  <2> QED BY <2>2, <2>4, <2>5 DEF Fine, Whole, Lone
<1>7. CASE r.row # v
  <2>1. Untouched(v)
    BY <1>1, <1>4, <1>5, <1>7 DEF Untouched, IsWriter
  <2>2. PICK nm : nm = r.was.name
    OBVIOUS
  <2>3. nm # NameOf(db, v)
    BY <1>2, <1>7, <2>2 DEF EditInv, RowsOk
  <2>4. Spares(nm)
    BY <1>1, <2>2 DEF Spares
  <2>5. db'.version[v] = db.version[v]
    BY <1>3, <1>7
  <2> QED BY <2>1, <2>3, <2>4, <2>5, AsideBy, StaysWhole DEF Fine
<1> QED BY <1>6, <1>7

\* The file of a version turned.
LEMMA TurnFileFine ==
  ASSUME EditInv, NEW v \in DOMAIN db.version, Whole(v), NEW r \in reqs, TurnFile(r)
  PROVE  Fine(v)
<1>1. /\ r.kind = "turn" /\ UNCHANGED <<db, thumb, count>>
      /\ \E next \in DOMAIN r.paths :
           /\ next \notin r.done
           /\ IF r.first \notin r.done THEN next = r.first ELSE \A j \in DOMAIN r.paths \ r.done : next <= j
           /\ \/ r.paths[next] \notin DOMAIN file /\ file' = file /\ reqs' = reqs \ {r}
              \/ /\ r.paths[next] \in DOMAIN file
                 /\ file' = [file EXCEPT ![r.paths[next]] = Render(@, r.ops)]
                 /\ \E s : /\ reqs' = (reqs \ {r}) \cup {s} /\ DOMAIN s = DOMAIN r /\ s.done = r.done \cup {next}
                           /\ s.from = IF next = r.first THEN Size(file[r.paths[next]]) ELSE r.from
                           /\ \A x \in DOMAIN r : x \notin {"done", "from"} => s[x] = r[x]
  BY TurnFileMakes
<1>2. PICK next \in DOMAIN r.paths :
           /\ next \notin r.done
           /\ \/ r.paths[next] \notin DOMAIN file /\ file' = file /\ reqs' = reqs \ {r}
              \/ /\ r.paths[next] \in DOMAIN file
                 /\ file' = [file EXCEPT ![r.paths[next]] = Render(@, r.ops)]
                 /\ \E s : /\ reqs' = (reqs \ {r}) \cup {s} /\ DOMAIN s = DOMAIN r /\ s.done = r.done \cup {next}
                           /\ s.from = IF next = r.first THEN Size(file[r.paths[next]]) ELSE r.from
                           /\ \A x \in DOMAIN r : x \notin {"done", "from"} => s[x] = r[x]
  BY <1>1
<1>3. {"kind", "n", "target", "ops", "paths"} \subseteq DOMAIN r
  BY <1>1 DEF EditInv, NamesOk, Fits, Shaped, Turning
<1>4. CASE r.paths[next] \notin DOMAIN file /\ file' = file /\ reqs' = reqs \ {r}
  <2>1. CASE r \in Writers(v)
    <3>1. \A q \in reqs' : q.n # r.n
      BY <1>4 DEF EditInv, NamesOk
    <3> QED BY <1>1, <2>1, <3>1 DEF Fine, Cut
  <2>2. CASE r \notin Writers(v)
    <3>1. Untouched(v)
      BY <1>4, <2>2 DEF Untouched, Writers, TurnsOf, IsWriter
    <3> QED BY <1>1, <1>4, <3>1, AsideThere, StaysWhole DEF Fine
  <2> QED BY <2>1, <2>2
<1>5. ASSUME NEW s, r.paths[next] \in DOMAIN file, file' = [file EXCEPT ![r.paths[next]] = Render(@, r.ops)],
             reqs' = (reqs \ {r}) \cup {s}, DOMAIN s = DOMAIN r, s.done = r.done \cup {next},
             \A x \in DOMAIN r : x \notin {"done", "from"} => s[x] = r[x]
      PROVE  Fine(v)
  <2>1. s.kind = "turn" /\ s.target = r.target /\ s.ops = r.ops /\ s.paths = r.paths
    BY <1>1, <1>3, <1>5
  <2>2. CASE r \in Writers(v)
    <3>1. IsWriter(s, v)
      BY <1>1, <2>1, <2>2 DEF Writers, TurnsOf, IsWriter
    <3>2. Writers(v) = {r} /\ Writers(v)' = {s}
      BY <1>5, <2>2, <3>1, OnlyWriter
    <3>3. PICK x, shows : x = db.version[v].path /\ shows = db.version[v].shows
      OBVIOUS
    <3>4. next = 0 /\ r.done = {}
      BY <1>1, <1>2, <2>2, WritersName
    <3>5. r.paths[0] = x /\ Holds(x, shows)
      BY <1>1, <2>2, <3>3, <3>4 DEF Whole, InHand
    <3>6. Holds(x, Render(shows, r.ops))'
      <4>1. x \in DOMAIN file' /\ file'[x] = Render(file[x], r.ops) /\ file[x] = shows
        BY <1>5, <3>4, <3>5 DEF Holds
      <4> QED BY <4>1 DEF Holds
    <3>7. InHand(s, x, shows)'
      BY <1>5, <2>1, <3>4, <3>5, <3>6 DEF InHand
    <3> QED BY <1>1, <3>2, <3>3, <3>7 DEF Fine, Whole, Lone
  <2>3. CASE r \notin Writers(v)
    <3>1. Untouched(v)
      BY <1>1, <1>5, <2>1, <2>3 DEF Untouched, Writers, TurnsOf, IsWriter
    <3>2. PICK nm : nm = IF r.paths[next].sub = "edits" THEN r.paths[next].name ELSE NewName
      OBVIOUS
    <3>3. Spares(nm)
      BY <1>5, <3>2 DEF Spares
    <3>4. nm # NameOf(db, v)
      <4>1. CASE r.paths[next].sub = "edits"
        <5>1. r.target[1] = "version" /\ r.target[2] \in DOMAIN db.version /\ nm = NameOf(db, r.target[2])
          BY <1>1, <3>2, <4>1, TurnedName
        <5>2. r.target = <<r.target[1], r.target[2]>>
          BY <1>1 DEF EditInv, Fits, Shaped, Turning
        <5>3. r.target[2] # v
          BY <1>1, <2>3, <5>1, <5>2 DEF Writers, TurnsOf
        <5> QED BY <5>1, <5>3 DEF EditInv, RowsOk
      <4>2. CASE r.paths[next].sub # "edits"
        BY <3>2, <4>2, NamesOld
      <4> QED BY <4>1, <4>2
    <3> QED BY <1>1, <3>1, <3>3, <3>4, AsideBy, StaysWhole DEF Fine
  <2> QED BY <2>2, <2>3
<1> QED BY <1>2, <1>4, <1>5

\* And the row follows.
LEMMA CopyTurnedFine ==
  ASSUME EditInv, NEW v \in DOMAIN db.version, Whole(v), NEW r \in reqs, CopyTurned(r)
  PROVE  Fine(v)
<1>1. /\ r.kind = "turn" /\ r.target[1] \in {"version", "face"} /\ UNCHANGED <<file, count>> /\ reqs' = reqs \ {r}
      /\ r.done = DOMAIN r.paths /\ r.target = <<r.target[1], r.target[2]>> /\ DOMAIN r.paths = {0}
      /\ DOMAIN db' = DOMAIN db /\ \A x \in DOMAIN db \ {"version"} : db'[x] = db[x]
      /\ DOMAIN db'.version = DOMAIN db.version
      /\ \A w \in DOMAIN db.version : /\ DOMAIN db'.version[w] = DOMAIN db.version[w]
                                      /\ \A x \in DOMAIN db.version[w] \ {"shows"} : db'.version[w][x] = db.version[w][x]
                                      /\ <<"version", w>> # r.target => db'.version[w] = db.version[w]
      /\ r.target[1] = "version" => /\ r.target[2] \in DOMAIN db.version
                                    /\ db'.version[r.target[2]].shows = Render(db.version[r.target[2]].shows, r.ops)
  BY CopyTurnedRows
<1>2. CASE r \in Writers(v)
  <2>1. r.target = <<"version", v>>
    BY <1>1, <1>2 DEF Writers, TurnsOf
  <2>2. Writers(v) = {r}
    BY <1>2 DEF Whole, Lone
  <2>3. Writers(v)' = {}
    BY <1>1, <2>2 DEF Writers, TurnsOf
  <2>4. PICK x, shows : x = db.version[v].path /\ shows = db.version[v].shows
    OBVIOUS
  <2>5. Holds(x, Render(shows, r.ops))
    BY <1>1, <1>2, <2>4 DEF Whole, InHand
  <2>6. DOMAIN db.version[v] = {"of", "parent", "path", "current", "shows"}
    BY DEF EditInv, RowsOk
  <2>7. r.target[1] = "version" /\ r.target[2] = v
    BY <2>1
  <2>8. db'.version[v].path = x /\ db'.version[v].shows = Render(shows, r.ops)
    BY <1>1, <2>4, <2>6, <2>7
  <2>9. Holds(x, Render(shows, r.ops))'
    BY <1>1, <2>5 DEF Holds
  <2> QED BY <2>3, <2>8, <2>9 DEF Fine, Whole, Lone
<1>3. CASE r \notin Writers(v)
  <2>1. Untouched(v)
    BY <1>1, <1>3 DEF Untouched, Writers, TurnsOf, IsWriter
  <2>2. r.target # <<"version", v>>
    BY <1>1, <1>3 DEF Writers, TurnsOf
  <2>3. db'.version[v] = db.version[v]
    BY <1>1, <2>2
  <2> QED BY <1>1, <2>1, <2>3, AsideThere, StaysWhole DEF Fine
<1> QED BY <1>2, <1>3

\* A crash cuts writers short.
LEMMA CrashFine ==
  ASSUME EditInv, NEW v \in DOMAIN db.version, Whole(v), Crash
  PROVE  Fine(v)
<1>1. reqs' = {} /\ UNCHANGED <<db, file>>
  BY DEF Crash
<1>2. Writers(v)' = {}
  BY <1>1 DEF Writers, TurnsOf
<1>3. CASE Writers(v) = {}
  BY <1>1, <1>2, <1>3 DEF Fine, Whole, Lone, Holds
<1>4. CASE Writers(v) # {}
  <2>1. PICK r : r \in Writers(v)
    BY <1>4
  <2>2. r.kind \in {"turn", "write", "commit"}
    BY <2>1 DEF Writers, TurnsOf
  <2>3. Cut(r)
    BY <1>1, <2>2 DEF Cut
  <2> QED BY <2>1, <2>3 DEF Fine
<1> QED BY <1>3, <1>4

\* A version that was there, after any step.
LEMMA OldFine ==
  ASSUME EditInv, SessionsOk, NEW v \in DOMAIN db.version, Whole(v), Next
  PROVE  Fine(v) \/ Renames
<1>1. Aside(v) => Fine(v)
  BY StaysWhole DEF Fine
<1>2. Untouched(v) /\ file' = file /\ db' = db => Fine(v)
  BY <1>1, AsideThere
<1>3. ASSUME Requests PROVE Fine(v)
  <2>1. \A k : /\ \A op : ApplyStart(k, op) => Fine(v)
               /\ \A seq : Rollback(k, seq) => Fine(v)
    BY <1>2, QuietRequests
  <2>2. \A S, op : BulkEdit(S, op) => Fine(v)
    BY <1>2, QuietRequests
  <2>3. \A t : GetThumbnail(t) => Fine(v)
    BY <1>2, QuietRequests
  <2>4. \A k, mode : Save(k, mode) => Fine(v)
    BY SaveFine
  <2>5. \A a : ImportVersion(a) => Fine(v)
    BY <1>1, ImportAside
  <2>6. \A a : \A w \in DOMAIN db.version : SetCurrent(a, w) => Fine(v)
    BY <1>2, QuietRequests
  <2>7. \A i \in Inst : TrashOrRestore(i) => Fine(v)
    BY <1>1, TrashAside
  <2> QED BY <1>3, <2>1, <2>2, <2>3, <2>4, <2>5, <2>6, <2>7 DEF Requests
<1>4. ASSUME Steps PROVE Fine(v)
  <2>1. PICK r \in reqs :
           \/ ApplyDone(r)
           \/ Rendered(r) \/ Written(r) \/ Overwritten(r) \/ CurrentRead(r) \/ Inserted(r) \/ VersionThumb(r)
           \/ \E found : Dedupe(r, found)
           \/ TurnFile(r) \/ PhotoTurned(r) \/ ThumbsDropped(r) \/ CopyTurned(r)
           \/ BulkNext(r) \/ SiblingsRead(r) \/ Switched(r) \/ ThumbStored(r)
    BY <1>4 DEF Steps
  <2>2. CASE ApplyDone(r) \/ CurrentRead(r) \/ VersionThumb(r) \/ ThumbsDropped(r) \/ BulkNext(r) \/ SiblingsRead(r) \/ ThumbStored(r)
    BY <1>2, <2>2, QuietSteps
  <2>3. CASE (\E found : Dedupe(r, found)) \/ Inserted(r) \/ PhotoTurned(r) \/ Switched(r)
    BY <1>1, <2>3, DedupeAside, InsertAside, PhotoTurnedAside, SwitchedAside
  <2>4. CASE Rendered(r) \/ Written(r) \/ Overwritten(r) \/ TurnFile(r) \/ CopyTurned(r)
    BY <2>4, RenderedFine, WrittenFine, OverwrittenFine, TurnFileFine, CopyTurnedFine
  <2> QED BY <2>1, <2>2, <2>3, <2>4
<1>5. ASSUME ComfyRequests PROVE Fine(v)
  <2>1. \A k, run, targets, node : EnqueueRuns(k, run, targets, node) => Fine(v)
    BY <1>2, QuietRequests
  <2>2. \A run : RunWorkflow(run) \/ RunDefaultWorkflow(run) => Fine(v)
    BY <2>1 DEF RunWorkflow, RunDefaultWorkflow
  <2>3. \A s : PutSettings(s) => Fine(v)
    BY <1>2, QuietRequests
  <2>4. \A a, q : ImportResult(a, q) => Fine(v)
    BY <1>1, ResultAside
  <2> QED BY <1>5, <2>2, <2>3, <2>4 DEF ComfyRequests
<1>6. ASSUME ComfySteps PROVE Fine(v)
  <2>1. PICK r \in reqs : \/ RunStarts(r) \/ Upload(r) \/ SubmitPrompt(r) \/ OutputFound(r) \/ TimedOut(r)
                          \/ FetchForFace(r) \/ FetchForPhoto(r) \/ Checked(r) \/ Added(r) \/ Cleaned(r)
    BY <1>6 DEF ComfySteps
  <2>2. CASE FetchForPhoto(r) \/ Checked(r) \/ Added(r)
    BY <1>1, <2>2, PhotoAside
  <2>3. CASE \/ RunStarts(r) \/ Upload(r) \/ SubmitPrompt(r) \/ OutputFound(r) \/ TimedOut(r) \/ FetchForFace(r) \/ Cleaned(r)
    BY <1>2, <2>3, QuietSteps
  <2> QED BY <2>1, <2>2, <2>3
<1>7. ASSUME Renaming PROVE Renames
  BY <1>7 DEF Renaming, Renames
<1>8. ASSUME (\E p : Rendering(p)) \/ ComfyStops \/ ComfyStarts PROVE Fine(v)
  <2>1. UNCHANGED <<db, file, reqs>>
    BY <1>8 DEF Rendering, ComfyStops, ComfyStarts, vars
  <2> QED BY <1>2, <2>1 DEF Untouched
<1> QED BY <1>3, <1>4, <1>5, <1>6, <1>7, <1>8, CrashFine DEF Next

-----------------------------------------------------------------------------
(* New versions, and the current one.                                        *)

\* The new row, and the rows that were there.
LEMMA Added1 ==
  ASSUME EditInv, NEW seen, NEW row, db' = AddVersion(db, seen, row)
  PROVE  /\ DOMAIN db'.version = DOMAIN db.version \cup {NewId(db.version)} /\ NewId(db.version) \notin DOMAIN db.version
         /\ db'.version[NewId(db.version)] = row /\ NewId(db.version) # Nothing
         /\ \A v \in DOMAIN db.version : db'.version[v].of = db.version[v].of
                                         /\ db'.version[v].current = IF v \in seen THEN FALSE ELSE db.version[v].current
<1>1. PICK d : d = db'
  OBVIOUS
<1>2. RowsOk /\ d = AddVersion(db, seen, row)
  BY <1>1 DEF EditInv
<1>3. OneMore(d, seen, row)
  BY <1>2, Adding
<1>4. NewId(db.version) # Nothing
  BY <1>3, EditsAssumption DEF OneMore
<1>5. \A v \in DOMAIN db.version : db'.version[v].of = db.version[v].of
                                   /\ db'.version[v].current = IF v \in seen THEN FALSE ELSE db.version[v].current
  BY AddingAside
<1> QED BY <1>1, <1>3, <1>4, <1>5 DEF OneMore

\* A version that comes has its file, unless the file is gone.
LEMMA NewFine ==
  ASSUME EditInv, Next, NEW v \in DOMAIN db'.version, v \notin DOMAIN db.version, db'.version[v].path \in DOMAIN file'
  PROVE  Whole(v)'
<1>1. \A r \in reqs : ~IsWriter(r, v) \/ v = Nothing
  <2>1. SUFFICES ASSUME NEW r \in reqs, IsWriter(r, v), v # Nothing PROVE FALSE
    OBVIOUS
  <2>2. Shaped(r)
    BY DEF EditInv, Fits
  <2>3. CASE r.kind \in {"write", "commit"} /\ r.row = v
    BY <2>1, <2>2, <2>3 DEF Shaped
  <2>4. CASE r.kind = "turn" /\ r.target = <<"version", v>>
    BY <2>2, <2>4 DEF Shaped, Turning
  <2> QED BY <2>1, <2>3, <2>4 DEF IsWriter
<1>2. ASSUME NEW S, reqs' \subseteq reqs \cup S, \A q \in S : ~IsWriter(q, v), v # Nothing,
             Holds(db.version[v].path, db.version[v].shows)'
      PROVE  Whole(v)'
  <2>1. Writers(v)' = {}
    BY <1>1, <1>2 DEF Writers, TurnsOf, IsWriter
  <2> QED BY <1>2, <2>1 DEF Whole, Lone, Holds
<1>3. ASSUME NEW r \in reqs, Inserted(r) PROVE Whole(v)'
  <2>1. PICK seen : db' = AddVersion(db, seen, Row(r))
    BY <1>3 DEF Inserted
  <2>2. v = NewId(db.version) /\ db'.version[v] = Row(r) /\ v # Nothing
    BY <2>1, Added1
  <2>3. db'.version[v].path = r.path /\ db'.version[v].shows = r.pic
    BY <2>2 DEF Row
  <2>4. file' = file /\ r.kind = "insert"
    BY <1>3 DEF Inserted
  <2>5. r.path.sub = "edits" /\ r.path.name = r.n /\ r.n \in Claims(r) /\ Unused(r)
    BY <2>4 DEF EditInv, Fits, Shaped, Writing, Claims, Early
  <2>6. Holds(r.path, r.pic)'
    BY <2>3, <2>4, <2>5 DEF Unused, Holds
  <2>7. PICK kind : kind \in {"thumb", "clean"} /\ GoesOn(r, [kind |-> kind, row |-> NewId(db.version)])
    BY <1>3 DEF Inserted
  <2>8. PICK s : s.kind \in {"thumb", "clean"} /\ reqs' = (reqs \ {r}) \cup {s}
    <3>1. With([kind |-> kind, row |-> NewId(db.version)], r).kind = kind
      BY DEF With
    <3> QED BY <2>7, <3>1 DEF GoesOn
  <2>9. ~IsWriter(s, v) /\ reqs' \subseteq reqs \cup {s}
    BY <2>8 DEF IsWriter
  <2> QED BY <1>2, <2>2, <2>3, <2>6, <2>9
<1>4. ASSUME NEW r \in reqs, Switched(r) PROVE FALSE
  BY <1>4, SwitchedRows DEF SwitchRows
<1> QED BY <1>3, <1>4, RowsChange DEF RowsStay

\* Every step keeps the files of versions.
LEMMA FilesStep ==
  ASSUME EditInv, SessionsOk, EditInv', Next
  PROVE  FilesKept
<1>1. SUFFICES ASSUME NEW v \in DOMAIN db'.version, v \in DOMAIN db.version => Kept(v)
               PROVE  \/ Kept(v)'
                      \/ ~Lone(Writers(v)')
                      \/ \E r \in Writers(v) : Cut(r)
                      \/ Renames
                      \/ v \notin DOMAIN db.version /\ db'.version[v].path \notin DOMAIN file'
  BY DEF FilesKept
<1>2. CASE v \in DOMAIN db.version
  <2>1. Whole(v)
    BY <1>1, <1>2, KeptIsWhole
  <2>2. Fine(v) \/ Renames
    BY <1>2, <2>1, OldFine
  <2> QED BY <2>2, WholeIsKept DEF Fine
<1>3. CASE v \notin DOMAIN db.version
  BY <1>3, NewFine, WholeIsKept
<1> QED BY <1>2, <1>3

\* The version that is added becomes the only current one of its photo or face, the others
\* keep theirs.
CurrentThen(seen, owner, t) ==
    /\ t # owner => Current(db', t) = Current(db, t) /\ (t \in Targets(db') => t \in Targets(db))
    /\ t = owner /\ seen = Current(db, t) => Cardinality(Current(db', t)) = 1

\* Adding a version makes it the only current one of its owner.
LEMMA AddedCurrent ==
  ASSUME EditInv, NEW seen, NEW row, db' = AddVersion(db, seen, row), row.current = TRUE,
         \A v \in seen \cap DOMAIN db.version : db.version[v].of = row.of, NEW t
  PROVE  CurrentThen(seen, row.of, t)
<1>1. PICK id : id = NewId(db.version)
  OBVIOUS
<1>2. /\ DOMAIN db'.version = DOMAIN db.version \cup {id} /\ id \notin DOMAIN db.version
      /\ db'.version[id] = row
      /\ \A v \in DOMAIN db.version : db'.version[v].of = db.version[v].of
                                      /\ db'.version[v].current = IF v \in seen THEN FALSE ELSE db.version[v].current
  BY <1>1, Added1
<1>5. PICK V, W : V = db.version /\ W = db'.version
  OBVIOUS
<1>6. /\ DOMAIN W = DOMAIN V \cup {id} /\ id \notin DOMAIN V /\ W[id].current /\ W[id].of = row.of
      /\ \A v \in DOMAIN V : W[v].of = V[v].of /\ (v \in seen => ~W[v].current) /\ (v \notin seen => (W[v].current <=> V[v].current))
      /\ \A v \in seen \cap DOMAIN V : V[v].of = row.of
  <2>1. W[id].current /\ W[id].of = row.of
    BY <1>2, <1>5
  <2>2. ASSUME NEW v \in DOMAIN V
        PROVE  W[v].of = V[v].of /\ (v \in seen => ~W[v].current) /\ (v \notin seen => (W[v].current <=> V[v].current))
    BY <1>2, <1>5, <2>2
  <2> QED BY <1>2, <1>5, <2>1, <2>2
<1>7. Current(db', t) = {v \in DOMAIN W : W[v].of = t /\ W[v].current} /\ Current(db, t) = {v \in DOMAIN V : V[v].of = t /\ V[v].current}
  BY <1>5 DEF Current
<1>3. ASSUME t # row.of PROVE Current(db', t) = Current(db, t) /\ (t \in Targets(db') => t \in Targets(db))
  <2>1. Current(db', t) = Current(db, t)
    BY <1>3, <1>6, <1>7
  <2>2. Targets(db') = {W[v].of : v \in DOMAIN W} /\ Targets(db) = {V[v].of : v \in DOMAIN V}
    BY <1>5 DEF Targets
  <2>3. t \in Targets(db') => t \in Targets(db)
    BY <1>3, <1>6, <2>2
  <2> QED BY <2>1, <2>3
<1>4. ASSUME t = row.of, seen = Current(db, t) PROVE Cardinality(Current(db', t)) = 1
  <2>1. Current(db', t) = {id}
    BY <1>6, <1>7, <1>4
  <2> QED BY <2>1, FS_Singleton
<1> QED BY <1>3, <1>4 DEF CurrentThen

\* A request that is not there any more has ended, gone on, or was lost in a crash.
LEMMA Actor ==
  ASSUME EditInv, Next, ~Crash, NEW q \in reqs, q \notin reqs', q.kind \in {"turn", "drop", "write", "commit", "insert", "thumb"}
  PROVE  \/ Written(q) \/ Overwritten(q) \/ CurrentRead(q) \/ Inserted(q) \/ VersionThumb(q)
         \/ TurnFile(q) \/ PhotoTurned(q) \/ ThumbsDropped(q) \/ CopyTurned(q)
<1> DEFINE Goal == \/ Written(q) \/ Overwritten(q) \/ CurrentRead(q) \/ Inserted(q) \/ VersionThumb(q)
                   \/ TurnFile(q) \/ PhotoTurned(q) \/ ThumbsDropped(q) \/ CopyTurned(q)
<1>1. ASSUME NEW r, Over(r) \/ \E w : GoesOn(r, w) PROVE q = r
  BY <1>1 DEF Over, GoesOn
<1>2. reqs \subseteq reqs' => FALSE
  OBVIOUS
<1>3. \A w : ~New(w)
  BY DEF New
<1> HIDE DEF Goal
<1>4. ASSUME Requests PROVE FALSE
  <2>1. \A k, op : ~ApplyStart(k, op)
    BY <1>3 DEF ApplyStart
  <2>2. \A k, seq : ~Rollback(k, seq)
    BY <1>2 DEF Rollback
  <2>3. \A k, mode : ~Save(k, mode)
    BY <1>3 DEF Save
  <2>4. \A S, op : ~BulkEdit(S, op)
    BY <1>3 DEF BulkEdit
  <2>5. \A a : ~ImportVersion(a)
    BY <1>3 DEF ImportVersion
  <2>6. \A a, v : ~SetCurrent(a, v)
    BY <1>3 DEF SetCurrent
  <2>7. \A t : ~GetThumbnail(t)
    BY <1>3 DEF GetThumbnail, ThumbMiss
  <2>8. \A i : ~TrashOrRestore(i)
    BY <1>2 DEF TrashOrRestore
  <2> QED BY <1>4, <2>1, <2>2, <2>3, <2>4, <2>5, <2>6, <2>7, <2>8 DEF Requests
<1>5. ASSUME Steps PROVE Goal
  <2>1. PICK r \in reqs :
           \/ ApplyDone(r)
           \/ Rendered(r) \/ Written(r) \/ Overwritten(r) \/ CurrentRead(r) \/ Inserted(r) \/ VersionThumb(r)
           \/ \E found : Dedupe(r, found)
           \/ TurnFile(r) \/ PhotoTurned(r) \/ ThumbsDropped(r) \/ CopyTurned(r)
           \/ BulkNext(r) \/ SiblingsRead(r) \/ Switched(r) \/ ThumbStored(r)
    BY <1>5 DEF Steps
  <2>2. CASE ApplyDone(r) \/ Rendered(r) \/ (\E found : Dedupe(r, found)) \/ SiblingsRead(r) \/ Switched(r) \/ ThumbStored(r)
    <3>1. r.kind \in {"apply", "render", "dedupe", "pick", "switch", "get"} /\ (Over(r) \/ \E w : GoesOn(r, w))
      BY <2>2 DEF ApplyDone, Rendered, Dedupe, SiblingsRead, Switched, ThumbStored
    <3> QED BY <1>1, <3>1
  <2>3. CASE Written(r) \/ Overwritten(r) \/ CurrentRead(r) \/ Inserted(r) \/ VersionThumb(r) \/ TurnFile(r) \/ PhotoTurned(r) \/ CopyTurned(r)
    <3>1. Over(r) \/ \E w : GoesOn(r, w)
      BY <2>3 DEF Written, Overwritten, CurrentRead, Inserted, VersionThumb, TurnFile, PhotoTurned, CopyTurned
    <3> QED BY <1>1, <2>3, <3>1 DEF Goal
  <2>4. CASE ThumbsDropped(r)
    <3>1. reqs' = {Note(r, s) : s \in reqs \ {r}}
      BY <2>4 DEF ThumbsDropped, Note
    <3>2. q # r => Note(r, q) = q
      BY Noted
    <3>3. q = r
      BY <3>1, <3>2
    <3> QED BY <2>4, <3>3 DEF Goal
  <2>5. CASE BulkNext(r)
    <3>1. r.kind = "bulk" /\ reqs \ {r} \subseteq reqs'
      BY <2>5, BulkNextMakes
    <3> QED BY <3>1
  <2> QED BY <2>1, <2>2, <2>3, <2>4, <2>5
<1>6. ASSUME ComfyRequests PROVE FALSE
  <2>1. \A k, run, targets, node : ~EnqueueRuns(k, run, targets, node)
    BY <1>2 DEF EnqueueRuns
  <2>2. \A run : ~RunWorkflow(run) /\ ~RunDefaultWorkflow(run)
    BY <2>1 DEF RunWorkflow, RunDefaultWorkflow
  <2>3. \A s : ~PutSettings(s)
    BY <1>2 DEF PutSettings
  <2>4. \A a, x : ~ImportResult(a, x)
    BY <1>2 DEF ImportResult
  <2> QED BY <1>6, <2>2, <2>3, <2>4 DEF ComfyRequests
<1>7. ASSUME ComfySteps PROVE FALSE
  <2>1. PICK r \in reqs : \/ RunStarts(r) \/ Upload(r) \/ SubmitPrompt(r) \/ OutputFound(r) \/ TimedOut(r)
                          \/ FetchForFace(r) \/ FetchForPhoto(r) \/ Checked(r) \/ Added(r) \/ Cleaned(r)
    BY <1>7 DEF ComfySteps
  <2>2. r.kind \in {"queued", "upload", "wait", "fetch", "check", "add", "clean"} /\ (Over(r) \/ \E w : GoesOn(r, w))
    BY <2>1 DEF RunStarts, Upload, SubmitPrompt, OutputFound, TimedOut, FetchForFace, FetchForPhoto, Checked, Added, Cleaned
  <2> QED BY <1>1, <2>2
<1>8. Renaming \/ (\E p : Rendering(p)) \/ ComfyStops \/ ComfyStarts => FALSE
  BY <1>2 DEF Renaming, RenameFolder, Rendering, ComfyStops, ComfyStarts, vars
<1>9. Goal
  BY <1>4, <1>5, <1>6, <1>7, <1>8 DEF Next
<1> QED BY <1>9 DEF Goal

\* No request of a kind that has read current versions comes.
Readers == {"pick", "switch", "insert"}
NoReads == \A s \in reqs' \ reqs : s.kind \notin Readers

\* A request that goes on as one of another kind.
LEMMA GoesOnReads ==
  ASSUME NEW r, NEW w, GoesOn(r, w), "kind" \in DOMAIN w, w.kind \notin Readers
  PROVE  NoReads
<1>1. PICK s : s = With(w, r)
  OBVIOUS
<1>2. s.kind \notin Readers /\ reqs' = (reqs \ {r}) \cup {s}
  BY <1>1 DEF GoesOn, With
<1> QED BY <1>2 DEF NoReads

\* A new one of another kind.
LEMMA NewReads ==
  ASSUME NEW q, New(q), "n" \notin DOMAIN q, "kind" \in DOMAIN q, q.kind \notin Readers
  PROVE  NoReads
<1>1. PICK s : reqs' = reqs \cup {s} /\ \A x \in DOMAIN q : s[x] = q[x]
  BY Named
<1>2. s.kind \notin Readers
  BY <1>1
<1> QED BY <1>1, <1>2 DEF NoReads

\* What users ask for reads no current version, but for an import and a choice.
LEMMA RequestsRead ==
  ASSUME EditInv, SessionsOk, Requests
  PROVE  \/ NoReads
         \/ \E a : ImportVersion(a) \/ \E v \in DOMAIN db.version : SetCurrent(a, v)
<1>1. ASSUME NEW k, NEW op, ApplyStart(k, op) PROVE NoReads
  <2> DEFINE q == [kind |-> "apply", key |-> k, op |-> op, ops |-> Append(OpsOf(session[k].steps), op),
                   seq |-> 1 + Max(DOMAIN session[k].steps \cup {0})]
  <2>1. New(q)
    BY <1>1 DEF ApplyStart
  <2>2. "n" \notin DOMAIN q /\ "kind" \in DOMAIN q /\ q.kind \notin Readers
    BY DEF Readers
  <2> HIDE DEF q
  <2> QED BY <2>1, <2>2, NewReads
<1>2. ASSUME NEW S, NEW op, BulkEdit(S, op) PROVE NoReads
  <2> DEFINE q == [kind |-> "bulk", op |-> op, done |-> {},
                   todo |-> [i \in {j \in Inst : db.inst[j].live /\ AssetOf[j] \in S} |-> db.inst[i].path]]
  <2>1. New(q)
    BY <1>2 DEF BulkEdit
  <2>2. "n" \notin DOMAIN q /\ "kind" \in DOMAIN q /\ q.kind \notin Readers
    BY DEF Readers
  <2> HIDE DEF q
  <2> QED BY <2>1, <2>2, NewReads
<1>3. ASSUME NEW t, GetThumbnail(t) PROVE NoReads
  <2>1. PICK x : ThumbMiss(t, x)
    BY <1>3 DEF GetThumbnail
  <2> DEFINE q == [kind |-> "get", of |-> t, pic |-> file[x]]
  <2>2. New(q)
    BY <2>1 DEF ThumbMiss
  <2>3. "n" \notin DOMAIN q /\ "kind" \in DOMAIN q /\ q.kind \notin Readers
    BY DEF Readers
  <2> HIDE DEF q
  <2> QED BY <2>2, <2>3, NewReads
<1>4. ASSUME NEW k, NEW mode, Save(k, mode) PROVE NoReads
  <2>1. \E s : /\ reqs' = reqs \cup {s} /\ count' = count + 1 /\ UNCHANGED <<db, file, thumb, session, editor>>
               /\ {"kind", "n", "ops", "key", "shown", "basis", "smooth"} \subseteq DOMAIN s /\ "job" \notin DOMAIN s /\ s.n = NewName
               /\ s.key = k /\ s.shown = editor[k].shows /\ s.basis = editor[k].basis
               /\ s.smooth = Settled(k)
               /\ s.ops = OpsOf(session[k].steps) /\ k \in DOMAIN editor /\ editor[k].seq > 0
               /\ Shaped(s) /\ s.kind \in {"render", "turn"} /\ Claims(s) \subseteq {s.n}
               /\ s.kind = "turn" /\ s.target[1] = "version" => s.done = {} /\ s.paths[0] = db.version[s.target[2]].path
    BY <1>4, SaveMakes
  <2>2. PICK s : reqs' = reqs \cup {s} /\ s.kind \in {"render", "turn"}
    BY <2>1, Zenon
  <2> QED BY <2>2 DEF NoReads, Readers
<1>5. (\E k, seq : Rollback(k, seq)) \/ (\E i : TrashOrRestore(i)) => NoReads
  BY DEF Rollback, TrashOrRestore, NoReads
<1> QED BY <1>1, <1>2, <1>3, <1>4, <1>5 DEF Requests

\* Nor do steps, but for two.
LEMMA StepsRead ==
  ASSUME EditInv, Steps
  PROVE  NoReads \/ \E r \in reqs : SiblingsRead(r) \/ CurrentRead(r)
<1>1. PICK r \in reqs :
           \/ ApplyDone(r)
           \/ Rendered(r) \/ Written(r) \/ Overwritten(r) \/ CurrentRead(r) \/ Inserted(r) \/ VersionThumb(r)
           \/ \E found : Dedupe(r, found)
           \/ TurnFile(r) \/ PhotoTurned(r) \/ ThumbsDropped(r) \/ CopyTurned(r)
           \/ BulkNext(r) \/ SiblingsRead(r) \/ Switched(r) \/ ThumbStored(r)
  BY DEF Steps
<1>2. Over(r) => NoReads
  BY DEF Over, NoReads
<1>3. "kind" \in DOMAIN r
  BY DEF EditInv, NamesOk
<1>4. ApplyDone(r) \/ (\E found : Dedupe(r, found)) \/ CopyTurned(r) \/ Switched(r) \/ ThumbStored(r) => NoReads
  BY <1>2 DEF ApplyDone, Dedupe, CopyTurned, Switched, ThumbStored
<1>5. ASSUME Written(r) \/ Overwritten(r) \/ VersionThumb(r) \/ PhotoTurned(r) PROVE NoReads
  <2>1. Over(r) \/ \E kind \in {"commit", "thumb", "dedupe", "drop"} : GoesOn(r, [kind |-> kind])
    BY <1>5 DEF Written, Overwritten, VersionThumb, PhotoTurned
  <2>2. ASSUME NEW kind \in {"commit", "thumb", "dedupe", "drop"}, GoesOn(r, [kind |-> kind]) PROVE NoReads
    BY <2>2, GoesOnReads DEF Readers
  <2> QED BY <1>2, <2>1, <2>2
<1>6. ASSUME Inserted(r) PROVE NoReads
  <2>1. PICK row : row = NewId(db.version)
    OBVIOUS
  <2>2. \E kind \in {"thumb", "clean"} : GoesOn(r, [kind |-> kind, row |-> row])
    BY <1>6, <2>1 DEF Inserted
  <2>3. ASSUME NEW kind \in {"thumb", "clean"}, GoesOn(r, [kind |-> kind, row |-> row]) PROVE NoReads
    BY <2>3, GoesOnReads DEF Readers
  <2> QED BY <2>2, <2>3
<1>7. ASSUME Rendered(r) PROVE NoReads
  <2>1. r.kind = "render" /\ (r.source \notin DOMAIN file => Over(r))
    BY <1>7 DEF Rendered
  <2>2. CASE r.source \in DOMAIN file
    <3>1. \E s : /\ reqs' = (reqs \ {r}) \cup {s} /\ DOMAIN s = DOMAIN r \cup {"kind", "pic", "row", "was", "path"}
                 /\ s.kind = "write" /\ s.pic = Render(file[r.source], r.ops)
                 /\ \A x \in DOMAIN r : x \in {"kind", "pic", "row", "was", "path"} \/ s[x] = r[x]
                 /\ \/ /\ s.row = Nothing /\ s.path.sub = "edits" /\ s.path.name = r.n
                    \/ /\ s.row \in DOMAIN db.version /\ s.was = db.version[s.row].path
                       /\ s.path.sub = s.was.sub /\ s.path.name = s.was.name
                 /\ s.path = Path(s.path.dir, s.path.sub, s.path.name, s.path.ext)
      BY <1>7, <2>2, RenderedMakes
    <3>2. PICK s : reqs' = (reqs \ {r}) \cup {s} /\ s.kind = "write"
      BY <3>1
    <3> QED BY <3>2 DEF NoReads, Readers
  <2> QED BY <1>2, <2>1, <2>2
<1>8. ASSUME TurnFile(r) PROVE NoReads
  <2>1. r.kind = "turn" /\ (Over(r) \/ \E done, from : GoesOn(r, [done |-> done, from |-> from]))
    BY <1>8 DEF TurnFile
  <2>2. ASSUME NEW done, NEW from, GoesOn(r, [done |-> done, from |-> from]) PROVE NoReads
    <3>1. PICK s : s = With([done |-> done, from |-> from], r)
      OBVIOUS
    <3>2. s.kind = "turn"
      BY <1>3, <2>1, <3>1 DEF With
    <3>3. reqs' = (reqs \ {r}) \cup {s}
      BY <2>2, <3>1 DEF GoesOn
    <3> QED BY <3>2, <3>3 DEF NoReads, Readers
  <2> QED BY <1>2, <2>1, <2>2
<1>9. ASSUME BulkNext(r) PROVE NoReads
  <2>1. /\ r.kind = "bulk" /\ UNCHANGED <<db, file, thumb, count>>
        /\ \/ reqs' = reqs \ {r}
           \/ \E i \in DOMAIN r.todo : \E s :
                  /\ DOMAIN s = DOMAIN r /\ s.todo = [j \in DOMAIN r.todo \ {i} |-> r.todo[j]]
                  /\ \A x \in DOMAIN r \ {"todo"} : s[x] = r[x]
                  /\ \/ reqs' = (reqs \ {r}) \cup {s}
                     \/ \E q : /\ reqs' = (reqs \ {r}) \cup {s, q} /\ {"kind", "n", "job"} \subseteq DOMAIN q
                               /\ q.n = <<r.n[1], i>> /\ q.job = r.n /\ q.kind \in {"render", "turn"} /\ Shaped(q)
                               /\ Claims(q) \subseteq {q.n} /\ "key" \notin DOMAIN q
                               /\ q.kind = "render" => q.by = "bulk"
                               /\ q.kind = "turn" => q.target[1] = "instance"
    BY <1>9, BulkNextMakes
  <2>2. ASSUME NEW s, \A x \in DOMAIN r \ {"todo"} : s[x] = r[x] PROVE s.kind = "bulk"
    BY <1>3, <2>1, <2>2
  <2>3. \/ reqs' = reqs \ {r}
        \/ \E s : s.kind = "bulk" /\ (\/ reqs' = (reqs \ {r}) \cup {s}
                                    \/ \E q : reqs' = (reqs \ {r}) \cup {s, q} /\ q.kind \in {"render", "turn"})
    <3>1. ASSUME NEW i \in DOMAIN r.todo, NEW s, \A x \in DOMAIN r \ {"todo"} : s[x] = r[x],
                 \/ reqs' = (reqs \ {r}) \cup {s}
                 \/ \E q : reqs' = (reqs \ {r}) \cup {s, q} /\ q.kind \in {"render", "turn"}
          PROVE  \E z : z.kind = "bulk" /\ (\/ reqs' = (reqs \ {r}) \cup {z}
                                          \/ \E q : reqs' = (reqs \ {r}) \cup {z, q} /\ q.kind \in {"render", "turn"})
      BY <2>2, <3>1
    <3> QED BY <2>1, <3>1
  <2>4. \A s \in reqs' \ reqs : s.kind \in {"bulk", "render", "turn"}
    BY <2>3
  <2> QED BY <2>4 DEF NoReads, Readers
<1>10. ASSUME ThumbsDropped(r) PROVE NoReads
  <2>1. \A s \in reqs' : s \in reqs \/ \E q \in reqs : "job" \in DOMAIN r /\ q.n = r.job /\ s = [q EXCEPT !.done = @ \cup {r.target[2]}]
    BY <1>10 DEF ThumbsDropped
  <2>2. ASSUME NEW q \in reqs, "job" \in DOMAIN r, q.n = r.job PROVE q.kind = "bulk" /\ "kind" \in DOMAIN q
    BY <2>2 DEF EditInv, NamesOk
  <2>3. ASSUME NEW s, NEW q, q.kind = "bulk", "kind" \in DOMAIN q, s = [q EXCEPT !.done = @ \cup {r.target[2]}] PROVE s.kind \notin Readers
    BY <2>3 DEF Readers
  <2> QED BY <2>1, <2>2, <2>3 DEF NoReads
<1> QED BY <1>1, <1>4, <1>5, <1>6, <1>7, <1>8, <1>9, <1>10

\* Nor do the steps of ComfyUI's runs and imports.
LEMMA ComfyReads ==
  ASSUME EditInv, ComfyRequests \/ ComfySteps
  PROVE  NoReads
<1>1. ASSUME NEW k, NEW run, NEW targets, NEW node, EnqueueRuns(k, run, targets, node) PROVE NoReads
  <2>1. \E S : /\ reqs' = reqs \cup S /\ count' = count + 1 /\ UNCHANGED <<db, file, thumb, session, editor, comfyVars>>
               /\ \A s \in S : /\ {"kind", "n", "target"} \subseteq DOMAIN s /\ s.n[1] = count + 1 /\ s.kind = "queued"
                               /\ {"job", "key"} \cap DOMAIN s = {}
               /\ \A s, t \in S : s.n = t.n => s = t
    BY <1>1, EnqueueMakes
  <2>2. PICK S : reqs' = reqs \cup S /\ \A s \in S : s.kind = "queued"
    BY <2>1
  <2> QED BY <2>2 DEF NoReads, Readers
<1>2. CASE ComfyRequests
  <2>1. \A run : RunWorkflow(run) \/ RunDefaultWorkflow(run) => NoReads
    BY <1>1 DEF RunWorkflow, RunDefaultWorkflow
  <2>2. (\E s : PutSettings(s)) \/ (\E a, q : ImportResult(a, q)) => NoReads
    BY DEF PutSettings, ImportResult, NoReads
  <2> QED BY <1>2, <2>1, <2>2 DEF ComfyRequests
<1>3. CASE ComfySteps
  <2>1. PICK r \in reqs : \/ RunStarts(r) \/ Upload(r) \/ SubmitPrompt(r) \/ OutputFound(r) \/ TimedOut(r)
                          \/ FetchForFace(r) \/ FetchForPhoto(r) \/ Checked(r) \/ Added(r) \/ Cleaned(r)
    BY <1>3 DEF ComfySteps
  <2>2. Over(r) => NoReads
    BY DEF Over, NoReads
  <2>3. "kind" \in DOMAIN r
    BY DEF EditInv, NamesOk
  <2>4. ASSUME Upload(r) PROVE NoReads
    <3>1. r.kind = "upload" /\ (Over(r) \/ \E sent, next : GoesOn(r, [sent |-> sent, next |-> next]))
      BY <2>4 DEF Upload
    <3>2. ASSUME NEW sent, NEW next, GoesOn(r, [sent |-> sent, next |-> next]) PROVE NoReads
      <4>1. PICK s : s = With([sent |-> sent, next |-> next], r)
        OBVIOUS
      <4>2. s.kind = "upload"
        BY <2>3, <3>1, <4>1 DEF With
      <4>3. reqs' = (reqs \ {r}) \cup {s}
        BY <3>2, <4>1 DEF GoesOn
      <4> QED BY <4>2, <4>3 DEF NoReads, Readers
    <3> QED BY <2>2, <3>1, <3>2
  <2>5. ASSUME NEW w, "kind" \in DOMAIN w, w.kind \in {"upload", "wait", "fetch", "write", "check", "add", "clean", "thumb"}, GoesOn(r, w)
        PROVE  NoReads
    BY <2>5, GoesOnReads DEF Readers
  <2>6. ASSUME RunStarts(r) \/ SubmitPrompt(r) \/ OutputFound(r) PROVE NoReads
    <3>1. \/ Over(r)
          \/ \E paths : GoesOn(r, [kind |-> "upload", sent |-> <<>>, next |-> 1, paths |-> paths])
          \/ \E prompt : GoesOn(r, [kind |-> "wait", prompt |-> prompt])
          \/ \E name : GoesOn(r, [kind |-> "fetch", name |-> name])
      BY <2>6 DEF RunStarts, SubmitPrompt, OutputFound
    <3>2. ASSUME NEW paths, GoesOn(r, [kind |-> "upload", sent |-> <<>>, next |-> 1, paths |-> paths]) PROVE NoReads
      BY <2>5, <3>2
    <3>3. ASSUME NEW prompt, GoesOn(r, [kind |-> "wait", prompt |-> prompt]) PROVE NoReads
      BY <2>5, <3>3
    <3>4. ASSUME NEW name, GoesOn(r, [kind |-> "fetch", name |-> name]) PROVE NoReads
      BY <2>5, <3>4
    <3> QED BY <2>2, <3>1, <3>2, <3>3, <3>4
  <2>7. ASSUME FetchForFace(r) PROVE NoReads
    <3> DEFINE w == [kind |-> "write", by |-> "upscale", of |-> r.target, parent |-> Nothing, row |-> Nothing, was |-> Nothing,
                     pic |-> comfy.output[r.name], path |-> Path(DirOf(db, r.target), "edits", r.n, "png")]
    <3>1. GoesOn(r, w) \/ Over(r)
      BY <2>7 DEF FetchForFace
    <3>2. "kind" \in DOMAIN w /\ w.kind = "write"
      OBVIOUS
    <3> HIDE DEF w
    <3> QED BY <2>2, <2>5, <3>1, <3>2
  <2>8. ASSUME FetchForPhoto(r) PROVE NoReads
    <3> DEFINE w == [kind |-> "check", pic |-> comfy.output[r.name], path |-> EditPath(r.target[2], r.n)]
    <3>1. GoesOn(r, w) \/ Over(r)
      BY <2>8 DEF FetchForPhoto
    <3>2. "kind" \in DOMAIN w /\ w.kind = "check"
      OBVIOUS
    <3> HIDE DEF w
    <3> QED BY <2>2, <2>5, <3>1, <3>2
  <2>9. ASSUME Checked(r) \/ Added(r) \/ Cleaned(r) \/ TimedOut(r) PROVE NoReads
    <3>1. Over(r) \/ \E kind \in {"add", "clean", "thumb"} : GoesOn(r, [kind |-> kind])
      BY <2>9 DEF Checked, Added, Cleaned, TimedOut
    <3>2. ASSUME NEW kind \in {"add", "clean", "thumb"}, GoesOn(r, [kind |-> kind]) PROVE NoReads
      BY <2>5, <3>2
    <3> QED BY <2>2, <3>1, <3>2
  <2> QED BY <2>1, <2>4, <2>6, <2>7, <2>8, <2>9
<1> QED BY <1>2, <1>3

\* Requests that have read current versions come from four actions.
LEMMA ReadersCome ==
  ASSUME EditInv, SessionsOk, Next
  PROVE  \/ NoReads
         \/ \E a : ImportVersion(a) \/ \E v \in DOMAIN db.version : SetCurrent(a, v)
         \/ \E r \in reqs : SiblingsRead(r) \/ CurrentRead(r)
<1>1. Crash \/ Renaming \/ (\E p : Rendering(p)) \/ ComfyStops \/ ComfyStarts => NoReads
  BY DEF Crash, Renaming, RenameFolder, Rendering, ComfyStops, ComfyStarts, vars, NoReads
<1> QED BY <1>1, RequestsRead, StepsRead, ComfyReads DEF Next

\* A thread has added a version of t, and makes its thumbnails.
ThreadDone(t) == \E q \in reqs : q.kind \in {"thumb", "clean"} /\ ThreadFor(t, q)

\* What request r on the event loop has read is so still.
StillSo(r) == /\ r.kind # "pick" => r.seen = Current(db, r.of)
              /\ r.kind # "insert" => r.was = db.version[r.row].current

\* That is so, unless a thread has come in between.
ReadsOk == \A r \in reqs : OnLoop(r) => StillSo(r) \/ ThreadDone(r.of)

\* A step that takes no such thread's request away leaves it there.
LEMMA ThreadStays ==
  ASSUME NEW t, ThreadDone(t), NEW r, reqs \ {r} \subseteq reqs', r.kind \notin {"thumb", "clean"}
  PROVE  ThreadDone(t)'
BY DEF ThreadDone, ThreadFor

\* A request has just read what it needs.
LEMMA ReadsCome ==
  ASSUME EditInv, SessionsOk, ReadsOk, Next, NEW s \in reqs', s \notin reqs, OnLoop(s)
  PROVE  StillSo(s)' \/ ThreadDone(s.of)'
<1>1. s.kind \in Readers
  BY DEF OnLoop, Readers
<1>2. ASSUME NEW a, ImportVersion(a) PROVE StillSo(s)'
  <2>1. \E q :
            /\ reqs' = reqs \cup {q} /\ count' = count + 1 /\ UNCHANGED <<db, thumb, session, editor>>
            /\ DOMAIN q = {"kind", "n", "by", "of", "parent", "row", "was", "pic", "path", "seen"}
            /\ q.kind = "insert" /\ q.by = "import" /\ q.n = NewName /\ q.row = Nothing /\ q.seen = Current(db, q.of)
            /\ file' = Put(file, q.path, q.pic) /\ q.path.sub = "edits" /\ q.path.name = NewName
            /\ q.path = Path(q.path.dir, q.path.sub, q.path.name, q.path.ext)
    BY <1>2, ImportMakes
  <2>2. db' = db /\ s.kind = "insert" /\ s.seen = Current(db, s.of)
    BY <2>1
  <2> QED BY <2>2 DEF StillSo, Current
<1>3. ASSUME NEW a, NEW v \in DOMAIN db.version, SetCurrent(a, v) PROVE StillSo(s)'
  <2>1. \E q : /\ reqs' = reqs \cup {q} /\ count' = count + 1 /\ UNCHANGED <<db, file, thumb, session, editor>>
               /\ DOMAIN q = {"kind", "n", "by", "of", "row", "was"} /\ q.kind = "pick" /\ q.by = "set" /\ q.n = NewName
               /\ q.row = v /\ q.of = db.version[v].of /\ q.was = db.version[v].current
    BY <1>3, SetCurrentMakes
  <2>2. db' = db /\ s.kind = "pick" /\ s.was = db.version[s.row].current
    BY <2>1
  <2> QED BY <2>2 DEF StillSo
<1>4. ASSUME NEW r \in reqs, SiblingsRead(r) PROVE StillSo(s)' \/ ThreadDone(s.of)'
  <2>1. \E q : /\ r.kind = "pick" /\ reqs' = (reqs \ {r}) \cup {q} /\ UNCHANGED <<db, file, thumb, session, editor, count>>
               /\ DOMAIN q = DOMAIN r \cup {"seen"} /\ q.kind = "switch" /\ q.seen = Current(db, r.of)
               /\ q.n = r.n /\ q.by = r.by /\ q.of = r.of /\ q.row = r.row /\ q.was = r.was
               /\ \A x \in DOMAIN r : x # "kind" /\ x # "seen" => q[x] = r[x]
    BY <1>4, SiblingsReadMakes
  <2>2. /\ r.kind = "pick" /\ reqs \ {r} \subseteq reqs' /\ db' = db
        /\ s.kind = "switch" /\ s.seen = Current(db, s.of) /\ s.of = r.of /\ s.row = r.row /\ s.was = r.was
    BY <2>1
  <2>3. StillSo(r) \/ ThreadDone(r.of)
    BY <2>2 DEF ReadsOk, OnLoop
  <2>4. CASE StillSo(r)
    BY <2>2, <2>4 DEF StillSo, Current
  <2>5. CASE ThreadDone(r.of)
    BY <2>2, <2>5, ThreadStays
  <2> QED BY <2>3, <2>4, <2>5
<1>5. ASSUME NEW r \in reqs, CurrentRead(r) PROVE StillSo(s)'
  <2>1. PICK c : c = Current(db, r.of)
    OBVIOUS
  <2>2. PICK q : q = With([kind |-> "insert", seen |-> c], r)
    OBVIOUS
  <2>3. r.kind = "commit" /\ db' = db /\ reqs' = (reqs \ {r}) \cup {q}
    BY <1>5, <2>1, <2>2 DEF CurrentRead, GoesOn
  <2>4. "of" \in DOMAIN r
    BY <2>3 DEF EditInv, Fits, Shaped, Writing
  <2>5. q.kind = "insert" /\ q.seen = c /\ q.of = r.of
    BY <2>2, <2>4 DEF With
  <2>6. s.kind = "insert" /\ s.seen = Current(db, s.of)
    BY <2>1, <2>3, <2>5
  <2> QED BY <2>3, <2>6 DEF StillSo, Current
<1> QED BY <1>1, <1>2, <1>3, <1>4, <1>5, ReadersCome DEF NoReads

\* What was read is so still, or a thread has come in between.
LEMMA ReadsStay ==
  ASSUME EditInv, Next, NEW r \in reqs, r \in reqs', OnLoop(r), StillSo(r) \/ ThreadDone(r.of)
  PROVE  StillSo(r)' \/ ThreadDone(r.of)'
<1>0. ~Crash
  BY DEF Crash
<1>1. PICK q \in reqs : q.kind \in {"commit", "insert"} /\ q.by \in Threads /\ q \notin reqs'
  BY DEF Next, LoopKept
<1>2. {"by", "of", "kind", "row"} \subseteq DOMAIN q
  BY <1>1 DEF EditInv, NamesOk, Fits, Shaped, Writing
<1>3. r.kind # "insert" => r.row \in DOMAIN db.version /\ db.version[r.row].of = r.of
  BY DEF OnLoop, EditInv, Fits, Shaped
<1>4. Overwritten(q) \/ CurrentRead(q) \/ Inserted(q)
  <2>1. /\ Written(q) \/ TurnFile(q) \/ PhotoTurned(q) \/ CopyTurned(q) => q.kind \in {"write", "turn"}
        /\ VersionThumb(q) \/ ThumbsDropped(q) => q.kind \in {"thumb", "drop"}
    BY DEF Written, TurnFile, PhotoTurned, CopyTurned, VersionThumb, ThumbsDropped
  <2> QED BY <1>0, <1>1, <2>1, Actor
<1>5. reqs \ {q} \subseteq reqs'
  BY <1>4 DEF Overwritten, CurrentRead, Inserted, GoesOn
<1>6. CASE ThreadDone(r.of)
  BY <1>1, <1>5, <1>6, ThreadStays
<1>7. ASSUME \A v \in DOMAIN db.version : db'.version[v].current = db.version[v].current, Current(db', r.of) = Current(db, r.of),
             StillSo(r)
      PROVE  StillSo(r)'
  BY <1>3, <1>7 DEF StillSo, OnLoop
<1>8. CASE StillSo(r) /\ (Overwritten(q) \/ CurrentRead(q))
  <2>1. RowsStay
    <3>1. CurrentRead(q) => RowsStay
      BY DEF CurrentRead, RowsStay
    <3>2. ASSUME Overwritten(q) PROVE RowsStay
      BY <3>2, OverwrittenStays
    <3> QED BY <1>8, <3>1, <3>2
  <2>2. Current(db', r.of) = Current(db, r.of)
    BY <2>1 DEF RowsStay, Current
  <2> QED BY <1>7, <1>8, <2>1, <2>2 DEF RowsStay
<1>9. CASE StillSo(r) /\ Inserted(q) /\ q.of # r.of
  <2>1. PICK seen, row : seen = q.seen /\ row = Row(q)
    OBVIOUS
  <2>2. db' = AddVersion(db, seen, row) /\ row.current = TRUE /\ row.of = q.of
    BY <1>9, <2>1 DEF Inserted, Row
  <2>3. \A v \in seen \cap DOMAIN db.version : db.version[v].of = row.of
    BY <1>9, <2>1, <2>2 DEF Inserted, EditInv, Fits, Shaped
  <2>4. CurrentThen(seen, row.of, r.of)
    BY <2>2, <2>3, AddedCurrent
  <2>5. Current(db', r.of) = Current(db, r.of)
    BY <1>9, <2>2, <2>4 DEF CurrentThen
  <2>6. \A v \in DOMAIN db.version : db'.version[v].current = IF v \in seen THEN FALSE ELSE db.version[v].current
    BY <2>2, AddingAside
  <2>7. r.kind # "insert" => db'.version[r.row].current = db.version[r.row].current
    BY <1>3, <1>9, <2>2, <2>3, <2>6
  <2> QED BY <1>9, <2>5, <2>7 DEF StillSo
<1>10. CASE Inserted(q) /\ q.of = r.of
  <2>1. PICK row, kind : row = NewId(db.version) /\ kind = IF q.by = "upscale" THEN "clean" ELSE "thumb"
    OBVIOUS
  <2>2. PICK s : s = With([kind |-> kind, row |-> row], q)
    OBVIOUS
  <2>3. reqs' = (reqs \ {q}) \cup {s}
    BY <1>10, <2>1, <2>2 DEF Inserted, GoesOn
  <2>4. /\ s.kind = kind /\ "by" \in DOMAIN s
        /\ s.by = q.by /\ s.of = q.of
    BY <1>2, <2>2 DEF With
  <2>5. s \in reqs' /\ s.kind \in {"thumb", "clean"} /\ ThreadFor(r.of, s)
    BY <1>1, <1>10, <2>1, <2>3, <2>4 DEF ThreadFor
  <2> QED BY <2>5 DEF ThreadDone, ThreadFor
<1> QED BY <1>4, <1>6, <1>8, <1>9, <1>10

\* Requests on the event loop know the current version, unless a thread has come in between.
LEMMA ReadsInvariant == Spec => []ReadsOk
<1>1. Init => ReadsOk
  BY DEF Init, InitIn, ReadsOk
<1>2. EditInv /\ SessionsOk /\ ReadsOk /\ [Next]_<<vars, comfyVars>> => ReadsOk'
  <2>1. ASSUME UNCHANGED <<vars, comfyVars>>, ReadsOk PROVE ReadsOk'
    <3>1. UNCHANGED <<db, reqs>>
      BY <2>1 DEF vars
    <3> QED BY <2>1, <3>1 DEF ReadsOk, StillSo, ThreadDone, ThreadFor, OnLoop, Current
  <2>2. ASSUME EditInv, SessionsOk, ReadsOk, Next PROVE ReadsOk'
    <3>1. \A s \in reqs' : s \in reqs /\ OnLoop(s) => StillSo(s)' \/ ThreadDone(s.of)'
      BY <2>2, ReadsStay DEF ReadsOk
    <3>2. \A s \in reqs' : s \notin reqs /\ OnLoop(s) => StillSo(s)' \/ ThreadDone(s.of)'
      BY <2>2, ReadsCome
    <3> QED BY <3>1, <3>2 DEF ReadsOk, OnLoop, StillSo, ThreadDone, ThreadFor
  <2> QED BY <2>1, <2>2
<1> QED BY <1>1, <1>2, EditsInvariant, PTL DEF Spec

\* A request that has been overtaken has been overtaken by a thread, or is one's own.
LEMMA OvertakenByThread ==
  ASSUME EditInv, ReadsOk, NEW r \in reqs, r.kind \in {"insert", "switch"}, Overtaken(r)
  PROVE  \E q \in reqs : ThreadFor(r.of, q)
<1>1. CASE OnLoop(r)
  BY <1>1 DEF ReadsOk, StillSo, ThreadDone, Overtaken
<1>2. CASE ~OnLoop(r)
  <2>1. r.kind = "insert" /\ r.by \in Threads /\ "by" \in DOMAIN r
    BY <1>2 DEF OnLoop, EditInv, Fits, Shaped, Writing
  <2> QED BY <2>1 DEF ThreadFor
<1> QED BY <1>1, <1>2

\* Every step keeps one current version, unless a thread has come in between.
LEMMA CurrentStep ==
  ASSUME EditInv, ReadsOk, Next
  PROVE  OneCurrent
<1>1. SUFFICES ASSUME NEW t \in Targets(db'), t \in Targets(db) => Cardinality(Current(db, t)) = 1
               PROVE  \/ Cardinality(Current(db', t)) = 1
                      \/ /\ \E r \in reqs : (Inserted(r) \/ Switched(r)) /\ r.of = t /\ Overtaken(r)
                         /\ \E q \in reqs : ThreadFor(t, q)
  BY DEF OneCurrent
<1>2. CASE RowsStay
  <2>1. Current(db', t) = Current(db, t) /\ t \in Targets(db)
    BY <1>1, <1>2 DEF RowsStay, Current, Targets
  <2> QED BY <1>1, <2>1
<1>3. ASSUME NEW r \in reqs, Inserted(r)
      PROVE  Cardinality(Current(db', t)) = 1 \/ (r.of = t /\ Overtaken(r))
  <2>1. PICK seen, row : seen = r.seen /\ row = Row(r)
    OBVIOUS
  <2>2. db' = AddVersion(db, seen, row) /\ row.current = TRUE /\ row.of = r.of
    BY <1>3, <2>1 DEF Inserted, Row
  <2>3. \A v \in seen \cap DOMAIN db.version : db.version[v].of = row.of
    BY <1>3, <2>1, <2>2 DEF Inserted, EditInv, Fits, Shaped
  <2>4. CurrentThen(seen, r.of, t)
    BY <2>2, <2>3, AddedCurrent
  <2> QED BY <1>1, <2>1, <2>4 DEF CurrentThen, Overtaken
<1>4. ASSUME NEW r \in reqs, Switched(r)
      PROVE  Cardinality(Current(db', t)) = 1 \/ (r.of = t /\ Overtaken(r))
  <2>1. /\ r.kind = "switch" /\ r.row \in DOMAIN db.version /\ db.version[r.row].of = r.of
        /\ \A v \in r.seen : v \in DOMAIN db.version /\ db.version[v].of = r.of
    BY <1>4 DEF Switched, EditInv, Fits, Shaped
  <2>2. /\ DOMAIN db'.version = DOMAIN db.version
        /\ \A w \in DOMAIN db.version : db'.version[w].of = db.version[w].of /\ (db'.version[w].current <=> FlagThen(r, w))
    BY <1>4, SwitchedRows DEF SwitchRows, EditInv, RowsOk
  <2>3. CASE t = r.of /\ ~Overtaken(r)
    <3>1. r.seen = Current(db, t) /\ r.was = db.version[r.row].current
      BY <2>1, <2>3 DEF Overtaken
    <3>2. \A w \in DOMAIN db.version : db.version[w].of = t => (FlagThen(r, w) <=> w = r.row)
      BY <2>1, <3>1 DEF FlagThen, Current
    <3>3. Current(db', t) = {r.row}
      BY <2>1, <2>2, <2>3, <3>2 DEF Current
    <3> QED BY <3>3, FS_Singleton
  <2>4. CASE t # r.of
    <3>1. \A w \in DOMAIN db.version : db.version[w].of = t => (FlagThen(r, w) <=> db.version[w].current)
      BY <2>1, <2>4 DEF FlagThen
    <3>2. Current(db', t) = Current(db, t)
      BY <2>2, <3>1 DEF Current
    <3>3. t \in Targets(db)
      BY <1>1, <2>2 DEF Targets
    <3> QED BY <1>1, <3>2, <3>3
  <2> QED BY <2>3, <2>4
<1>5. ASSUME NEW r \in reqs, Inserted(r) \/ Switched(r), r.of = t, Overtaken(r)
      PROVE  \E q \in reqs : ThreadFor(t, q)
  <2>1. r.kind \in {"insert", "switch"}
    BY <1>5 DEF Inserted, Switched
  <2> QED BY <1>5, <2>1, OvertakenByThread
<1> QED BY <1>2, <1>3, <1>4, <1>5, RowsChange

\* A version keeps its file and what was saved in it, and one of the versions of an instance
\* or a face is the current one (VersionsKept): the disk and the rows of the editor agree
\* after any saves, conversions, turns, bulk edits, imports and runs of ComfyUI, whichever requests
\* are under way on the event loop; of a thread's commit between another's read and commit this is
\* not so.
THEOREM EditsKeepVersions == Spec => VersionsKept
<1> DEFINE Body == FilesKept /\ OneCurrent
<1>1. EditInv /\ SessionsOk /\ ReadsOk /\ (EditInv /\ SessionsOk)' /\ [Next]_<<vars, comfyVars>> => [Body]_vars
  <2>1. ASSUME EditInv, SessionsOk, ReadsOk, EditInv', Next PROVE Body
    BY <2>1, FilesStep, CurrentStep
  <2>2. UNCHANGED <<vars, comfyVars>> => UNCHANGED vars
    OBVIOUS
  <2> QED BY <2>1, <2>2
<1>2. VersionsKept <=> [][Body]_vars
  BY PTL DEF VersionsKept
<1> HIDE DEF Body
<1> QED BY <1>1, <1>2, EditsInvariant, ReadsInvariant, PTL DEF Spec

-----------------------------------------------------------------------------
(* Crops of faces found in versions.                                         *)

\* The faces that are found in a version.
Founds == {<<>>, <<"new">>, <<"known">>, <<"new", "new">>}

\* They are few.
LEMMA FoundsFinite ==
  ASSUME NEW found \in Founds
  PROVE  IsFiniteSet(DOMAIN found)
<1>1. DOMAIN found \in {1..0, 1..1, 1..2}
  BY DEF Founds
<1>2. IsFiniteSet(1..0) /\ IsFiniteSet(1..1) /\ IsFiniteSet(1..2)
  BY FS_Interval, 0 \in Int, 1 \in Int, 2 \in Int
<1> QED BY <1>1, <1>2

\* The crops' rows stay, and no file of the folder of unknown faces goes.
CropsStay ==
    /\ db'.derived = db.derived
    /\ \A x \in DOMAIN file : x.sub = "faces" /\ x.dir = "_unknown" => x \in DOMAIN file'

\* A step that changes other tables leaves the rows of crops.
LEMMA OtherField ==
  ASSUME EditInv, NEW S, "derived" \notin S, \A x \in DOMAIN db \ S : db'[x] = db[x]
  PROVE  db'.derived = db.derived
BY DEF EditInv, RowsOk

\* So does a new version.
LEMMA AddingCrops ==
  ASSUME EditInv, NEW seen, NEW row, db' = AddVersion(db, seen, row)
  PROVE  db'.derived = db.derived
<1>1. PICK d : d = db'
  OBVIOUS
<1>2. RowsOk /\ d = AddVersion(db, seen, row)
  BY <1>1 DEF EditInv
<1>3. OneMore(d, seen, row)
  BY <1>2, Adding
<1>4. \A x \in DOMAIN db \ {"version"} : db'[x] = db[x]
  BY <1>1, <1>3 DEF OneMore
<1> QED BY <1>4, OtherField

\* That is so but for the step that looks for faces.
LEMMA CropsChange ==
  ASSUME EditInv, Next
  PROVE  CropsStay \/ \E r \in reqs : \E found \in Founds : Dedupe(r, found)
<1>1. UNCHANGED <<db, file>> => CropsStay
  BY DEF CropsStay
<1>2. ASSUME NEW x, NEW pic, file' = Put(file, x, pic), db'.derived = db.derived PROVE CropsStay
  BY <1>2 DEF CropsStay, Put
<1>3. ASSUME NEW r \in reqs, Written(r) PROVE CropsStay
  BY <1>2, <1>3 DEF Written
<1>4. ASSUME NEW r \in reqs, Overwritten(r) PROVE CropsStay
  <2>1. \A x \in DOMAIN db \ {"version"} : db'[x] = db[x]
    BY <1>4, OverwrittenRows
  <2>2. r.was.sub = "edits" /\ file' = IF r.was # r.path THEN [x \in DOMAIN file \ {r.was} |-> file[x]] ELSE file
    BY <1>4 DEF Overwritten, EditInv, Fits, Shaped
  <2>3. db'.derived = db.derived
    BY <2>1, OtherField
  <2> QED BY <2>2, <2>3 DEF CropsStay
<1>5. ASSUME NEW r \in reqs, Inserted(r) PROVE CropsStay
  <2>1. PICK seen, row : db' = AddVersion(db, seen, row)
    BY <1>5 DEF Inserted
  <2>2. file' = file
    BY <1>5 DEF Inserted
  <2> QED BY <2>1, <2>2, AddingCrops DEF CropsStay
<1>6. ASSUME NEW a, ImportVersion(a) PROVE CropsStay
  <2>1. db' = db /\ \E s : file' = Put(file, s.path, s.pic)
    BY <1>6, ImportMakes
  <2> QED BY <1>2, <2>1
<1>7. ASSUME NEW r \in reqs, Switched(r) PROVE CropsStay
  <2>1. file' = file /\ \A x \in DOMAIN db \ {"version"} : db'[x] = db[x]
    BY <1>7, SwitchedRows DEF SwitchRows, Switched
  <2> QED BY <2>1, OtherField DEF CropsStay
<1>8. ASSUME NEW r \in reqs, TurnFile(r) PROVE CropsStay
  <2>1. db' = db /\ (file' = file \/ \E x, pic : file' = [file EXCEPT ![x] = pic])
    BY <1>8 DEF TurnFile
  <2> QED BY <2>1 DEF CropsStay
<1>9. ASSUME NEW r \in reqs, PhotoTurned(r) PROVE CropsStay
  BY <1>9, PhotoTurnedRows DEF CropsStay
<1>10. ASSUME NEW r \in reqs, CopyTurned(r) PROVE CropsStay
  <2>1. file' = file /\ \A x \in DOMAIN db \ {"version"} : db'[x] = db[x]
    BY <1>10, CopyTurnedRows
  <2> QED BY <2>1, OtherField DEF CropsStay
<1>11. ASSUME NEW i \in Inst, TrashOrRestore(i) PROVE CropsStay
  <2>1. \A x \in DOMAIN db \ {"inst"} : db'[x] = db[x]
    BY <1>11, TrashMoves
  <2>2. \E x, y : /\ x.sub \in {"photos", "trash"}
                  /\ file' = [z \in (DOMAIN file \ {x}) \cup {y} |-> IF z = y THEN file[x] ELSE file[z]]
    <3>1. PICK x : x = db.inst[i].path
      OBVIOUS
    <3>2. x.sub \in {"photos", "trash"}
      BY <3>1 DEF EditInv, RowsOk
    <3>3. \E y : file' = [z \in (DOMAIN file \ {x}) \cup {y} |-> IF z = y THEN file[x] ELSE file[z]]
      BY <1>11, <3>1 DEF TrashOrRestore
    <3> QED BY <3>2, <3>3
  <2>3. db'.derived = db.derived
    BY <2>1, OtherField
  <2> QED BY <2>2, <2>3 DEF CropsStay
<1>12. ASSUME Renaming PROVE CropsStay
  <2>1. PICK dir : RenameFolder(dir, "renamed")
    BY <1>12 DEF Renaming
  <2>2. \A x \in DOMAIN db \ {"inst", "crop"} : db'[x] = db[x]
    BY <2>1, RenameRows
  <2>3. db'.derived = db.derived
    BY <2>2, OtherField
  <2>4. dir # "_unknown" /\ DOMAIN file' = {Moved(z, dir, "renamed") : z \in DOMAIN file}
    BY <2>1 DEF RenameFolder
  <2>5. ASSUME NEW x \in DOMAIN file, x.dir = "_unknown" PROVE x \in DOMAIN file'
    <3>1. Moved(x, dir, "renamed") = x
      BY <2>4, <2>5 DEF Moved
    <3> QED BY <2>4, <3>1
  <2> QED BY <2>3, <2>5 DEF CropsStay
<1>13. ASSUME NEW a, NEW pic, NEW path, NEW auto, NewPhoto(a, pic, path, auto) PROVE db'.derived = db.derived
  <2>1. \A x \in DOMAIN db \ {"ledger"} : db'[x] = db[x]
    BY <1>13, NewPhotoRows
  <2> QED BY <2>1, OtherField
<1>14. ASSUME NEW r \in reqs, FetchForPhoto(r) \/ Checked(r) \/ Added(r) PROVE CropsStay
  <2>1. CASE FetchForPhoto(r)
    <3>1. db' = db /\ (file' = file \/ \E x, pic : file' = Put(file, x, pic))
      BY <2>1 DEF FetchForPhoto
    <3> QED BY <1>1, <1>2, <3>1
  <2>2. CASE Checked(r)
    <3>1. r.path.sub = "edits"
      BY <2>2 DEF Checked, EditInv, Fits, Shaped
    <3> QED BY <2>2, <3>1 DEF Checked, Without, CropsStay
  <2>3. CASE Added(r)
    BY <1>13, <2>3 DEF Added, CropsStay
  <2> QED BY <1>14, <2>1, <2>2, <2>3
<1>15. ASSUME NEW a, NEW q, ImportResult(a, q) PROVE CropsStay
  <2>1. db'.derived = db.derived
    BY <1>13, <1>15 DEF ImportResult
  <2>2. \E x, pic : file' = Put(file, x, pic)
    BY <1>15 DEF ImportResult
  <2> QED BY <1>2, <2>1, <2>2
<1>16. ASSUME Requests PROVE CropsStay
  <2>1. ASSUME NEW k PROVE (\E op \in Ops : ApplyStart(k, op)) \/ (\E seq : Rollback(k, seq)) \/ (\E mode : Save(k, mode)) => UNCHANGED <<db, file>>
    BY DEF ApplyStart, Rollback, Save
  <2>2. (\E S, op : BulkEdit(S, op)) \/ (\E t : GetThumbnail(t)) \/ (\E a, v : SetCurrent(a, v)) => UNCHANGED <<db, file>>
    BY DEF BulkEdit, GetThumbnail, ThumbMiss, SetCurrent
  <2> QED BY <1>1, <1>6, <1>11, <1>16, <2>1, <2>2 DEF Requests
<1>17. ASSUME Steps PROVE CropsStay \/ \E r \in reqs : \E found \in Founds : Dedupe(r, found)
  <2>1. PICK r \in reqs :
           \/ ApplyDone(r)
           \/ Rendered(r) \/ Written(r) \/ Overwritten(r) \/ CurrentRead(r) \/ Inserted(r) \/ VersionThumb(r)
           \/ \E found \in Founds : Dedupe(r, found)
           \/ TurnFile(r) \/ PhotoTurned(r) \/ ThumbsDropped(r) \/ CopyTurned(r)
           \/ BulkNext(r) \/ SiblingsRead(r) \/ Switched(r) \/ ThumbStored(r)
    BY <1>17 DEF Steps, Founds
  <2>2. ApplyDone(r) \/ Rendered(r) \/ CurrentRead(r) \/ VersionThumb(r) \/ ThumbsDropped(r)
        \/ BulkNext(r) \/ SiblingsRead(r) \/ ThumbStored(r) => UNCHANGED <<db, file>>
    BY DEF ApplyDone, Rendered, CurrentRead, VersionThumb, ThumbsDropped, BulkNext, SiblingsRead, ThumbStored
  <2> QED BY <1>1, <1>3, <1>4, <1>5, <1>7, <1>8, <1>9, <1>10, <2>1, <2>2
<1>18. ASSUME ComfyRequests PROVE CropsStay
  <2>1. (\E run : RunWorkflow(run) \/ RunDefaultWorkflow(run)) \/ (\E s : PutSettings(s)) => UNCHANGED <<db, file>>
    BY DEF RunWorkflow, RunDefaultWorkflow, EnqueueRuns, PutSettings
  <2> QED BY <1>1, <1>15, <1>18, <2>1 DEF ComfyRequests
<1>19. ASSUME ComfySteps PROVE CropsStay
  <2>1. PICK r \in reqs : \/ RunStarts(r) \/ Upload(r) \/ SubmitPrompt(r) \/ OutputFound(r) \/ TimedOut(r)
                          \/ FetchForFace(r) \/ FetchForPhoto(r) \/ Checked(r) \/ Added(r) \/ Cleaned(r)
    BY <1>19 DEF ComfySteps
  <2>2. RunStarts(r) \/ Upload(r) \/ SubmitPrompt(r) \/ OutputFound(r) \/ TimedOut(r) \/ FetchForFace(r) \/ Cleaned(r)
        => UNCHANGED <<db, file>>
    BY DEF RunStarts, Upload, SubmitPrompt, OutputFound, TimedOut, FetchForFace, Cleaned
  <2> QED BY <1>1, <1>14, <2>1, <2>2
<1>20. Crash \/ (\E p : Rendering(p)) \/ ComfyStops \/ ComfyStarts => UNCHANGED <<db, file>>
  BY DEF Crash, Rendering, ComfyStops, ComfyStarts, vars
<1> QED BY <1>1, <1>12, <1>16, <1>17, <1>18, <1>19, <1>20 DEF Next

-----------------------------------------------------------------------------
(* A crop for each face found.                                               *)

\* There are as many crops as rows of crops if no two rows have the same one.
LEMMA AsManyCrops ==
  ASSUME NEW D, IsFiniteSet(D)
  PROVE  Cardinality({c.crop : c \in D}) = Cardinality(D) <=> \A c, e \in D : c.crop = e.crop => c = e
<1>1. PICK T : T = {c.crop : c \in D}
  OBVIOUS
<1>2. PICK f : f = [c \in D |-> c.crop]
  OBVIOUS
<1>3. f \in Surjection(D, T)
  BY <1>1, <1>2 DEF Surjection
<1>4. Cardinality(T) = Cardinality(D) <=> f \in Injection(D, T)
  BY <1>3, FS_Surjection
<1>5. f \in Injection(D, T) <=> \A c, e \in D : c.crop = e.crop => c = e
  <2>1. f \in [D -> T]
    BY <1>1, <1>2
  <2>2. (\A c, e \in DOMAIN f : f[c] = f[e] => c = e) <=> \A c, e \in D : c.crop = e.crop => c = e
    BY <1>2
  <2> QED BY <2>1, <2>2 DEF Injection, IsInjective
<1> QED BY <1>1, <1>4, <1>5

\* Each row of a face found in a version has a crop of its own, and its file.
OwnCrops(d, files) ==
    /\ \A c \in d.derived : c.crop \in files
    /\ \A c, e \in d.derived : c.crop = e.crop => c = e

\* This is what CropsApart counts.
LEMMA OwnCropsCounted ==
  ASSUME NEW d, NEW files, IsFiniteSet(d.derived)
  PROVE  OwnCrops(d, files) <=> CropsOf(d) \subseteq files /\ Cardinality(CropsOf(d)) = Cardinality(d.derived)
<1>1. PICK D : D = d.derived
  OBVIOUS
<1>2. Cardinality({c.crop : c \in D}) = Cardinality(D) <=> \A c, e \in D : c.crop = e.crop => c = e
  BY <1>1, AsManyCrops
<1>3. {c.crop : c \in D} \subseteq files <=> \A c \in D : c.crop \in files
  OBVIOUS
<1> QED BY <1>1, <1>2, <1>3 DEF OwnCrops, CropsOf

\* Faces that are found in a version get crops apart from those of other versions.
LEMMA DedupeCrops ==
  ASSUME EditInv, NEW r \in reqs, NEW found \in Founds, Dedupe(r, found), OwnCrops(db, DOMAIN file)
  PROVE  OwnCrops(db', DOMAIN file') \/ (r.kind = "dedupe" /\ r \notin reqs' /\ \E x \in CropsOf(db) : x.name[1] = r.row)
<1>1. r.kind = "dedupe" /\ r \notin reqs'
  BY DEF Dedupe, Over
<1>2. CASE UNCHANGED <<db, file>>
  BY <1>2
<1>3. SUFFICES ASSUME ~UNCHANGED <<db, file>>, \A c \in db.derived : c.crop.name[1] # r.row
               PROVE  OwnCrops(db', DOMAIN file')
  BY <1>1, <1>2 DEF CropsOf
<1>4. PICK Made, Gone, News :
          /\ Made = {CropName(r.row, j) : j \in {i \in DOMAIN found : found[i] = "new"}}
          /\ Gone = {CropName(r.row, j) : j \in {i \in DOMAIN found : found[i] = "known"}}
          /\ News = {[crop |-> CropName(r.row, j), found |-> Append(r.n, j)] : j \in {i \in DOMAIN found : found[i] = "new"}}
  OBVIOUS
<1>5. /\ file' = With([x \in Made |-> file[db.version[r.row].path]], [x \in DOMAIN file \ Gone |-> file[x]])
      /\ db' = [db EXCEPT !.derived = @ \cup News]
  BY <1>3, <1>4 DEF Dedupe
<1>6. DOMAIN file' = Made \cup (DOMAIN file \ Gone)
  BY <1>5 DEF With
<1>7. db'.derived = db.derived \cup News
  BY <1>5 DEF EditInv, RowsOk
<1>8. ASSUME NEW j PROVE CropName(r.row, j).name = <<r.row, j>>
  BY DEF CropName, Path
<1>9. ASSUME NEW j PROVE CropName(r.row, j).name[1] = r.row
  BY <1>8
<1>10. ASSUME NEW c \in News PROVE c.crop.name[1] = r.row /\ c.crop \in Made
  BY <1>4, <1>9, <1>10
<1>11. ASSUME NEW c \in News, NEW e \in News, c.crop = e.crop PROVE c = e
  <2>1. PICK j : c = [crop |-> CropName(r.row, j), found |-> Append(r.n, j)]
    BY <1>4, <1>11
  <2>2. PICK i : e = [crop |-> CropName(r.row, i), found |-> Append(r.n, i)]
    BY <1>4, <1>11
  <2>3. <<r.row, j>> = <<r.row, i>>
    BY <1>8, <1>11, <2>1, <2>2
  <2> QED BY <2>1, <2>2, <2>3
<1>12. ASSUME NEW c \in db.derived PROVE c.crop \in DOMAIN file'
  <2>1. c.crop \notin Gone
    BY <1>3, <1>4, <1>9
  <2> QED BY <1>6, <2>1 DEF OwnCrops
<1> QED BY <1>3, <1>6, <1>7, <1>10, <1>11, <1>12 DEF OwnCrops

\* Every step keeps the crops apart.
LEMMA CropsStep ==
  ASSUME EditInv, EditInv', Next, OwnCrops(db, DOMAIN file)
  PROVE  \/ OwnCrops(db', DOMAIN file')
         \/ \E r \in reqs : r.kind = "dedupe" /\ r \notin reqs' /\ \E x \in CropsOf(db) : x.name[1] = r.row
<1>1. CASE CropsStay
  <2>1. \A c \in db.derived : c.crop.dir = "_unknown" /\ c.crop.sub = "faces"
    BY DEF EditInv, RowsOk
  <2> QED BY <1>1, <2>1 DEF CropsStay, OwnCrops
<1>2. ASSUME NEW r \in reqs, NEW found \in Founds, Dedupe(r, found)
      PROVE  OwnCrops(db', DOMAIN file') \/ (r.kind = "dedupe" /\ r \notin reqs' /\ \E x \in CropsOf(db) : x.name[1] = r.row)
  BY <1>2, DedupeCrops
<1> QED BY <1>1, <1>2, CropsChange

\* Every face found in a version has a crop of its own (CropsApart): whatever versions are looked
\* at, in any order and with other requests between, none writes over the crop of another.
THEOREM EditsKeepCropsApart == Spec => CropsApart
<1> DEFINE Counted(d, files) == CropsOf(d) \subseteq files /\ Cardinality(CropsOf(d)) = Cardinality(d.derived)
           Body == Counted(db, DOMAIN file) =>
                      \/ Counted(db', DOMAIN file')
                      \/ \E r \in reqs : r.kind = "dedupe" /\ r \notin reqs' /\ \E x \in CropsOf(db) : x.name[1] = r.row
<1>1. EditInv /\ SessionsOk /\ (EditInv /\ SessionsOk)' /\ [Next]_<<vars, comfyVars>> => [Body]_vars
  <2>1. ASSUME EditInv, EditInv', Next PROVE Body
    <3>1. IsFiniteSet(db.derived)
      BY <2>1 DEF EditInv, RowsOk
    <3>2. OwnCrops(db, DOMAIN file) <=> Counted(db, DOMAIN file)
      BY <3>1, OwnCropsCounted
    <3>3. IsFiniteSet(db'.derived)
      BY <2>1 DEF EditInv, RowsOk
    <3>4. OwnCrops(db', DOMAIN file') <=> Counted(db', DOMAIN file')
      BY <3>3, OwnCropsCounted
    <3> QED BY <2>1, <3>2, <3>4, CropsStep
  <2>2. UNCHANGED <<vars, comfyVars>> => UNCHANGED vars
    OBVIOUS
  <2> QED BY <2>1, <2>2
<1>2. CropsApart <=> [][Body]_vars
  BY PTL DEF CropsApart
<1> HIDE DEF Body
<1> QED BY <1>1, <1>2, EditsInvariant, PTL DEF Spec

-----------------------------------------------------------------------------
(* Editors.  What a step asks for.                                           *)

\* A picture that a save has rendered is the one the editor showed.
Shown(s) == s.kind = "write" /\ s.by = "save" /\ s.smooth /\ file[s.source] = s.basis => s.pic = s.shown

\* The requests that are made or go on in this step apply nothing, and recall what was shown.
Begun(s) == s.kind # "apply" /\ Recalls(s) /\ Shown(s)

\* A step begins such requests only.
Begins == \A s \in reqs' \ reqs : Begun(s)

\* The kinds of requests that carry operations or a picture.
Editing == {"apply", "render", "turn", "write"}

\* Most are of other kinds.
LEMMA OtherBegun ==
  ASSUME NEW s, s.kind \notin Editing
  PROVE  Begun(s)
BY DEF Begun, Recalls, Shown, Editing

\* A request that goes on as one of another kind.
LEMMA GoesOnBegins ==
  ASSUME NEW r, NEW w, GoesOn(r, w), "kind" \in DOMAIN w, w.kind \notin Editing
  PROVE  Begins
<1>1. PICK s : s = With(w, r)
  OBVIOUS
<1>2. s.kind \notin Editing /\ reqs' = (reqs \ {r}) \cup {s}
  BY <1>1 DEF GoesOn, With
<1> QED BY <1>2, OtherBegun DEF Begins

\* One that is over.
LEMMA OverBegins ==
  ASSUME NEW r, Over(r)
  PROVE  Begins
BY DEF Over, Begins

\* A new one.
LEMMA NewBegins ==
  ASSUME NEW q, New(q), "n" \notin DOMAIN q, "kind" \in DOMAIN q, q.kind \notin Editing
  PROVE  Begins
<1>1. PICK s : reqs' = reqs \cup {s} /\ \A x \in DOMAIN q : s[x] = q[x]
  BY Named
<1>2. s.kind \notin Editing
  BY <1>1
<1> QED BY <1>1, <1>2, OtherBegun DEF Begins

\* The steps of ComfyUI's runs and of imports.
LEMMA ComfyBegins ==
  ASSUME EditInv, ComfyRequests \/ ComfySteps
  PROVE  Begins
<1>1. ASSUME NEW k, NEW run, NEW targets, NEW node, EnqueueRuns(k, run, targets, node) PROVE Begins
  <2>1. \E S : /\ reqs' = reqs \cup S /\ count' = count + 1 /\ UNCHANGED <<db, file, thumb, session, editor, comfyVars>>
               /\ \A s \in S : /\ {"kind", "n", "target"} \subseteq DOMAIN s /\ s.n[1] = count + 1 /\ s.kind = "queued"
                               /\ {"job", "key"} \cap DOMAIN s = {}
               /\ \A s, t \in S : s.n = t.n => s = t
    BY <1>1, EnqueueMakes
  <2>2. PICK S : reqs' = reqs \cup S /\ \A s \in S : s.kind = "queued"
    BY <2>1
  <2>3. \A s \in S : s.kind \notin Editing
    BY <2>2 DEF Editing
  <2> QED BY <2>2, <2>3, OtherBegun DEF Begins
<1>2. CASE ComfyRequests
  <2>1. \A run : RunWorkflow(run) \/ RunDefaultWorkflow(run) => Begins
    BY <1>1 DEF RunWorkflow, RunDefaultWorkflow
  <2>2. (\E s : PutSettings(s)) \/ (\E a, q : ImportResult(a, q)) => Begins
    BY DEF PutSettings, ImportResult, Begins
  <2> QED BY <1>2, <2>1, <2>2 DEF ComfyRequests
<1>3. ASSUME NEW r \in reqs, RunStarts(r) PROVE Begins
  <2> DEFINE w == [kind |-> "upload", sent |-> <<>>, next |-> 1, paths |-> [j \in DOMAIN r.inputs |-> PathOfInput(r.inputs[j])]]
  <2>1. GoesOn(r, w)
    BY <1>3 DEF RunStarts
  <2>2. "kind" \in DOMAIN w /\ w.kind \notin Editing
    BY DEF Editing
  <2> HIDE DEF w
  <2> QED BY <2>1, <2>2, GoesOnBegins
<1>4. ASSUME NEW r \in reqs, Upload(r) PROVE Begins
  <2>1. r.kind = "upload" /\ "kind" \in DOMAIN r
    BY <1>4 DEF Upload, EditInv, NamesOk
  <2>2. Over(r) \/ \E sent, next : GoesOn(r, [sent |-> sent, next |-> next])
    BY <1>4 DEF Upload
  <2>3. ASSUME NEW sent, NEW next, GoesOn(r, [sent |-> sent, next |-> next]) PROVE Begins
    <3>1. PICK s : s = With([sent |-> sent, next |-> next], r)
      OBVIOUS
    <3>2. s.kind = "upload"
      BY <2>1, <3>1 DEF With
    <3>3. reqs' = (reqs \ {r}) \cup {s} /\ s.kind \notin Editing
      BY <2>3, <3>1, <3>2 DEF GoesOn, Editing
    <3> QED BY <3>3, OtherBegun DEF Begins
  <2> QED BY <2>2, <2>3, OverBegins
<1>5. ASSUME NEW r \in reqs, SubmitPrompt(r) PROVE Begins
  <2> DEFINE w == [kind |-> "wait", prompt |-> Len(comfy.prompts) + 1]
  <2>1. GoesOn(r, w) \/ Over(r)
    BY <1>5 DEF SubmitPrompt
  <2>2. "kind" \in DOMAIN w /\ w.kind \notin Editing
    BY DEF Editing
  <2> HIDE DEF w
  <2> QED BY <2>1, <2>2, GoesOnBegins, OverBegins
<1>6. ASSUME NEW r \in reqs, OutputFound(r) PROVE Begins
  <2> DEFINE w == [kind |-> "fetch", name |-> CHOOSE q \in Listed(r.prompt, r.node) : TRUE]
  <2>1. GoesOn(r, w)
    BY <1>6 DEF OutputFound
  <2>2. "kind" \in DOMAIN w /\ w.kind \notin Editing
    BY DEF Editing
  <2> HIDE DEF w
  <2> QED BY <2>1, <2>2, GoesOnBegins
<1>7. ASSUME NEW r \in reqs, FetchForFace(r) PROVE Begins
  <2> DEFINE w == [kind |-> "write", by |-> "upscale", of |-> r.target, parent |-> Nothing, row |-> Nothing, was |-> Nothing,
                   pic |-> comfy.output[r.name], path |-> Path(DirOf(db, r.target), "edits", r.n, "png")]
  <2>1. GoesOn(r, w) \/ Over(r)
    BY <1>7 DEF FetchForFace
  <2>2. {"kind", "by"} \subseteq DOMAIN w /\ w.kind = "write" /\ w.by = "upscale"
    OBVIOUS
  <2> HIDE DEF w
  <2>3. ASSUME GoesOn(r, w) PROVE Begins
    <3>1. PICK s : s = With(w, r)
      OBVIOUS
    <3>2. s.kind = "write" /\ s.by = "upscale"
      BY <2>2, <3>1 DEF With
    <3>3. reqs' = (reqs \ {r}) \cup {s}
      BY <2>3, <3>1 DEF GoesOn
    <3>4. Begun(s)
      BY <3>2 DEF Begun, Recalls, Shown
    <3> QED BY <3>3, <3>4 DEF Begins
  <2> QED BY <2>1, <2>3, OverBegins
<1>8. ASSUME NEW r \in reqs, FetchForPhoto(r) PROVE Begins
  <2> DEFINE w == [kind |-> "check", pic |-> comfy.output[r.name], path |-> EditPath(r.target[2], r.n)]
  <2>1. GoesOn(r, w) \/ Over(r)
    BY <1>8 DEF FetchForPhoto
  <2>2. "kind" \in DOMAIN w /\ w.kind \notin Editing
    BY DEF Editing
  <2> HIDE DEF w
  <2> QED BY <2>1, <2>2, GoesOnBegins, OverBegins
<1>9. ASSUME NEW r \in reqs, Checked(r) \/ Added(r) \/ Cleaned(r) \/ TimedOut(r) PROVE Begins
  <2>1. Over(r) \/ GoesOn(r, [kind |-> "add"]) \/ GoesOn(r, [kind |-> "clean"]) \/ GoesOn(r, [kind |-> "thumb"])
    BY <1>9 DEF Checked, Added, Cleaned, TimedOut
  <2>2. ASSUME NEW kind \in {"add", "clean", "thumb"}, GoesOn(r, [kind |-> kind]) PROVE Begins
    BY <2>2, GoesOnBegins DEF Editing
  <2> QED BY <2>1, <2>2, OverBegins
<1>10. CASE ComfySteps
  <2>1. PICK r \in reqs : \/ RunStarts(r) \/ Upload(r) \/ SubmitPrompt(r) \/ OutputFound(r) \/ TimedOut(r)
                          \/ FetchForFace(r) \/ FetchForPhoto(r) \/ Checked(r) \/ Added(r) \/ Cleaned(r)
    BY <1>10 DEF ComfySteps
  <2> QED BY <1>3, <1>4, <1>5, <1>6, <1>7, <1>8, <1>9, <2>1
<1> QED BY <1>2, <1>10

-----------------------------------------------------------------------------
(* What is saved is what the editor showed.                                  *)

\* The operations of steps that are numbered without a gap.
LEMMA OpsInOrder ==
  ASSUME NEW n \in Nat, NEW steps, DOMAIN steps = 1..n
  PROVE  OpsOf(steps) = [j \in 1..n |-> steps[j].op]
<1>1. ASSUME NEW k \in 1..n PROVE Cardinality({i \in DOMAIN steps : i < k}) = k - 1
  <2>1. {i \in DOMAIN steps : i < k} = 1..(k - 1)
    BY <1>1
  <2>2. Cardinality(1..(k - 1)) = k - 1
    BY <1>1, FS_Interval, 1 \in Int, k - 1 \in Int
  <2> QED BY <2>1, <2>2
<1>2. Cardinality(DOMAIN steps) = n
  BY FS_Interval, 1 \in Int, n \in Int
<1>3. ASSUME NEW j \in 1..n PROVE Nth(steps, j) = j
  <2>1. \A k \in DOMAIN steps : Cardinality({i \in DOMAIN steps : i < k}) = j - 1 <=> k = j
    BY <1>1, <1>3
  <2> QED BY <1>3, <2>1 DEF Nth
<1> QED BY <1>2, <1>3 DEF OpsOf

\* The highest number of steps that are numbered without a gap.
LEMMA Highest ==
  ASSUME NEW n \in Nat
  PROVE  Max((1..n) \cup {0}) = n
<1>1. n \in (1..n) \cup {0} /\ \A y \in (1..n) \cup {0} : n >= y
  OBVIOUS
<1>2. \A x \in (1..n) \cup {0} : (\A y \in (1..n) \cup {0} : x >= y) <=> x = n
  OBVIOUS
<1> QED BY <1>1, <1>2 DEF Max

\* A save recalls what the editor shows.
LEMMA SaveBegins ==
  ASSUME EditInv, SessionsOk, EditorsOk, NEW k, NEW mode, Save(k, mode)
  PROVE  Begins
<1>1. PICK s : /\ reqs' = reqs \cup {s} /\ count' = count + 1 /\ UNCHANGED <<db, file, thumb, session, editor>>
               /\ {"kind", "n", "ops", "key", "shown", "basis", "smooth"} \subseteq DOMAIN s /\ "job" \notin DOMAIN s /\ s.n = NewName
               /\ s.key = k /\ s.shown = editor[k].shows /\ s.basis = editor[k].basis
               /\ s.smooth = Settled(k)
               /\ s.ops = OpsOf(session[k].steps) /\ k \in DOMAIN editor /\ editor[k].seq > 0
               /\ Shaped(s) /\ s.kind \in {"render", "turn"} /\ Claims(s) \subseteq {s.n}
               /\ s.kind = "turn" /\ s.target[1] = "version" => s.done = {} /\ s.paths[0] = db.version[s.target[2]].path
  BY SaveMakes
<1>2. /\ reqs' = reqs \cup {s} /\ s.kind \in {"render", "turn"}
      /\ {"kind", "n", "ops", "key", "shown", "basis", "smooth"} \subseteq DOMAIN s
      /\ s.shown = editor[k].shows /\ s.basis = editor[k].basis /\ s.ops = OpsOf(session[k].steps)
      /\ k \in DOMAIN editor /\ editor[k].seq > 0
  BY <1>1, Zenon
<1>3. s.smooth => Settled(k)
  BY <1>1, Zenon
<1>4. ASSUME s.smooth PROVE s.shown = Render(s.basis, s.ops)
  <2>1. PICK e, steps : e = editor[k] /\ steps = session[k].steps
    OBVIOUS
  <2>2. e.smooth
    BY <1>3, <1>4, <2>1 DEF Settled
  <2>3. /\ e.seq \in Nat /\ DOMAIN steps = 1..e.seq /\ e.shows = (IF e.seq = 0 THEN Nothing ELSE steps[e.seq].shows)
        /\ \A j \in 1..e.seq : steps[j].shows = Render(e.basis, [i \in 1..j |-> steps[i].op])
    <3>1. Straight(k)
      BY <1>2 DEF EditorsOk
    <3> QED BY <2>1, <2>2, <3>1 DEF Straight
  <2>4. OpsOf(steps) = [i \in 1..e.seq |-> steps[i].op]
    BY <2>3, OpsInOrder
  <2>5. e.shows = Render(e.basis, OpsOf(steps))
    BY <1>2, <2>1, <2>3, <2>4
  <2> QED BY <1>2, <2>1, <2>5
<1>5. Begun(s)
  BY <1>2, <1>4 DEF Begun, Recalls, Shown
<1> QED BY <1>2, <1>5 DEF Begins

\* A rendered save has the picture of the operations it recalls.
LEMMA RenderedBegins ==
  ASSUME EditInv, EditorsOk, NEW r \in reqs, Rendered(r)
  PROVE  Begins
<1>1. r.kind = "render" /\ (r.source \notin DOMAIN file => Over(r)) /\ {"by", "source", "ops"} \subseteq DOMAIN r
  BY DEF Rendered, EditInv, Fits, Shaped
<1>2. CASE r.source \in DOMAIN file
  <2>1. PICK s : /\ reqs' = (reqs \ {r}) \cup {s} /\ DOMAIN s = DOMAIN r \cup {"kind", "pic", "row", "was", "path"}
                 /\ s.kind = "write" /\ s.pic = Render(file[r.source], r.ops)
                 /\ \A x \in DOMAIN r : x \in {"kind", "pic", "row", "was", "path"} \/ s[x] = r[x]
                 /\ \/ /\ s.row = Nothing /\ s.path.sub = "edits" /\ s.path.name = r.n
                    \/ /\ s.row \in DOMAIN db.version /\ s.was = db.version[s.row].path
                       /\ s.path.sub = s.was.sub /\ s.path.name = s.was.name
                 /\ s.path = Path(s.path.dir, s.path.sub, s.path.name, s.path.ext)
    BY <1>2, RenderedMakes
  <2>2. Recalls(r)
    BY DEF EditorsOk
  <2>3. s.by = r.by /\ s.source = r.source /\ s.ops = r.ops
    BY <1>1, <2>1
  <2>4. ASSUME s.by = "save", s.smooth, file[s.source] = s.basis PROVE s.pic = s.shown
    <3>1. {"shown", "basis", "smooth", "ops"} \subseteq DOMAIN r /\ (r.smooth => r.shown = Render(r.basis, r.ops))
      BY <1>1, <2>2, <2>3, <2>4 DEF Recalls
    <3>2. s.shown = r.shown /\ s.basis = r.basis /\ s.smooth = r.smooth
      BY <2>1, <3>1
    <3> QED BY <2>1, <2>3, <2>4, <3>1, <3>2
  <2>5. Begun(s)
    BY <2>1, <2>4 DEF Begun, Recalls, Shown
  <2> QED BY <2>1, <2>5 DEF Begins
<1> QED BY <1>1, <1>2, OverBegins

\* The next turn recalls what the first one did.
LEMMA TurnFileBegins ==
  ASSUME EditInv, EditorsOk, NEW r \in reqs, TurnFile(r)
  PROVE  Begins
<1>1. r.kind = "turn" /\ (Over(r) \/ \E done, from : GoesOn(r, [done |-> done, from |-> from]))
  BY DEF TurnFile
<1>2. Recalls(r) /\ "kind" \in DOMAIN r
  BY DEF EditorsOk, EditInv, NamesOk
<1>3. ASSUME NEW done, NEW from, GoesOn(r, [done |-> done, from |-> from]) PROVE Begins
  <2>1. PICK s : s = With([done |-> done, from |-> from], r)
    OBVIOUS
  <2>2. DOMAIN s = DOMAIN r \cup {"done", "from"} /\ \A x \in DOMAIN r \ {"done", "from"} : s[x] = r[x]
    BY <2>1 DEF With
  <2>3. s.kind = "turn"
    BY <1>1, <1>2, <2>2
  <2>4. ASSUME "key" \in DOMAIN s
        PROVE  {"shown", "basis", "smooth", "ops"} \subseteq DOMAIN s /\ (s.smooth => s.shown = Render(s.basis, s.ops))
    <3>1. {"shown", "basis", "smooth", "ops"} \subseteq DOMAIN r /\ (r.smooth => r.shown = Render(r.basis, r.ops))
      BY <1>1, <1>2, <2>2, <2>4 DEF Recalls
    <3>2. s.shown = r.shown /\ s.basis = r.basis /\ s.smooth = r.smooth /\ s.ops = r.ops
      BY <2>2, <3>1
    <3> QED BY <2>2, <3>1, <3>2
  <2>5. Begun(s)
    BY <2>3, <2>4 DEF Begun, Recalls, Shown
  <2>6. reqs' = (reqs \ {r}) \cup {s}
    BY <1>3, <2>1 DEF GoesOn
  <2> QED BY <2>5, <2>6 DEF Begins
<1> QED BY <1>1, <1>3, OverBegins

\* A bulk edit shows nothing.
LEMMA BulkBegins ==
  ASSUME EditInv, NEW r \in reqs, BulkNext(r)
  PROVE  Begins
<1>1. /\ r.kind = "bulk" /\ UNCHANGED <<db, file, thumb, count>>
         /\ \/ reqs' = reqs \ {r}
            \/ \E i \in DOMAIN r.todo : \E s :
                  /\ DOMAIN s = DOMAIN r /\ s.todo = [j \in DOMAIN r.todo \ {i} |-> r.todo[j]]
                  /\ \A x \in DOMAIN r \ {"todo"} : s[x] = r[x]
                  /\ \/ reqs' = (reqs \ {r}) \cup {s}
                     \/ \E q : /\ reqs' = (reqs \ {r}) \cup {s, q} /\ {"kind", "n", "job"} \subseteq DOMAIN q
                               /\ q.n = <<r.n[1], i>> /\ q.job = r.n /\ q.kind \in {"render", "turn"} /\ Shaped(q)
                               /\ Claims(q) \subseteq {q.n} /\ "key" \notin DOMAIN q
                               /\ q.kind = "render" => q.by = "bulk"
                               /\ q.kind = "turn" => q.target[1] = "instance"
  BY BulkNextMakes
<1>2. CASE reqs' = reqs \ {r}
  BY <1>2 DEF Begins
<1>3. CASE reqs' # reqs \ {r}
  <2>0. PICK i \in DOMAIN r.todo : \E s :
                  /\ DOMAIN s = DOMAIN r /\ s.todo = [j \in DOMAIN r.todo \ {i} |-> r.todo[j]]
                  /\ \A x \in DOMAIN r \ {"todo"} : s[x] = r[x]
                  /\ \/ reqs' = (reqs \ {r}) \cup {s}
                     \/ \E q : /\ reqs' = (reqs \ {r}) \cup {s, q} /\ {"kind", "n", "job"} \subseteq DOMAIN q
                               /\ q.n = <<r.n[1], i>> /\ q.job = r.n /\ q.kind \in {"render", "turn"} /\ Shaped(q)
                               /\ Claims(q) \subseteq {q.n} /\ "key" \notin DOMAIN q
                               /\ q.kind = "render" => q.by = "bulk"
                               /\ q.kind = "turn" => q.target[1] = "instance"
    BY <1>1, <1>3
  <2>1. PICK s :
                  /\ DOMAIN s = DOMAIN r /\ s.todo = [j \in DOMAIN r.todo \ {i} |-> r.todo[j]]
                  /\ \A x \in DOMAIN r \ {"todo"} : s[x] = r[x]
                  /\ \/ reqs' = (reqs \ {r}) \cup {s}
                     \/ \E q : /\ reqs' = (reqs \ {r}) \cup {s, q} /\ {"kind", "n", "job"} \subseteq DOMAIN q
                               /\ q.n = <<r.n[1], i>> /\ q.job = r.n /\ q.kind \in {"render", "turn"} /\ Shaped(q)
                               /\ Claims(q) \subseteq {q.n} /\ "key" \notin DOMAIN q
                               /\ q.kind = "render" => q.by = "bulk"
                               /\ q.kind = "turn" => q.target[1] = "instance"
    BY <2>0
  <2>2. s.kind = "bulk"
    BY <1>1, <2>1 DEF EditInv, NamesOk
  <2>3. Begun(s)
    BY <2>2, OtherBegun DEF Editing
  <2>4. ASSUME NEW q, q.kind \in {"render", "turn"}, "key" \notin DOMAIN q, q.kind = "render" => q.by = "bulk" PROVE Begun(q)
    BY <2>4 DEF Begun, Recalls, Shown
  <2>5. (reqs' = (reqs \ {r}) \cup {s}) \/ \E q : reqs' = (reqs \ {r}) \cup {s, q} /\ q.kind \in {"render", "turn"}
                   /\ "key" \notin DOMAIN q /\ (q.kind = "render" => q.by = "bulk")
    BY <2>1
  <2> QED BY <2>3, <2>4, <2>5 DEF Begins
<1> QED BY <1>2, <1>3

\* Every step but the start of an apply begins only such requests.
LEMMA StepsBegin ==
  ASSUME EditInv, SessionsOk, EditorsOk, Next
  PROVE  Begins \/ \E k, op : ApplyStart(k, op)
<1>1. reqs' \subseteq reqs => Begins
  BY DEF Begins
<1>2. CASE Requests
  <2>1. \A k, seq : Rollback(k, seq) => Begins
    BY <1>1 DEF Rollback
  <2>2. \A a : TrashOrRestore(a) => Begins
    BY <1>1 DEF TrashOrRestore
  <2>3. ASSUME NEW S, NEW op, BulkEdit(S, op) PROVE Begins
    <3> DEFINE q == [kind |-> "bulk", op |-> op, done |-> {},
                     todo |-> [i \in {j \in Inst : db.inst[j].live /\ AssetOf[j] \in S} |-> db.inst[i].path]]
    <3>1. New(q)
      BY <2>3 DEF BulkEdit
    <3>2. "n" \notin DOMAIN q /\ "kind" \in DOMAIN q /\ q.kind \notin Editing
      BY DEF Editing
    <3> HIDE DEF q
    <3> QED BY <3>1, <3>2, NewBegins
  <2>4. ASSUME NEW t, GetThumbnail(t) PROVE Begins
    <3>1. PICK x : ThumbMiss(t, x)
      BY <2>4 DEF GetThumbnail
    <3> DEFINE q == [kind |-> "get", of |-> t, pic |-> file[x]]
    <3>2. New(q)
      BY <3>1 DEF ThumbMiss
    <3>3. "n" \notin DOMAIN q /\ "kind" \in DOMAIN q /\ q.kind \notin Editing
      BY DEF Editing
    <3> HIDE DEF q
    <3> QED BY <3>2, <3>3, NewBegins
  <2>5. ASSUME NEW a, ImportVersion(a) \/ \E v \in DOMAIN db.version : SetCurrent(a, v) PROVE Begins
    <3>1. PICK s : reqs' = reqs \cup {s} /\ s.kind \in {"insert", "pick"}
      <4>1. ASSUME ImportVersion(a) PROVE \E s : reqs' = reqs \cup {s} /\ s.kind = "insert"
        BY <4>1, ImportMakes
      <4>2. ASSUME NEW v \in DOMAIN db.version, SetCurrent(a, v) PROVE \E s : reqs' = reqs \cup {s} /\ s.kind = "pick"
        BY <4>2, SetCurrentMakes
      <4> QED BY <2>5, <4>1, <4>2
    <3>2. s.kind \notin Editing
      BY <3>1 DEF Editing
    <3> QED BY <3>1, <3>2, OtherBegun DEF Begins
  <2>6. \A k, mode : Save(k, mode) => Begins
    BY SaveBegins
  <2> QED BY <1>2, <2>1, <2>2, <2>3, <2>4, <2>5, <2>6 DEF Requests
<1>3. CASE Steps
  <2>1. PICK r \in reqs :
           \/ ApplyDone(r)
           \/ Rendered(r) \/ Written(r) \/ Overwritten(r) \/ CurrentRead(r) \/ Inserted(r) \/ VersionThumb(r)
           \/ \E found : Dedupe(r, found)
           \/ TurnFile(r) \/ PhotoTurned(r) \/ ThumbsDropped(r) \/ CopyTurned(r)
           \/ BulkNext(r) \/ SiblingsRead(r) \/ Switched(r) \/ ThumbStored(r)
    BY <1>3 DEF Steps
  <2>2. ApplyDone(r) \/ (\E found : Dedupe(r, found)) \/ CopyTurned(r) \/ Switched(r) \/ ThumbStored(r) => Begins
    BY OverBegins DEF ApplyDone, Dedupe, CopyTurned, Switched, ThumbStored
  <2>3. ASSUME Written(r) \/ Overwritten(r) \/ VersionThumb(r) \/ PhotoTurned(r) PROVE Begins
    <3>1. Over(r) \/ \E kind \in {"commit", "thumb", "dedupe", "drop"} : GoesOn(r, [kind |-> kind])
      BY <2>3 DEF Written, Overwritten, VersionThumb, PhotoTurned
    <3>2. ASSUME NEW kind \in {"commit", "thumb", "dedupe", "drop"}, GoesOn(r, [kind |-> kind]) PROVE Begins
      BY <3>2, GoesOnBegins DEF Editing
    <3> QED BY <3>1, <3>2, OverBegins
  <2>4. ASSUME Inserted(r) PROVE Begins
    <3>1. PICK row : row = NewId(db.version)
      OBVIOUS
    <3>2. \E kind \in {"thumb", "clean"} : GoesOn(r, [kind |-> kind, row |-> row])
      BY <2>4, <3>1 DEF Inserted
    <3>3. ASSUME NEW kind \in {"thumb", "clean"}, GoesOn(r, [kind |-> kind, row |-> row]) PROVE Begins
      BY <3>3, GoesOnBegins DEF Editing
    <3> QED BY <3>2, <3>3
  <2>5. ASSUME CurrentRead(r) \/ SiblingsRead(r) PROVE Begins
    <3>1. PICK seen : seen = Current(db, r.of)
      OBVIOUS
    <3>2. \E kind \in {"insert", "switch"} : GoesOn(r, [kind |-> kind, seen |-> seen])
      BY <2>5, <3>1 DEF CurrentRead, SiblingsRead
    <3>3. ASSUME NEW kind \in {"insert", "switch"}, GoesOn(r, [kind |-> kind, seen |-> seen]) PROVE Begins
      BY <3>3, GoesOnBegins DEF Editing
    <3> QED BY <3>2, <3>3
  <2>6. ASSUME ThumbsDropped(r) PROVE Begins
    <3>1. \A s \in reqs' : s \in reqs \/ \E q \in reqs : "job" \in DOMAIN r /\ q.n = r.job /\ s = [q EXCEPT !.done = @ \cup {r.target[2]}]
      BY <2>6 DEF ThumbsDropped
    <3>2. ASSUME NEW q \in reqs, "job" \in DOMAIN r, q.n = r.job PROVE q.kind = "bulk" /\ "kind" \in DOMAIN q
      BY <3>2 DEF EditInv, NamesOk
    <3>3. ASSUME NEW s, NEW q, q.kind = "bulk", "kind" \in DOMAIN q, s = [q EXCEPT !.done = @ \cup {r.target[2]}] PROVE s.kind \notin Editing
      BY <3>3 DEF Editing
    <3> QED BY <3>1, <3>2, <3>3, OtherBegun DEF Begins
  <2> QED BY <2>1, <2>2, <2>3, <2>4, <2>5, <2>6, RenderedBegins, TurnFileBegins, BulkBegins
<1>4. Crash \/ Renaming \/ (\E p : Rendering(p)) \/ ComfyStops \/ ComfyStarts => Begins
  BY <1>1 DEF Crash, Renaming, RenameFolder, Rendering, ComfyStops, ComfyStarts, vars
<1> QED BY <1>2, <1>3, <1>4, ComfyBegins DEF Next

\* Sessions stay, and no editor but one that closes changes.
EditorsStay ==
    /\ session' = session /\ DOMAIN editor' \subseteq DOMAIN editor
    /\ \A k \in DOMAIN editor' : editor'[k] = editor[k]

\* That is so but for steps that are applied or rolled back.
LEMMA EditorsChange ==
  ASSUME Next
  PROVE  \/ EditorsStay
         \/ \E k : \E seq \in Nat : Rollback(k, seq)
         \/ \E r \in reqs : ApplyDone(r)
<1>1. UNCHANGED <<session, editor>> => EditorsStay
  BY DEF EditorsStay
<1>2. ASSUME Requests PROVE EditorsStay \/ \E k : \E seq \in Nat : Rollback(k, seq)
  <2>1. \A k : (\E op : ApplyStart(k, op)) \/ (\E mode : Save(k, mode)) => UNCHANGED <<session, editor>>
    BY DEF ApplyStart, Save
  <2>2. (\E S, op : BulkEdit(S, op)) \/ (\E t : GetThumbnail(t)) \/ (\E i : TrashOrRestore(i)) => UNCHANGED <<session, editor>>
    BY DEF BulkEdit, GetThumbnail, ThumbMiss, TrashOrRestore
  <2>3. \A a : ImportVersion(a) \/ (\E v : SetCurrent(a, v)) => UNCHANGED <<session, editor>>
    BY DEF ImportVersion, SetCurrent
  <2> QED BY <1>1, <1>2, <2>1, <2>2, <2>3 DEF Requests
<1>3. ASSUME Steps PROVE EditorsStay \/ \E r \in reqs : ApplyDone(r)
  <2>1. PICK r \in reqs :
           \/ ApplyDone(r)
           \/ Rendered(r) \/ Written(r) \/ Overwritten(r) \/ CurrentRead(r) \/ Inserted(r) \/ VersionThumb(r)
           \/ \E found : Dedupe(r, found)
           \/ TurnFile(r) \/ PhotoTurned(r) \/ ThumbsDropped(r) \/ CopyTurned(r)
           \/ BulkNext(r) \/ SiblingsRead(r) \/ Switched(r) \/ ThumbStored(r)
    BY <1>3 DEF Steps
  <2>2. ASSUME session' = session, editor' = Closed(r) PROVE EditorsStay
    BY <2>2 DEF EditorsStay, Closed
  <2>3. \/ ApplyDone(r)
        \/ UNCHANGED <<session, editor>>
        \/ session' = session /\ editor' = Closed(r)
    BY <2>1 DEF Rendered, Written, Overwritten, CurrentRead, Inserted, VersionThumb, Dedupe,
                TurnFile, PhotoTurned, ThumbsDropped, CopyTurned, BulkNext, SiblingsRead, Switched, ThumbStored
  <2> QED BY <1>1, <2>2, <2>3
<1>4. ComfyRequests => UNCHANGED <<session, editor>>
  BY DEF ComfyRequests, RunWorkflow, RunDefaultWorkflow, EnqueueRuns, PutSettings, ImportResult
<1>5. ComfySteps => UNCHANGED <<session, editor>>
  BY DEF ComfySteps, RunStarts, Upload, SubmitPrompt, OutputFound, TimedOut, FetchForFace, FetchForPhoto, Checked, Added, Cleaned
<1>6. Renaming \/ (\E p : Rendering(p)) \/ ComfyStops \/ ComfyStarts => UNCHANGED <<session, editor>>
  BY DEF Renaming, RenameFolder, Rendering, ComfyStops, ComfyStarts, vars
<1>7. Crash => EditorsStay
  BY DEF Crash, EditorsStay
<1> QED BY <1>1, <1>2, <1>3, <1>4, <1>5, <1>6, <1>7 DEF Next

-----------------------------------------------------------------------------
(* The steps of an editor.                                                   *)

\* Editor e has seen the steps as they are, and those still under way go on from them.
Smooth(e, steps, S, k) ==
    /\ DOMAIN e = {"seq", "shows", "basis", "smooth"} /\ e.smooth \in BOOLEAN
    /\ e.smooth =>
       /\ e.seq \in Nat /\ DOMAIN steps = 1..e.seq
       /\ e.shows = IF e.seq = 0 THEN Nothing ELSE steps[e.seq].shows
       /\ \A j \in 1..e.seq : steps[j].shows = Render(e.basis, [i \in 1..j |-> steps[i].op])
       /\ \A r \in S : r.key = k => /\ r.seq = e.seq + 1
                                    /\ r.ops = [i \in 1..r.seq |-> IF i = r.seq THEN r.op ELSE steps[i].op]

\* An editor, in terms of its steps,
LEMMA StraightIs ==
  ASSUME NEW k
  PROVE  Straight(k) <=> Smooth(editor[k], session[k].steps, Applies, k)
BY DEF Straight, Smooth

\* and after a step.
LEMMA StraightThen ==
  ASSUME NEW k
  PROVE  Straight(k)' <=> Smooth(editor'[k], session'[k].steps, Applies', k)
BY DEF Straight, Smooth

\* With fewer applies under way it still has.
LEMMA FewerApplies ==
  ASSUME NEW e, NEW steps, NEW S, NEW T, NEW k, Smooth(e, steps, S, k), \A r \in T : r.key = k => r \in S
  PROVE  Smooth(e, steps, T, k)
BY DEF Smooth

\* The operations of n steps and one more.
OpsThen(steps, n, op) == [i \in 1..(n + 1) |-> IF i = n + 1 THEN op ELSE steps[i].op]

\* An operation appended to those of the steps.
LEMMA OneMoreOp ==
  ASSUME NEW n \in Nat, NEW steps, DOMAIN steps = 1..n, NEW op
  PROVE  Append(OpsOf(steps), op) = OpsThen(steps, n, op)
<1>1. PICK S, ops : S = {steps[i].op : i \in 1..n} /\ ops = [j \in 1..n |-> steps[j].op]
  OBVIOUS
<1>2. ops \in [1..n -> S]
  BY <1>1
<1>3. ops \in Seq(S) /\ Len(ops) = n
  BY <1>2
<1>4. Append(ops, op) = [i \in 1..(n + 1) |-> IF i = n + 1 THEN op ELSE ops[i]]
  <2>1. PICK A, T : A = Append(ops, op) /\ T = S \cup {op}
    OBVIOUS
  <2>2. ops \in Seq(T) /\ op \in T
    BY <1>2, <2>1
  <2>3. A \in Seq(T) /\ Len(A) = n + 1 /\ A[n + 1] = op /\ \A i \in 1..n : A[i] = ops[i]
    BY <1>3, <2>1, <2>2
  <2>4. A = [i \in 1..(n + 1) |-> A[i]]
    BY <2>3
  <2>5. ASSUME NEW i \in 1..(n + 1) PROVE A[i] = IF i = n + 1 THEN op ELSE ops[i]
    BY <2>3, <2>5
  <2> QED BY <2>1, <2>4, <2>5
<1>5. \A i \in 1..(n + 1) : i # n + 1 => i \in 1..n
  OBVIOUS
<1> QED BY <1>1, <1>4, <1>5, OpsInOrder DEF OpsThen

\* An apply goes on from the steps as they are.
LEMMA ApplyStarts ==
  ASSUME EditorsOk, NEW k, NEW op, ApplyStart(k, op)
  PROVE  EditorsOk'
<1> DEFINE q == [kind |-> "apply", key |-> k, op |-> op, ops |-> Append(OpsOf(session[k].steps), op),
                 seq |-> 1 + Max(DOMAIN session[k].steps \cup {0})]
<1>1. New(q) /\ UNCHANGED <<session, editor>> /\ k \in DOMAIN editor /\ \A r \in Applies : r.key # k
  BY DEF ApplyStart, Applies
<1>2. DOMAIN q = {"kind", "key", "op", "ops", "seq"} /\ q.kind = "apply" /\ q.key = k /\ q.op = op
      /\ q.ops = Append(OpsOf(session[k].steps), op) /\ q.seq = 1 + Max(DOMAIN session[k].steps \cup {0})
  OBVIOUS
<1> HIDE DEF q
<1>3. "n" \notin DOMAIN q /\ "kind" \in DOMAIN q
  BY <1>2
<1>4. PICK s : reqs' = reqs \cup {s} /\ DOMAIN s = DOMAIN q \cup {"n"} /\ \A x \in DOMAIN q : s[x] = q[x]
  BY <1>1, <1>3, Named
<1>5. /\ {"key", "op", "ops", "seq"} \subseteq DOMAIN s /\ s.kind = "apply" /\ s.key = k /\ s.op = op
      /\ s.ops = Append(OpsOf(session[k].steps), op) /\ s.seq = 1 + Max(DOMAIN session[k].steps \cup {0})
  BY <1>2, <1>4
<1>6. Applies' = Applies \cup {s}
  BY <1>4, <1>5 DEF Applies
<1>7. \A r \in Applies' : {"key", "op", "ops", "seq"} \subseteq DOMAIN r
  BY <1>5, <1>6 DEF EditorsOk
<1>8. \A p, r \in Applies' : p.key = r.key => p = r
  BY <1>1, <1>5, <1>6 DEF EditorsOk
<1>9. \A r \in reqs' : Recalls(r)
  <2>1. Recalls(s)
    BY <1>5 DEF Recalls
  <2> QED BY <1>4, <2>1 DEF EditorsOk
<1>10. ASSUME NEW l \in DOMAIN editor' PROVE Straight(l)'
  <2>1. Smooth(editor[l], session[l].steps, Applies, l)
    BY <1>1, <1>10, StraightIs DEF EditorsOk
  <2>2. ASSUME l # k PROVE Smooth(editor[l], session[l].steps, Applies', l)
    <3>1. \A r \in Applies' : r.key = l => r \in Applies
      BY <1>5, <1>6, <2>2
    <3> QED BY <2>1, <3>1, FewerApplies
  <2>3. ASSUME l = k PROVE Smooth(editor[k], session[k].steps, Applies', k)
    <3>1. PICK e, steps : e = editor[k] /\ steps = session[k].steps
      OBVIOUS
    <3>2. Smooth(e, steps, Applies, k)
      BY <2>1, <2>3, <3>1
    <3>3. ASSUME e.smooth PROVE s.seq = e.seq + 1 /\ s.ops = [i \in 1..s.seq |-> IF i = s.seq THEN s.op ELSE steps[i].op]
      <4>1. e.seq \in Nat /\ DOMAIN steps = 1..e.seq
        BY <3>2, <3>3 DEF Smooth
      <4>2. s.seq = e.seq + 1
        BY <1>5, <3>1, <4>1, Highest
      <4>3. PICK n : n = e.seq
        OBVIOUS
      <4>4. Append(OpsOf(steps), op) = OpsThen(steps, n, op)
        BY <4>1, <4>3, OneMoreOp
      <4>5. s.ops = Append(OpsOf(steps), op) /\ s.seq = n + 1 /\ s.op = op
        BY <1>5, <3>1, <4>2, <4>3
      <4>6. PICK m, o : m = s.seq /\ o = s.op
        OBVIOUS
      <4>7. s.ops = [i \in 1..m |-> IF i = m THEN o ELSE steps[i].op]
        BY <4>4, <4>5, <4>6 DEF OpsThen
      <4> QED BY <4>2, <4>6, <4>7
    <3>4. \A r \in Applies' : r.key = k => r = s
      BY <1>1, <1>6
    <3>5. Smooth(e, steps, Applies', k)
      BY <3>2, <3>3, <3>4 DEF Smooth
    <3> QED BY <3>1, <3>5
  <2>4. editor'[l] = editor[l] /\ session'[l].steps = session[l].steps
    BY <1>1
  <2> QED BY <2>2, <2>3, <2>4, StraightThen
<1> QED BY <1>7, <1>8, <1>9, <1>10 DEF EditorsOk

\* A step that begins no apply leaves the others apart, and every request recalls what was shown.
LEMMA RequestsRecall ==
  ASSUME EditorsOk, Begins
  PROVE  /\ Applies' \subseteq Applies
         /\ \A r \in Applies' : {"key", "op", "ops", "seq"} \subseteq DOMAIN r
         /\ \A q, r \in Applies' : q.key = r.key => q = r
         /\ \A r \in reqs' : Recalls(r)
<1>1. Applies' \subseteq Applies
  BY DEF Begins, Begun, Applies
<1>2. \A r \in reqs' : Recalls(r)
  BY DEF Begins, Begun, EditorsOk
<1> QED BY <1>1, <1>2 DEF EditorsOk

\* So it is enough that the editors go on.
LEMMA EditorsThen ==
  ASSUME EditorsOk, Begins, \A k \in DOMAIN editor' : Straight(k)'
  PROVE  EditorsOk'
BY RequestsRecall DEF EditorsOk

\* An answer: the editor shows one step more.
LEMMA AppliesDone ==
  ASSUME EditorsOk, SessionsOk, NEW r \in reqs, ApplyDone(r), NEW l \in DOMAIN editor'
  PROVE  Straight(l)'
<1>1. r \in Applies /\ r.key = r.key /\ Over(r)
  BY DEF ApplyDone, Applies
<1>2. Applies' = Applies \ {r} /\ \A q \in Applies' : q.key # r.key
  <2>1. Applies' = Applies \ {r}
    BY <1>1 DEF Over, Applies
  <2> QED BY <1>1, <2>1 DEF EditorsOk
<1>3. PICK k, src, pic : k = r.key /\ src = session[k].source /\ pic = Render(file[src], r.ops)
  OBVIOUS
<1>4. CASE UNCHANGED <<session, editor>>
  <2>1. Smooth(editor[l], session[l].steps, Applies, l)
    BY <1>4, StraightIs DEF EditorsOk
  <2>2. Smooth(editor[l], session[l].steps, Applies', l)
    BY <1>2, <2>1, FewerApplies
  <2>3. editor'[l] = editor[l] /\ session'[l].steps = session[l].steps
    BY <1>4
  <2> QED BY <2>2, <2>3, StraightThen
<1>5. CASE ~UNCHANGED <<session, editor>>
  <2>1. /\ session' = [session EXCEPT ![k].steps = Put(@, r.seq, [op |-> r.op, shows |-> pic])]
        /\ editor' = IF k \in DOMAIN editor
                     THEN [editor EXCEPT ![k] = [seq |-> r.seq, shows |-> pic, basis |-> file[src],
                                                 smooth |-> @.smooth /\ (@.seq = 0 \/ @.basis = file[src])]]
                     ELSE editor
    BY <1>3, <1>5 DEF ApplyDone
  <2>2. l \in DOMAIN editor /\ l \in DOMAIN session /\ DOMAIN session[l] = {"target", "source", "steps"}
    BY <2>1 DEF SessionsOk
  <2>3. Smooth(editor[l], session[l].steps, Applies, l)
    BY <2>2, StraightIs DEF EditorsOk
  <2>4. CASE l # k
    <3>1. editor'[l] = editor[l] /\ session'[l].steps = session[l].steps
      BY <2>1, <2>2, <2>4
    <3>2. Smooth(editor[l], session[l].steps, Applies', l)
      BY <1>2, <2>3, FewerApplies
    <3> QED BY <3>1, <3>2, StraightThen
  <2>5. CASE l = k
    <3>1. PICK e, steps, now : e = editor[k] /\ steps = session[k].steps /\ now = file[src]
      OBVIOUS
    <3>2. PICK f, after : f = editor'[k] /\ after = session'[k].steps
      OBVIOUS
    <3>3. f = [seq |-> r.seq, shows |-> pic, basis |-> now, smooth |-> e.smooth /\ (e.seq = 0 \/ e.basis = now)]
      BY <2>1, <2>2, <2>5, <3>1, <3>2
    <3>4. after = Put(steps, r.seq, [op |-> r.op, shows |-> pic])
      BY <2>1, <2>2, <2>5, <3>1, <3>2
    <3>5. Smooth(e, steps, Applies, k)
      BY <2>3, <2>5, <3>1
    <3>6. DOMAIN f = {"seq", "shows", "basis", "smooth"} /\ f.smooth \in BOOLEAN /\ f.seq = r.seq /\ f.shows = pic /\ f.basis = now
      BY <3>3
    <3>7. f.smooth => e.smooth /\ (e.seq = 0 \/ e.basis = now)
      BY <3>3
    <3>8. ASSUME f.smooth
          PROVE  /\ f.seq \in Nat /\ DOMAIN after = 1..f.seq
                 /\ f.shows = IF f.seq = 0 THEN Nothing ELSE after[f.seq].shows
                 /\ \A j \in 1..f.seq : after[j].shows = Render(f.basis, [i \in 1..j |-> after[i].op])
      <4>1. /\ e.seq \in Nat /\ DOMAIN steps = 1..e.seq /\ r.seq = e.seq + 1
            /\ r.ops = [i \in 1..r.seq |-> IF i = r.seq THEN r.op ELSE steps[i].op]
            /\ \A j \in 1..e.seq : steps[j].shows = Render(e.basis, [i \in 1..j |-> steps[i].op])
        BY <1>1, <1>3, <3>5, <3>7, <3>8 DEF Smooth
      <4>2. DOMAIN after = 1..r.seq
        BY <3>4, <4>1 DEF Put
      <4>3. after[r.seq].op = r.op /\ after[r.seq].shows = pic /\ \A j \in 1..e.seq : after[j] = steps[j]
        BY <3>4, <4>1 DEF Put
      <4>4. r.ops = [i \in 1..r.seq |-> after[i].op]
        <5>1. ASSUME NEW i \in 1..r.seq PROVE (IF i = r.seq THEN r.op ELSE steps[i].op) = after[i].op
          BY <4>1, <4>3, <5>1
        <5> QED BY <4>1, <5>1
      <4>5. pic = Render(now, r.ops)
        BY <1>3, <3>1
      <4>6. ASSUME NEW j \in 1..e.seq PROVE after[j].shows = Render(now, [i \in 1..j |-> after[i].op])
        <5>1. e.basis = now
          BY <3>7, <3>8, <4>1, <4>6
        <5>2. [i \in 1..j |-> after[i].op] = [i \in 1..j |-> steps[i].op]
          <6>1. ASSUME NEW i \in 1..j PROVE after[i].op = steps[i].op
            BY <4>1, <4>3, <4>6, <6>1
          <6> QED BY <6>1
        <5> QED BY <4>1, <4>3, <4>6, <5>1, <5>2
      <4>7. ASSUME NEW j \in 1..r.seq PROVE after[j].shows = Render(now, [i \in 1..j |-> after[i].op])
        <5>1. j = r.seq \/ j \in 1..e.seq
          BY <4>1, <4>7
        <5> QED BY <4>3, <4>4, <4>5, <4>6, <5>1
      <4> QED BY <3>6, <4>1, <4>2, <4>3, <4>7
    <3>9. \A q \in Applies' : q.key # k
      BY <1>2, <1>3
    <3>10. Smooth(f, after, Applies', k)
      BY <3>6, <3>8, <3>9 DEF Smooth
    <3> QED BY <2>5, <3>2, <3>10, StraightThen
  <2> QED BY <2>4, <2>5
<1> QED BY <1>4, <1>5

\* A step rolled back: the editor shows the one it goes back to.
LEMMA RollsBack ==
  ASSUME EditorsOk, SessionsOk, NEW k, NEW seq \in Nat, Rollback(k, seq), NEW l \in DOMAIN editor'
  PROVE  Straight(l)'
<1>1. reqs' = reqs /\ k \in DOMAIN editor /\ seq < editor[k].seq
  BY DEF Rollback
<1>2. Applies' = Applies
  BY <1>1 DEF Applies
<1>3. PICK e, steps, shows :
         e = editor[k] /\ steps = session[k].steps /\ shows = IF seq = 0 THEN Nothing ELSE session[k].steps[seq].shows
  OBVIOUS
<1>4. PICK clear : clear = (~\E r \in reqs : r.kind = "apply" /\ r.key = k)
  OBVIOUS
<1>5. clear \in BOOLEAN /\ (clear => \A r \in Applies : r.key # k)
  BY <1>4 DEF Applies
<1>6. Smooth(e, steps, Applies, k)
  BY <1>1, <1>3, StraightIs DEF EditorsOk
<1>7. DOMAIN e = {"seq", "shows", "basis", "smooth"} /\ e.smooth \in BOOLEAN
  BY <1>6 DEF Smooth
<1>8. DOMAIN editor' = DOMAIN editor /\ \A j \in DOMAIN editor \ {k} : editor'[j] = editor[j]
  BY DEF Rollback
<1>9. k \in DOMAIN session /\ DOMAIN session[k] = {"target", "source", "steps"}
  BY <1>1 DEF SessionsOk
<1>10. \A j \in DOMAIN session \ {k} : session'[j] = session[j]
  BY DEF Rollback
<1>11. CASE l # k
  <2>1. l \in DOMAIN session
    BY <1>8 DEF SessionsOk
  <2>2. editor'[l] = editor[l] /\ session'[l].steps = session[l].steps
    BY <1>8, <1>10, <1>11, <2>1
  <2>3. Smooth(editor[l], session[l].steps, Applies, l)
    BY <1>8, StraightIs DEF EditorsOk
  <2> QED BY <1>2, <2>2, <2>3, StraightThen
<1>12. CASE l = k
  <2>1. PICK f, after : f = editor'[k] /\ after = session'[k].steps
    OBVIOUS
  <2>2. \/ /\ editor' = [editor EXCEPT ![k].seq = seq, ![k].shows = shows, ![k].smooth = @ /\ clear]
           /\ session' = [session EXCEPT ![k].steps = Keep(@, seq)]
        \/ /\ editor' = [editor EXCEPT ![k].seq = seq, ![k].shows = shows, ![k].smooth = @ /\ FALSE]
           /\ session' = session
    BY <1>3, <1>4 DEF Rollback
  <2>3. CASE /\ editor' = [editor EXCEPT ![k].seq = seq, ![k].shows = shows, ![k].smooth = @ /\ clear]
             /\ session' = [session EXCEPT ![k].steps = Keep(@, seq)]
    <3>1. /\ DOMAIN f = {"seq", "shows", "basis", "smooth"} /\ f.smooth \in BOOLEAN /\ f.seq = seq /\ f.shows = shows /\ f.basis = e.basis
          /\ f.smooth => e.smooth /\ clear
      BY <1>1, <1>3, <1>5, <1>7, <2>1, <2>3
    <3>2. after = Keep(steps, seq)
      BY <1>3, <1>9, <2>1, <2>3
    <3>3. ASSUME f.smooth
          PROVE  /\ f.seq \in Nat /\ DOMAIN after = 1..f.seq
                 /\ f.shows = IF f.seq = 0 THEN Nothing ELSE after[f.seq].shows
                 /\ \A j \in 1..f.seq : after[j].shows = Render(f.basis, [i \in 1..j |-> after[i].op])
      <4>1. /\ e.seq \in Nat /\ DOMAIN steps = 1..e.seq
            /\ \A j \in 1..e.seq : steps[j].shows = Render(e.basis, [i \in 1..j |-> steps[i].op])
        BY <1>6, <3>1, <3>3 DEF Smooth
      <4>2. seq \in Nat /\ seq < e.seq
        BY <1>1, <1>3
      <4>3. DOMAIN after = 1..seq /\ \A j \in 1..seq : j \in 1..e.seq /\ after[j] = steps[j]
        BY <3>2, <4>1, <4>2 DEF Keep
      <4>4. f.shows = IF f.seq = 0 THEN Nothing ELSE after[f.seq].shows
        BY <1>3, <3>1, <4>2, <4>3
      <4>5. ASSUME NEW j \in 1..seq PROVE after[j].shows = Render(e.basis, [i \in 1..j |-> after[i].op])
        <5>1. \A i \in 1..j : after[i].op = steps[i].op
          BY <4>2, <4>3, <4>5
        <5>2. [i \in 1..j |-> after[i].op] = [i \in 1..j |-> steps[i].op]
          BY <5>1
        <5> QED BY <4>1, <4>3, <4>5, <5>2
      <4> QED BY <3>1, <4>2, <4>3, <4>4, <4>5
    <3>4. f.smooth => \A r \in Applies : r.key # k
      BY <1>5, <3>1
    <3>5. Smooth(f, after, Applies, k)
      BY <3>1, <3>3, <3>4 DEF Smooth
    <3> QED BY <1>2, <1>12, <2>1, <3>5, StraightThen
  <2>4. CASE editor' = [editor EXCEPT ![k].seq = seq, ![k].shows = shows, ![k].smooth = @ /\ FALSE]
    <3>1. DOMAIN f = {"seq", "shows", "basis", "smooth"} /\ f.smooth = FALSE
      BY <1>1, <1>3, <1>7, <2>1, <2>4
    <3>2. Smooth(f, after, Applies, k)
      BY <3>1 DEF Smooth
    <3> QED BY <1>2, <1>12, <2>1, <3>2, StraightThen
  <2> QED BY <2>2, <2>3, <2>4
<1> QED BY <1>11, <1>12

\* No other step disturbs an editor.
LEMMA OthersStay ==
  ASSUME EditorsOk, Begins, EditorsStay
  PROVE  EditorsOk'
<1>1. ASSUME NEW k \in DOMAIN editor' PROVE Straight(k)'
  <2>1. Smooth(editor[k], session[k].steps, Applies, k)
    BY <1>1, StraightIs DEF EditorsOk, EditorsStay
  <2>2. Smooth(editor[k], session[k].steps, Applies', k)
    BY <2>1, RequestsRecall, FewerApplies
  <2>3. editor'[k] = editor[k] /\ session'[k].steps = session[k].steps
    BY <1>1 DEF EditorsStay
  <2> QED BY <2>2, <2>3, StraightThen
<1> QED BY <1>1, EditorsThen

\* Every step keeps the editors straight.
LEMMA EditorsStep ==
  ASSUME EditInv, SessionsOk, EditorsOk, Next
  PROVE  EditorsOk'
<1>1. ASSUME NEW k, NEW op, ApplyStart(k, op) PROVE EditorsOk'
  BY <1>1, ApplyStarts
<1>2. ASSUME Begins, NEW k, NEW seq \in Nat, Rollback(k, seq) PROVE EditorsOk'
  BY <1>2, RollsBack, EditorsThen
<1>3. ASSUME Begins, NEW r \in reqs, ApplyDone(r) PROVE EditorsOk'
  BY <1>3, AppliesDone, EditorsThen
<1>4. ASSUME Begins, EditorsStay PROVE EditorsOk'
  BY <1>4, OthersStay
<1> QED BY <1>1, <1>2, <1>3, <1>4, StepsBegin, EditorsChange

\* Editors begin with steps that are what they show.
LEMMA EditorsStart ==
  ASSUME Init
  PROVE  EditorsOk
<1>1. PICK w \in Worlds : InitIn(w)
  BY DEF Init
<1>2. Possible(w)
  BY EditsAssumption
<1>3. session = w.session /\ editor = w.editor /\ reqs = {}
  BY <1>1 DEF InitIn
<1>4. ASSUME NEW k \in DOMAIN editor PROVE Straight(k)
  <2>1. Edited(w, k)
    BY <1>2, <1>3, <1>4 DEF Possible
  <2>2. PICK e, steps : e = w.editor[k] /\ steps = w.session[k].steps
    OBVIOUS
  <2>3. Smooth(e, steps, {}, k)
    BY <2>1, <2>2 DEF Edited, Smooth
  <2>4. Smooth(editor[k], session[k].steps, Applies, k)
    BY <1>3, <2>2, <2>3 DEF Applies
  <2> QED BY <2>4, StraightIs
<1> QED BY <1>3, <1>4 DEF EditorsOk, Applies

\* As long as every answer has come, an editor shows what its steps have made of the picture it
\* began with, and a save or a turn under way recalls that.
THEOREM EditorsInvariant == Spec => []EditorsOk
<1>1. Init => EditorsOk
  BY EditorsStart
<1>2. EditInv /\ SessionsOk /\ EditorsOk /\ [Next]_<<vars, comfyVars>> => EditorsOk'
  <2>1. ASSUME EditorsOk, UNCHANGED <<vars, comfyVars>> PROVE EditorsOk'
    <3>1. UNCHANGED <<session, editor, reqs>>
      BY <2>1 DEF vars
    <3>2. Applies' = Applies
      BY <3>1 DEF Applies
    <3>3. ASSUME NEW k \in DOMAIN editor' PROVE Straight(k)'
      <4>1. Smooth(editor[k], session[k].steps, Applies, k)
        BY <2>1, <3>1, <3>3, StraightIs DEF EditorsOk
      <4>2. editor'[k] = editor[k] /\ session'[k].steps = session[k].steps
        BY <3>1
      <4> QED BY <3>2, <4>1, <4>2, StraightThen
    <3> QED BY <2>1, <3>1, <3>2, <3>3 DEF EditorsOk
  <2> QED BY <2>1, EditorsStep
<1> QED BY <1>1, <1>2, EditsInvariant, PTL DEF Spec

\* A first turn gives the file the picture the editor showed.
LEMMA TurnShown ==
  ASSUME EditInv, EditorsOk, NEW r \in reqs, TurnFile(r), r.done = {}, "key" \in DOMAIN r, r.smooth,
         r.paths[r.first] \in DOMAIN file, file[r.paths[r.first]] = r.basis
  PROVE  file'[r.paths[r.first]] = r.shown
<1>1. r.kind = "turn" /\ Recalls(r)
  BY DEF TurnFile, EditorsOk
<1>2. r.shown = Render(r.basis, r.ops)
  BY <1>1 DEF Recalls
<1>3. PICK x : x = r.paths[r.first]
  OBVIOUS
<1>4. file' = [file EXCEPT ![x] = Render(@, r.ops)]
  BY <1>3 DEF TurnFile
<1> QED BY <1>2, <1>3, <1>4

\* What is saved is what the editor showed (SaveIsShown), however applies, rollbacks, other
\* sessions and other requests come between: as long as the editor has waited for its answers
\* and the source is as it was.
THEOREM EditsSaveWhatIsShown == Spec => SaveIsShown
<1> DEFINE Body == /\ \A r \in reqs' \ reqs : r.kind = "write" /\ r.by = "save" /\ r.smooth /\ file[r.source] = r.basis => r.pic = r.shown
                   /\ \A r \in reqs : /\ TurnFile(r) /\ r.done = {} /\ "key" \in DOMAIN r /\ r.smooth
                                      /\ r.paths[r.first] \in DOMAIN file /\ file[r.paths[r.first]] = r.basis
                                      => file'[r.paths[r.first]] = r.shown
<1>1. EditInv /\ SessionsOk /\ EditorsOk /\ [Next]_<<vars, comfyVars>> => [Body]_vars
  <2>1. ASSUME EditInv, SessionsOk, EditorsOk, Next PROVE Body
    <3>1. ASSUME NEW r \in reqs' \ reqs PROVE Shown(r)
      <4>1. ASSUME Begins PROVE Shown(r)
        BY <3>1, <4>1 DEF Begins, Begun
      <4>2. ASSUME NEW k, NEW op, ApplyStart(k, op) PROVE Shown(r)
        <5> DEFINE q == [kind |-> "apply", key |-> k, op |-> op, ops |-> Append(OpsOf(session[k].steps), op),
                         seq |-> 1 + Max(DOMAIN session[k].steps \cup {0})]
        <5>1. New(q)
          BY <4>2 DEF ApplyStart
        <5>2. "n" \notin DOMAIN q /\ "kind" \in DOMAIN q /\ q.kind = "apply"
          OBVIOUS
        <5> HIDE DEF q
        <5>3. PICK s : reqs' = reqs \cup {s} /\ \A x \in DOMAIN q : s[x] = q[x]
          BY <5>1, <5>2, Named
        <5>4. r = s /\ s.kind = "apply"
          BY <3>1, <5>2, <5>3
        <5> QED BY <5>4 DEF Shown
      <4> QED BY <2>1, <4>1, <4>2, StepsBegin
    <3>2. \A r \in reqs' \ reqs : r.kind = "write" /\ r.by = "save" /\ r.smooth /\ file[r.source] = r.basis => r.pic = r.shown
      BY <3>1 DEF Shown
    <3>3. ASSUME NEW r \in reqs, TurnFile(r), r.done = {}, "key" \in DOMAIN r, r.smooth,
                 r.paths[r.first] \in DOMAIN file, file[r.paths[r.first]] = r.basis
          PROVE  file'[r.paths[r.first]] = r.shown
      BY <2>1, <3>3, TurnShown
    <3> QED BY <3>2, <3>3
  <2>2. UNCHANGED <<vars, comfyVars>> => UNCHANGED vars
    OBVIOUS
  <2> QED BY <2>1, <2>2
<1>2. SaveIsShown <=> [][Body]_vars
  BY PTL DEF SaveIsShown
<1> HIDE DEF Body
<1> QED BY <1>1, <1>2, EditsInvariant, EditorsInvariant, PTL DEF Spec

-----------------------------------------------------------------------------
(* What thumbnails are made of.                                              *)

\* No file has come to path x, and the one there is has the same picture.
Same(x) == x \in DOMAIN file' => x \in DOMAIN file /\ file'[x] = file[x]

\* Files of versions and of faces' crops change by a request that writes or turns them, or
\* have a name no version has; a crop found in a version has a name of two parts.
LEMMA FilesBeneath ==
  ASSUME EditInv, Next, NEW x, x.sub \in {"edits", "faces"}, x.sub = "faces" => Len(x.name) # 2
  PROVE  \/ Same(x) \/ Renaming
         \/ x.sub = "edits" /\ (x.name = NewName \/ \E r \in reqs : x.name \in Claims(r))
         \/ \E r \in reqs : Written(r) /\ x = r.path
         \/ \E r \in reqs : TurnFile(r) /\ file' # file /\ \E j \in DOMAIN r.paths \ r.done : x = r.paths[j]
<1> DEFINE Goal == \/ Same(x) \/ Renaming
                   \/ x.sub = "edits" /\ (x.name = NewName \/ \E r \in reqs : x.name \in Claims(r))
                   \/ \E r \in reqs : Written(r) /\ x = r.path
                   \/ \E r \in reqs : TurnFile(r) /\ file' # file /\ \E j \in DOMAIN r.paths \ r.done : x = r.paths[j]
<1>1. file' = file => Goal
  BY DEF Same
<1>2. ASSUME NEW y, NEW pic, file' = Put(file, y, pic) PROVE Same(x) \/ x = y
  BY <1>2 DEF Same, Put
<1>3. ASSUME NEW y, file' = [z \in DOMAIN file \ {y} |-> file[z]] PROVE Same(x)
  BY <1>3 DEF Same
<1>4. ASSUME NEW r \in reqs, Written(r) PROVE Goal
  <2>1. file' = Put(file, r.path, r.pic)
    BY <1>4 DEF Written
  <2> QED BY <1>2, <1>4, <2>1
<1>5. ASSUME NEW r \in reqs, Overwritten(r) PROVE Goal
  <2>1. file' = file \/ \E y : file' = [z \in DOMAIN file \ {y} |-> file[z]]
    BY <1>5 DEF Overwritten
  <2> QED BY <1>1, <1>3, <2>1
<1>6. ASSUME NEW a, ImportVersion(a) PROVE Goal
  <2>1. PICK y, pic : file' = Put(file, y, pic) /\ y.sub = "edits" /\ y.name = NewName
    <3>1. \E s : file' = Put(file, s.path, s.pic) /\ s.path.sub = "edits" /\ s.path.name = NewName
      BY <1>6, ImportMakes
    <3> QED BY <3>1
  <2> QED BY <1>2, <2>1
<1>7. ASSUME NEW r \in reqs, TurnFile(r) PROVE Goal
  <2>1. PICK j \in DOMAIN r.paths \ r.done : file' = file \/ \E pic : file' = [file EXCEPT ![r.paths[j]] = pic]
    BY <1>7 DEF TurnFile
  <2>2. PICK y : y = r.paths[j]
    OBVIOUS
  <2>3. ASSUME NEW pic, file' = [file EXCEPT ![y] = pic] PROVE Same(x) \/ x = y
    BY <2>3 DEF Same
  <2> QED BY <1>1, <1>7, <2>1, <2>2, <2>3
<1>8. ASSUME NEW i \in Inst, TrashOrRestore(i) PROVE Goal
  <2>1. PICK z, y : /\ y.sub \in {"photos", "trash"}
                    /\ file' = [w \in (DOMAIN file \ {z}) \cup {y} |-> IF w = y THEN file[z] ELSE file[w]]
    <3>1. /\ count' = count + 1 /\ UNCHANGED <<thumb, session, editor, reqs>> /\ DOMAIN db' = DOMAIN db
          /\ \A u \in DOMAIN db \ {"inst"} : db'[u] = db[u]
          /\ DOMAIN db'.inst = Inst /\ \A j \in Inst : DOMAIN db'.inst[j] = {"path", "live"} /\ db'.inst[j].path.sub \in {"photos", "trash"}
          /\ \E y : /\ y = Path(y.dir, y.sub, y.name, y.ext) /\ y.sub \in {"photos", "trash"}
                    /\ file' = [z \in (DOMAIN file \ {db.inst[i].path}) \cup {y} |-> IF z = y THEN file[db.inst[i].path] ELSE file[z]]
          /\ db.inst[i].path.sub \in {"photos", "trash"}
      BY <1>8, TrashMoves
    <3>2. PICK z : z = db.inst[i].path
      OBVIOUS
    <3>3. \E y : /\ y.sub \in {"photos", "trash"}
                 /\ file' = [w \in (DOMAIN file \ {z}) \cup {y} |-> IF w = y THEN file[z] ELSE file[w]]
      BY <3>1, <3>2
    <3> QED BY <3>3
  <2> QED BY <2>1 DEF Same
<1>9. ASSUME NEW r \in reqs, NEW found, Dedupe(r, found) PROVE Goal
  <2> DEFINE Crops(as) == {CropName(r.row, j) : j \in {i \in DOMAIN found : found[i] = as}}
  <2>1. \/ file' = file
        \/ file' = With([z \in Crops("new") |-> file[db.version[r.row].path]], [z \in DOMAIN file \ Crops("known") |-> file[z]])
    BY <1>9 DEF Dedupe
  <2>2. \A j : CropName(r.row, j).sub = "faces" /\ Len(CropName(r.row, j).name) = 2
    BY DEF CropName, Path
  <2>3. x \notin Crops("new")
    BY <2>2
  <2> HIDE DEF Crops
  <2> QED BY <1>1, <2>1, <2>3 DEF Same, With
<1>10. ASSUME NEW r \in reqs, FetchForPhoto(r) PROVE Goal
  <2>1. r.kind = "fetch" /\ (file' = file \/ \E y, pic : file' = Put(file, y, pic) /\ y.sub = "edits" /\ y.name = r.n)
    <3>1. EditPath(r.target[2], r.n).sub = "edits" /\ EditPath(r.target[2], r.n).name = r.n
      BY DEF EditPath, Path
    <3>2. r.kind = "fetch" /\ (file' = file \/ file' = Put(file, EditPath(r.target[2], r.n), comfy.output[r.name]))
      BY <1>10 DEF FetchForPhoto
    <3> QED BY <3>1, <3>2
  <2>2. r.n \in Claims(r)
    BY <2>1 DEF Claims, Early
  <2> QED BY <1>1, <1>2, <2>1, <2>2
<1>11. ASSUME NEW r \in reqs, Checked(r) PROVE Goal
  BY <1>1, <1>3, <1>11 DEF Checked, Without
<1>12. ASSUME NEW a, NEW q, ImportResult(a, q) PROVE Goal
  <2>1. PICK y, pic : file' = Put(file, y, pic) /\ y.sub = "edits" /\ y.name = NewName
    <3>1. EditPath(a, NewName).sub = "edits" /\ EditPath(a, NewName).name = NewName
      BY DEF EditPath, Path
    <3> QED BY <1>12, <3>1 DEF ImportResult
  <2> QED BY <1>2, <2>1
<1> HIDE DEF Goal
<1>13. ASSUME Requests PROVE Goal
  <2>1. ASSUME NEW k PROVE (\E op \in Ops : ApplyStart(k, op)) \/ (\E seq : Rollback(k, seq)) \/ (\E mode : Save(k, mode)) => file' = file
    BY DEF ApplyStart, Rollback, Save
  <2>2. (\E S, op : BulkEdit(S, op)) \/ (\E t : GetThumbnail(t)) \/ (\E a, v : SetCurrent(a, v)) => file' = file
    BY DEF BulkEdit, GetThumbnail, ThumbMiss, SetCurrent
  <2> QED BY <1>1, <1>6, <1>8, <1>13, <2>1, <2>2 DEF Requests
<1>14. ASSUME Steps PROVE Goal
  <2>1. PICK r \in reqs :
           \/ ApplyDone(r)
           \/ Rendered(r) \/ Written(r) \/ Overwritten(r) \/ CurrentRead(r) \/ Inserted(r) \/ VersionThumb(r)
           \/ \E found : Dedupe(r, found)
           \/ TurnFile(r) \/ PhotoTurned(r) \/ ThumbsDropped(r) \/ CopyTurned(r)
           \/ BulkNext(r) \/ SiblingsRead(r) \/ Switched(r) \/ ThumbStored(r)
    BY <1>14 DEF Steps
  <2>2. ApplyDone(r) \/ Rendered(r) \/ CurrentRead(r) \/ VersionThumb(r) \/ ThumbsDropped(r) \/ Inserted(r)
        \/ PhotoTurned(r) \/ CopyTurned(r) \/ BulkNext(r) \/ SiblingsRead(r) \/ Switched(r) \/ ThumbStored(r) => file' = file
    BY DEF ApplyDone, Rendered, CurrentRead, VersionThumb, ThumbsDropped, BulkNext, SiblingsRead, Switched, ThumbStored,
           Inserted, PhotoTurned, CopyTurned
  <2> QED BY <1>1, <1>4, <1>5, <1>7, <1>9, <2>1, <2>2
<1>15. ASSUME ComfyRequests PROVE Goal
  <2>1. (\E run : RunWorkflow(run) \/ RunDefaultWorkflow(run)) \/ (\E s : PutSettings(s)) => file' = file
    BY DEF RunWorkflow, RunDefaultWorkflow, EnqueueRuns, PutSettings
  <2> QED BY <1>1, <1>12, <1>15, <2>1 DEF ComfyRequests
<1>16. ASSUME ComfySteps PROVE Goal
  <2>1. PICK r \in reqs : \/ RunStarts(r) \/ Upload(r) \/ SubmitPrompt(r) \/ OutputFound(r) \/ TimedOut(r)
                          \/ FetchForFace(r) \/ FetchForPhoto(r) \/ Checked(r) \/ Added(r) \/ Cleaned(r)
    BY <1>16 DEF ComfySteps
  <2>2. RunStarts(r) \/ Upload(r) \/ SubmitPrompt(r) \/ OutputFound(r) \/ TimedOut(r) \/ FetchForFace(r) \/ Cleaned(r) \/ Added(r)
        => file' = file
    BY DEF RunStarts, Upload, SubmitPrompt, OutputFound, TimedOut, FetchForFace, Cleaned, Added
  <2> QED BY <1>1, <1>10, <1>11, <2>1, <2>2
<1>17. Crash \/ (\E p : Rendering(p)) \/ ComfyStops \/ ComfyStarts => file' = file
  BY DEF Crash, Rendering, ComfyStops, ComfyStarts, vars
<1>18. Renaming => Goal
  BY DEF Goal
<1>19. Goal
  BY <1>1, <1>13, <1>14, <1>15, <1>16, <1>17, <1>18 DEF Next
<1> QED BY <1>19 DEF Goal

\* The rows say where versions and crops are, and what photos look like.
Placed == \A v \in DOMAIN db.version : db'.version[v].path = db.version[v].path

\* Only an overwrite moves a version, only a renamed folder a crop, and only a turn changes
\* what a photo looks like.
LEMMA RowsBeneath ==
  ASSUME EditInv, Next
  PROVE  /\ Placed \/ \E r \in reqs : Overwritten(r)
         /\ db'.crop = db.crop \/ Renaming
         /\ db'.photo = db.photo \/ \E r \in reqs : PhotoTurned(r)
<1> DEFINE Goal == /\ Placed \/ \E r \in reqs : Overwritten(r)
                   /\ db'.crop = db.crop \/ Renaming
                   /\ db'.photo = db.photo \/ \E r \in reqs : PhotoTurned(r)
<1>0. DOMAIN db = {"photo", "inst", "box", "crop", "version", "ledger", "derived"}
  BY DEF EditInv, RowsOk
<1>1. db' = db => Goal
  BY DEF Placed
<1>2. ASSUME NEW S, S \subseteq {"inst", "ledger", "derived", "box"}, \A x \in DOMAIN db \ S : db'[x] = db[x] PROVE Goal
  <2>1. db'.version = db.version /\ db'.crop = db.crop /\ db'.photo = db.photo
    BY <1>0, <1>2
  <2> QED BY <2>1 DEF Placed
<1>3. ASSUME \A x \in DOMAIN db \ {"version"} : db'[x] = db[x] PROVE db'.crop = db.crop /\ db'.photo = db.photo
  BY <1>0, <1>3
<1>4. ASSUME NEW r \in reqs, Overwritten(r) PROVE Goal
  <2>1. \A x \in DOMAIN db \ {"version"} : db'[x] = db[x]
    BY <1>4, OverwrittenRows
  <2> QED BY <1>3, <1>4, <2>1
<1>5. ASSUME NEW seen, NEW row, db' = AddVersion(db, seen, row) PROVE Goal
  <2>1. PICK d : d = db'
    OBVIOUS
  <2>2. RowsOk /\ d = AddVersion(db, seen, row)
    BY <1>5, <2>1 DEF EditInv
  <2>3. OneMore(d, seen, row)
    BY <2>2, Adding
  <2>4. \A x \in DOMAIN db \ {"version"} : db'[x] = db[x]
    BY <2>1, <2>3 DEF OneMore
  <2>5. Placed
    BY <1>5, AddingAside DEF Placed
  <2> QED BY <1>3, <2>4, <2>5
<1>6. ASSUME NEW r, Inserted(r) PROVE Goal
  <2>1. PICK seen, row : db' = AddVersion(db, seen, row)
    BY <1>6 DEF Inserted
  <2> HIDE DEF Goal
  <2> QED BY <1>5, <2>1
<1>7. ASSUME NEW r \in reqs, Switched(r) PROVE Goal
  <2>1. SwitchRows(r)
    BY <1>7, SwitchedRows
  <2>2. Placed
    BY <2>1 DEF Placed, SwitchRows, EditInv, RowsOk
  <2> QED BY <1>3, <2>1, <2>2 DEF SwitchRows
<1>8. ASSUME NEW r \in reqs, CopyTurned(r) PROVE Goal
  <2>1. /\ \A x \in DOMAIN db \ {"version"} : db'[x] = db[x]
        /\ \A v \in DOMAIN db.version : \A x \in DOMAIN db.version[v] \ {"shows"} : db'.version[v][x] = db.version[v][x]
    BY <1>8, CopyTurnedRows
  <2>2. Placed
    BY <2>1 DEF Placed, EditInv, RowsOk
  <2> QED BY <1>3, <2>1, <2>2
<1>9. ASSUME NEW r \in reqs, PhotoTurned(r) PROVE Goal
  <2>1. db'.crop = db.crop /\ db'.version = db.version
    BY <1>9, PhotoTurnedRows
  <2> QED BY <1>9, <2>1 DEF Placed
<1>10. ASSUME NEW r \in reqs, NEW found, Dedupe(r, found) PROVE Goal
  BY <1>10, DedupeRows DEF Placed
<1>11. ASSUME NEW i \in Inst, TrashOrRestore(i) PROVE Goal
  <2>1. \A x \in DOMAIN db \ {"inst"} : db'[x] = db[x]
    BY <1>11, TrashMoves
  <2> HIDE DEF Goal
  <2> QED BY <1>2, <2>1
<1>12. ASSUME Renaming PROVE Goal
  <2>1. PICK dir : RenameFolder(dir, "renamed")
    BY <1>12 DEF Renaming
  <2>2. \A x \in DOMAIN db \ {"inst", "crop"} : db'[x] = db[x]
    BY <2>1, RenameRows
  <2>3. db'.version = db.version /\ db'.photo = db.photo
    BY <1>0, <2>2
  <2> QED BY <1>12, <2>3 DEF Placed
<1>13. ASSUME NEW a, NEW pic, NEW path, NEW auto, NewPhoto(a, pic, path, auto) PROVE Goal
  <2>1. \A x \in DOMAIN db \ {"ledger"} : db'[x] = db[x]
    BY <1>13, NewPhotoRows
  <2> HIDE DEF Goal
  <2> QED BY <1>2, <2>1
<1> HIDE DEF Goal
<1>14. ASSUME Requests PROVE Goal
  <2>1. ASSUME NEW k PROVE (\E op \in Ops : ApplyStart(k, op)) \/ (\E seq : Rollback(k, seq)) \/ (\E mode : Save(k, mode)) => db' = db
    BY DEF ApplyStart, Rollback, Save
  <2>2. (\E S, op : BulkEdit(S, op)) \/ (\E t : GetThumbnail(t)) => db' = db
    BY DEF BulkEdit, GetThumbnail, ThumbMiss
  <2>3. \A a : ImportVersion(a) \/ (\E v : SetCurrent(a, v)) => db' = db
    BY DEF ImportVersion, SetCurrent
  <2> QED BY <1>1, <1>11, <1>14, <2>1, <2>2, <2>3 DEF Requests
<1>15. ASSUME Steps PROVE Goal
  <2>1. PICK r \in reqs :
           \/ ApplyDone(r)
           \/ Rendered(r) \/ Written(r) \/ Overwritten(r) \/ CurrentRead(r) \/ Inserted(r) \/ VersionThumb(r)
           \/ \E found : Dedupe(r, found)
           \/ TurnFile(r) \/ PhotoTurned(r) \/ ThumbsDropped(r) \/ CopyTurned(r)
           \/ BulkNext(r) \/ SiblingsRead(r) \/ Switched(r) \/ ThumbStored(r)
    BY <1>15 DEF Steps
  <2>2. ApplyDone(r) \/ Rendered(r) \/ Written(r) \/ CurrentRead(r) \/ VersionThumb(r) \/ TurnFile(r) \/ ThumbsDropped(r)
        \/ BulkNext(r) \/ SiblingsRead(r) \/ ThumbStored(r) => db' = db
    BY DEF ApplyDone, Rendered, Written, CurrentRead, VersionThumb, TurnFile, ThumbsDropped, BulkNext, SiblingsRead, ThumbStored
  <2> QED BY <1>1, <1>4, <1>6, <1>7, <1>8, <1>9, <1>10, <2>1, <2>2
<1>16. ASSUME ComfyRequests PROVE Goal
  <2>1. (\E run : RunWorkflow(run) \/ RunDefaultWorkflow(run)) \/ (\E s : PutSettings(s)) => db' = db
    BY DEF RunWorkflow, RunDefaultWorkflow, EnqueueRuns, PutSettings
  <2>2. ASSUME NEW a, NEW q, ImportResult(a, q) PROVE Goal
    BY <1>13, <2>2 DEF ImportResult
  <2> QED BY <1>1, <1>16, <2>1, <2>2 DEF ComfyRequests
<1>17. ASSUME ComfySteps PROVE Goal
  <2>1. PICK r \in reqs : \/ RunStarts(r) \/ Upload(r) \/ SubmitPrompt(r) \/ OutputFound(r) \/ TimedOut(r)
                          \/ FetchForFace(r) \/ FetchForPhoto(r) \/ Checked(r) \/ Added(r) \/ Cleaned(r)
    BY <1>17 DEF ComfySteps
  <2>2. Added(r) \/ db' = db
    BY <2>1 DEF RunStarts, Upload, SubmitPrompt, OutputFound, TimedOut, FetchForFace, FetchForPhoto, Checked, Cleaned
  <2>3. Added(r) => Goal
    BY <1>1, <1>13 DEF Added
  <2> QED BY <1>1, <2>2, <2>3
<1>18. Crash \/ (\E p : Rendering(p)) \/ ComfyStops \/ ComfyStarts => db' = db
  BY DEF Crash, Rendering, ComfyStops, ComfyStarts, vars
<1>19. Goal
  BY <1>1, <1>12, <1>14, <1>15, <1>16, <1>17, <1>18 DEF Next
<1> QED BY <1>19 DEF Goal

-----------------------------------------------------------------------------
(* Thumbnails.                                                               *)

\* Request q will replace or remove thumbnail t.
Renews(q, t) ==
    IF t[1] = "asset" THEN q.kind = "drop" /\ q.target[2] = t[2]
    ELSE \/ q.kind = "turn" /\ q.target = <<t[1], t[2]>>
         \/ t[1] = "version" /\ q.kind \in {"write", "commit", "thumb"} /\ q.row = t[2]

\* Thumbnail t shows the picture it is of.
Shows(t) ==
    IF t[1] = "asset" THEN thumb[t] = db.photo[t[2]].hash
    ELSE PathOfCopy(t) \in DOMAIN file => thumb[t] = file[PathOfCopy(t)]

\* A thumbnail is fresh if it shows its picture, or a request renews it.
LEMMA FreshIs ==
  ASSUME NEW t
  PROVE  Fresh(t) <=> Shows(t) \/ \E q \in reqs : Renews(q, t)
BY DEF Fresh, Shows, Renews, TurnsOf

\* So it is after a step.
LEMMA FreshThen ==
  ASSUME NEW t
  PROVE  Fresh(t)' <=> Shows(t)' \/ \E q \in reqs' : Renews(q, t)
BY DEF Fresh, Shows, Renews, TurnsOf

\* A thumbnail of something there is.
Owned(t) == Thumbnail(t) /\ (t[1] = "version" => t[2] \in DOMAIN db.version)

\* What it is of stays as it is.
Rests(t) ==
    IF t[1] = "asset" THEN db'.photo[t[2]].hash = db.photo[t[2]].hash
    ELSE PathOfCopy(t)' = PathOfCopy(t) /\ Same(PathOfCopy(t))

\* A thumbnail of what stays as it is goes on showing it.
LEMMA RestsShown ==
  ASSUME NEW t, Shows(t), Rests(t), thumb'[t] = thumb[t]
  PROVE  Shows(t)'
<1>1. CASE t[1] = "asset"
  BY <1>1 DEF Shows, Rests
<1>2. CASE t[1] # "asset"
  <2>1. PICK x : x = PathOfCopy(t)
    OBVIOUS
  <2>2. PathOfCopy(t)' = x /\ Same(x) /\ (x \in DOMAIN file => thumb[t] = file[x])
    BY <1>2, <2>1 DEF Shows, Rests
  <2>3. x \in DOMAIN file' => thumb'[t] = file'[x]
    BY <2>2 DEF Same
  <2> QED BY <1>2, <2>2, <2>3 DEF Shows
<1> QED BY <1>1, <1>2

\* An overwrite of a version goes on to write its row, and then to make its thumbnail.
LEMMA WritersGoOn ==
  ASSUME EditInv, NEW r \in reqs, Written(r) \/ Overwritten(r), NEW t, t[1] = "version", r.row = t[2]
  PROVE  \E q \in reqs' : Renews(q, t)
<1>1. PICK kind : kind \in {"commit", "thumb"} /\ GoesOn(r, [kind |-> kind])
  BY DEF Written, Overwritten
<1>2. PICK s : /\ reqs' = (reqs \ {r}) \cup {s} /\ DOMAIN s = DOMAIN r /\ s.kind = kind /\ s.n = r.n
               /\ \A x \in DOMAIN r : x # "kind" => s[x] = r[x]
  BY <1>1, GoesOnAs
<1>3. "row" \in DOMAIN r
  BY DEF Written, Overwritten, EditInv, Fits, Shaped, Writing
<1>4. s \in reqs' /\ s.row = t[2]
  BY <1>2, <1>3
<1> QED BY <1>1, <1>2, <1>4 DEF Renews

\* A turn goes on when it has turned a file.
LEMMA TurnGoesOn ==
  ASSUME EditInv, NEW r \in reqs, TurnFile(r), file' # file
  PROVE  \E s \in reqs' : s.kind = "turn" /\ s.target = r.target /\ s.n = r.n
<1>1. PICK s : reqs' = (reqs \ {r}) \cup {s} /\ \A x \in DOMAIN r : x \notin {"done", "from"} => s[x] = r[x]
  BY TurnFileMakes
<1>2. {"kind", "target", "n"} \subseteq DOMAIN r /\ r.kind = "turn"
  BY DEF TurnFile, EditInv, NamesOk, Fits, Shaped, Turning
<1>3. s.kind = "turn" /\ s.target = r.target /\ s.n = r.n
  BY <1>1, <1>2
<1> QED BY <1>1, <1>3

\* Two versions have two names.
LEMMA OneName ==
  ASSUME EditInv, NEW u \in DOMAIN db.version, NEW v \in DOMAIN db.version, NameOf(db, u) = NameOf(db, v)
  PROVE  u = v
<1>1. \A w, z \in DOMAIN db.version : w # z => NameOf(db, w) # NameOf(db, z)
  BY DEF EditInv, RowsOk
<1> QED BY <1>1

\* A turned photo leaves the others as they are.
LEMMA OtherPhotos ==
  ASSUME EditInv, NEW r \in reqs, PhotoTurned(r), NEW a \in Asset, a # r.target[2]
  PROVE  db'.photo[a] = db.photo[a]
<1> DEFINE b == r.target[2]
           p == file[r.paths[r.first]]
           new == [hash |-> p, size |-> FoldLeft(SizeAfter, r.from, r.ops)]
           ledger == Rekeyed(db.ledger, r.hash, p)
           box == BoxesTurned(db, b, r.ops, r.from)
<1>1. db' = db \/ db' = [db EXCEPT !.photo[b] = new, !.ledger = ledger, !.box = box]
  BY DEF PhotoTurned
<1>2. a # b
  OBVIOUS
<1> HIDE DEF new, ledger, box, b
<1>3. DOMAIN db = {"photo", "inst", "box", "crop", "version", "ledger", "derived"} /\ DOMAIN db.photo = Asset
  BY DEF EditInv, RowsOk
<1> QED BY <1>1, <1>2, <1>3

\* A version's thumbnail: a request that writes its file, or turns it, is under way afterwards.
LEMMA VersionBeneath ==
  ASSUME EditInv, Next, NEW t, Owned(t), t[1] = "version", ~Renaming
  PROVE  Rests(t) \/ \E q \in reqs' : Renews(q, t)
<1>1. PICK v, x : v = t[2] /\ x = db.version[v].path
  OBVIOUS
<1>2. v \in DOMAIN db.version /\ x.sub = "edits" /\ x.name = NameOf(db, v) /\ PathOfCopy(t) = x
  BY <1>1 DEF Owned, EditInv, RowsOk, NameOf, PathOfCopy
<1>3. PathOfCopy(t)' = db'.version[v].path
  BY <1>1 DEF PathOfCopy
<1>4. CASE \E r \in reqs : Overwritten(r) /\ r.row = v
  BY <1>1, <1>4, WritersGoOn
<1>5. CASE ~\E r \in reqs : Overwritten(r) /\ r.row = v
  <2>1. PathOfCopy(t)' = x
    <3>1. CASE Placed
      BY <1>1, <1>2, <1>3, <3>1 DEF Placed
    <3>2. CASE \E r \in reqs : Overwritten(r)
      <4>1. PICK r \in reqs : Overwritten(r)
        BY <3>2
      <4>2. db'.version[v] = db.version[v]
        BY <1>2, <1>5, <4>1, OverwrittenRows
      <4> QED BY <1>1, <1>3, <4>2
    <3> QED BY <3>1, <3>2, RowsBeneath
  <2>2. CASE Same(x)
    BY <1>2, <2>1, <2>2 DEF Rests
  <2>3. CASE x.name = NewName \/ \E r \in reqs : x.name \in Claims(r)
    BY <1>2, <2>3, NamesOld, NotVersions
  <2>4. ASSUME NEW r \in reqs, Written(r), x = r.path PROVE Rests(t) \/ \E q \in reqs' : Renews(q, t)
    <3>1. r.kind = "write" /\ {"kind", "n"} \subseteq DOMAIN r /\ Shaped(r)
      BY <2>4 DEF Written, EditInv, NamesOk, Fits
    <3>2. CASE r.row = Nothing
      <4>1. r.n \in Claims(r) /\ x.name = r.n
        BY <2>4, <3>1, <3>2 DEF Claims, Shaped, Writing
      <4> QED BY <1>2, <4>1, NotVersions
    <3>3. CASE r.row # Nothing
      <4>1. r.row \in DOMAIN db.version /\ x.name = NameOf(db, r.row)
        BY <2>4, <3>1, <3>3 DEF Shaped
      <4>2. r.row = v
        BY <1>2, <4>1, OneName
      <4> QED BY <1>1, <2>4, <4>2, WritersGoOn
    <3> QED BY <3>2, <3>3
  <2>5. ASSUME NEW r \in reqs, TurnFile(r), file' # file, NEW j \in DOMAIN r.paths, x = r.paths[j] PROVE \E q \in reqs' : Renews(q, t)
    <3>1. r.kind = "turn"
      BY <2>5 DEF TurnFile
    <3>2. r.target[1] = "version" /\ r.target[2] \in DOMAIN db.version /\ x.name = NameOf(db, r.target[2])
      BY <1>2, <2>5, <3>1, TurnedName
    <3>3. r.target[2] = v
      BY <1>2, <3>2, OneName
    <3>4. r.target = <<r.target[1], r.target[2]>>
      BY <3>1 DEF EditInv, Fits, Shaped, Turning
    <3>5. r.target = <<t[1], t[2]>>
      BY <1>1, <3>2, <3>3, <3>4
    <3> QED BY <2>5, <3>5, TurnGoesOn DEF Renews
  <2> QED BY <1>2, <2>2, <2>3, <2>4, <2>5, FilesBeneath
<1> QED BY <1>4, <1>5

\* A crop's.
LEMMA CropBeneath ==
  ASSUME EditInv, Next, NEW t, Owned(t), t[1] = "face", ~Renaming
  PROVE  Rests(t) \/ \E q \in reqs' : Renews(q, t)
<1>1. PICK f, x : f = t[2] /\ x = db.crop[f]
  OBVIOUS
<1>2. f \in Face /\ x.sub = "faces" /\ Len(x.name) # 2 /\ PathOfCopy(t) = x
  BY <1>1 DEF Owned, Thumbnail, EditInv, RowsOk, PathOfCopy
<1>3. PathOfCopy(t)' = db'.crop[f]
  BY <1>1 DEF PathOfCopy
<1>4. PathOfCopy(t)' = x
  BY <1>1, <1>3, RowsBeneath
<1>5. CASE Same(x)
  BY <1>2, <1>4, <1>5 DEF Rests
<1>6. ASSUME NEW r \in reqs, Written(r) PROVE x # r.path
  BY <1>2, <1>6 DEF Written, EditInv, Fits, Shaped, Writing
<1>7. ASSUME NEW r \in reqs, TurnFile(r), file' # file, NEW j \in DOMAIN r.paths, x = r.paths[j] PROVE \E q \in reqs' : Renews(q, t)
  <2>1. r.kind = "turn" /\ Turning(r)
    BY <1>7 DEF TurnFile, EditInv, Fits, Shaped
  <2>2. r.target[1] = "face" /\ r.target[2] \in Face /\ x.name = db.crop[r.target[2]].name
    BY <1>2, <1>7, <2>1 DEF Turning
  <2>3. r.target[2] = f
    BY <1>1, <1>2, <2>2 DEF EditInv, RowsOk
  <2>4. r.target = <<t[1], t[2]>>
    BY <1>1, <2>1, <2>2, <2>3 DEF Turning
  <2> QED BY <1>7, <2>4, TurnGoesOn DEF Renews
<1>8. x.sub # "edits"
  BY <1>2
<1> QED BY <1>2, <1>5, <1>6, <1>7, <1>8, FilesBeneath

\* A photo's.
LEMMA PhotoBeneath ==
  ASSUME EditInv, Next, NEW t, Owned(t), t[1] = "asset"
  PROVE  Rests(t) \/ \E q \in reqs' : Renews(q, t)
<1>1. PICK a : a = t[2]
  OBVIOUS
<1>2. a \in Asset
  BY <1>1 DEF Owned, Thumbnail
<1>3. CASE db'.photo = db.photo
  BY <1>3 DEF Rests
<1>4. ASSUME NEW r \in reqs, PhotoTurned(r), db' # db PROVE Rests(t) \/ \E q \in reqs' : Renews(q, t)
  <2>1. GoesOn(r, [kind |-> "drop"])
    BY <1>4 DEF PhotoTurned
  <2>2. PICK s : /\ reqs' = (reqs \ {r}) \cup {s} /\ DOMAIN s = DOMAIN r /\ s.kind = "drop" /\ s.n = r.n
                 /\ \A x \in DOMAIN r : x # "kind" => s[x] = r[x]
    BY <2>1, GoesOnAs
  <2>3. "target" \in DOMAIN r
    BY <1>4 DEF PhotoTurned, EditInv, Fits, Shaped, Turning
  <2>4. s \in reqs' /\ s.target = r.target
    BY <2>2, <2>3
  <2>5. CASE r.target[2] = a
    BY <1>1, <2>2, <2>4, <2>5 DEF Renews
  <2>6. CASE r.target[2] # a
    <3>1. db'.photo[a] = db.photo[a]
      BY <1>2, <1>4, <2>6, OtherPhotos
    <3> QED BY <1>1, <3>1 DEF Rests
  <2> QED BY <2>5, <2>6
<1> QED BY <1>3, <1>4, RowsBeneath

\* What any thumbnail is of stays as it is, or a request under way renews the thumbnail.
LEMMA Beneath ==
  ASSUME EditInv, Next, NEW t, Owned(t), t[1] = "asset" \/ ~Renaming
  PROVE  Rests(t) \/ \E q \in reqs' : Renews(q, t)
BY VersionBeneath, CropBeneath, PhotoBeneath DEF Owned, Thumbnail

-----------------------------------------------------------------------------
(* Thumbnails follow.                                                        *)

\* A request that will replace a thumbnail keeps at it until it does, unless it is cut short.
LEMMA RenewerStays ==
  ASSUME EditInv, Next, NEW t, Owned(t), NEW q \in reqs, Renews(q, t)
  PROVE  \/ \E s \in reqs' : Renews(s, t)
         \/ VersionThumb(q) \/ CopyTurned(q) \/ ThumbsDropped(q) \/ Cut(q) \/ Crash
<1>1. CASE q \in reqs' \/ Crash
  BY <1>1
<1>2. CASE q \notin reqs' /\ ~Crash
  <2>1. t[1] \in {"asset", "version", "face"} /\ (t[1] = "version" => t[2] # Nothing)
    BY NoVersion DEF Owned, Thumbnail
  <2>2. q.kind \in {"turn", "drop", "write", "commit", "thumb"}
    BY DEF Renews
  <2>3. CASE Written(q) \/ Overwritten(q)
    <3>1. t[1] = "version" /\ q.row = t[2]
      BY <2>1, <2>3 DEF Written, Overwritten, Renews
    <3> QED BY <2>3, <3>1, WritersGoOn
  <2>4. CASE CurrentRead(q)
    <3>1. q.kind = "commit" /\ q.row = Nothing
      BY <2>4 DEF CurrentRead
    <3> QED BY <2>1, <3>1 DEF Renews
  <2>7. ~Inserted(q)
    BY <2>2 DEF Inserted
  <2>5. CASE TurnFile(q)
    <3>1. q.kind = "turn" /\ db' = db
      BY <2>5 DEF TurnFile
    <3>2. CASE file' # file
      BY <2>5, <3>1, <3>2, TurnGoesOn DEF Renews
    <3>3. ASSUME NEW s \in reqs', s.n = q.n PROVE Renews(s, t)
      <4>1. PICK u : u = s
        OBVIOUS
      <4>2. reqs' = reqs \ {q} \/ \E z : reqs' = (reqs \ {q}) \cup {z} /\ DOMAIN z = DOMAIN q
                                         /\ \A x \in DOMAIN q : x \notin {"done", "from"} => z[x] = q[x]
        BY <2>5, TurnFileMakes
      <4>3. s \notin reqs \ {q}
        BY <3>3 DEF EditInv, NamesOk
      <4>4. \A x \in DOMAIN q : x \notin {"done", "from"} => s[x] = q[x]
        BY <4>2, <4>3
      <4>5. {"kind", "target"} \subseteq DOMAIN q
        BY <3>1 DEF EditInv, NamesOk, Fits, Shaped, Turning
      <4>6. s.kind = q.kind /\ s.target = q.target
        BY <4>4, <4>5
      <4> QED BY <3>1, <4>6 DEF Renews
    <3>4. CASE ~\E s \in reqs' : s.n = q.n
      BY <3>1, <3>4 DEF Cut
    <3> QED BY <3>3, <3>4
  <2>6. CASE PhotoTurned(q)
    <3>1. q.kind = "turn" /\ q.target[1] = "instance"
      BY <2>6 DEF PhotoTurned
    <3> QED BY <2>1, <3>1 DEF Renews
  <2> QED BY <1>2, <2>2, <2>3, <2>4, <2>5, <2>6, <2>7, Actor
<1> QED BY <1>1, <1>2

\* Who makes thumbnails.
LEMMA ThumbsChange ==
  ASSUME Next, NEW t \in DOMAIN thumb'
  PROVE  \/ t \in DOMAIN thumb /\ thumb'[t] = thumb[t]
         \/ \E r \in reqs : \/ ThumbStored(r) /\ r.of = t
                            \/ VersionThumb(r) /\ t = <<"version", r.row, "small">>
                            \/ CopyTurned(r) /\ t = <<r.target[1], r.target[2], "small">>
<1> DEFINE Goal == \/ t \in DOMAIN thumb /\ thumb'[t] = thumb[t]
                   \/ \E r \in reqs : \/ ThumbStored(r) /\ r.of = t
                                      \/ VersionThumb(r) /\ t = <<"version", r.row, "small">>
                                      \/ CopyTurned(r) /\ t = <<r.target[1], r.target[2], "small">>
<1>1. thumb' = thumb => Goal
  OBVIOUS
<1>2. ASSUME NEW u, NEW pic, thumb' = Put(thumb, u, pic) PROVE t = u \/ (t \in DOMAIN thumb /\ thumb'[t] = thumb[t])
  BY <1>2 DEF Put
<1>3. ASSUME NEW r \in reqs, ThumbStored(r) PROVE Goal
  <2>1. thumb' = Put(thumb, r.of, r.pic)
    BY <1>3 DEF ThumbStored
  <2> QED BY <1>2, <1>3, <2>1
<1>4. ASSUME NEW r \in reqs, VersionThumb(r) PROVE Goal
  <2>1. thumb' = thumb \/ \E pic : thumb' = Put(thumb, <<"version", r.row, "small">>, pic)
    BY <1>4 DEF VersionThumb
  <2> QED BY <1>2, <1>4, <2>1
<1>5. ASSUME NEW r \in reqs, CopyTurned(r) PROVE Goal
  <2>1. thumb' = thumb \/ \E pic : thumb' = Put(thumb, <<r.target[1], r.target[2], "small">>, pic)
    BY <1>5 DEF CopyTurned
  <2> QED BY <1>2, <1>5, <2>1
<1>6. ASSUME NEW r \in reqs, ThumbsDropped(r) PROVE Goal
  BY <1>6 DEF ThumbsDropped
<1> HIDE DEF Goal
<1>7. ASSUME Requests PROVE Goal
  <2>1. ASSUME NEW k PROVE (\E op \in Ops : ApplyStart(k, op)) \/ (\E seq : Rollback(k, seq)) \/ (\E mode : Save(k, mode)) => thumb' = thumb
    BY DEF ApplyStart, Rollback, Save
  <2>2. (\E S, op : BulkEdit(S, op)) \/ (\E u : GetThumbnail(u)) \/ (\E a, v : SetCurrent(a, v)) => thumb' = thumb
    BY DEF BulkEdit, GetThumbnail, ThumbMiss, SetCurrent
  <2>3. (\E a : ImportVersion(a)) \/ (\E i : TrashOrRestore(i)) => thumb' = thumb
    BY DEF ImportVersion, TrashOrRestore
  <2> QED BY <1>1, <1>7, <2>1, <2>2, <2>3 DEF Requests
<1>8. ASSUME Steps PROVE Goal
  <2>1. PICK r \in reqs :
           \/ ApplyDone(r)
           \/ Rendered(r) \/ Written(r) \/ Overwritten(r) \/ CurrentRead(r) \/ Inserted(r) \/ VersionThumb(r)
           \/ \E found : Dedupe(r, found)
           \/ TurnFile(r) \/ PhotoTurned(r) \/ ThumbsDropped(r) \/ CopyTurned(r)
           \/ BulkNext(r) \/ SiblingsRead(r) \/ Switched(r) \/ ThumbStored(r)
    BY <1>8 DEF Steps
  <2>2. ApplyDone(r) \/ Rendered(r) \/ Written(r) \/ Overwritten(r) \/ CurrentRead(r) \/ Inserted(r)
        \/ TurnFile(r) \/ PhotoTurned(r) \/ BulkNext(r) \/ SiblingsRead(r) \/ Switched(r) => thumb' = thumb
    BY DEF ApplyDone, Rendered, Written, Overwritten, CurrentRead, Inserted, TurnFile, PhotoTurned, BulkNext, SiblingsRead, Switched
  <2>3. (\E found : Dedupe(r, found)) => thumb' = thumb
    BY DEF Dedupe
  <2> QED BY <1>1, <1>3, <1>4, <1>5, <1>6, <2>1, <2>2, <2>3
<1>9. ASSUME ComfyRequests PROVE Goal
  <2>1. (\E run : RunWorkflow(run) \/ RunDefaultWorkflow(run)) \/ (\E s : PutSettings(s)) \/ (\E a, q : ImportResult(a, q)) => thumb' = thumb
    BY DEF RunWorkflow, RunDefaultWorkflow, EnqueueRuns, PutSettings, ImportResult
  <2> QED BY <1>1, <1>9, <2>1 DEF ComfyRequests
<1>10. ASSUME ComfySteps PROVE Goal
  <2>1. PICK r \in reqs : \/ RunStarts(r) \/ Upload(r) \/ SubmitPrompt(r) \/ OutputFound(r) \/ TimedOut(r)
                          \/ FetchForFace(r) \/ FetchForPhoto(r) \/ Checked(r) \/ Added(r) \/ Cleaned(r)
    BY <1>10 DEF ComfySteps
  <2>2. thumb' = thumb
    BY <2>1 DEF RunStarts, Upload, SubmitPrompt, OutputFound, TimedOut, FetchForFace, FetchForPhoto, Checked, Added, Cleaned
  <2> QED BY <1>1, <2>2
<1>11. Crash \/ Renaming \/ (\E p : Rendering(p)) \/ ComfyStops \/ ComfyStarts => thumb' = thumb
  BY DEF Crash, Renaming, RenameFolder, Rendering, ComfyStops, ComfyStarts, vars
<1>12. Goal
  BY <1>1, <1>7, <1>8, <1>9, <1>10, <1>11 DEF Next
<1> QED BY <1>12 DEF Goal

\* The thumbnail made after a save shows the version's file.
LEMMA VersionThumbFresh ==
  ASSUME EditInv, NEW r \in reqs, VersionThumb(r), NEW t \in DOMAIN thumb', Owned(t), t[1] = "version", t[2] = r.row, t[3] # "large"
  PROVE  Fresh(t)' \/ OldPath(r, t)
<1>1. t = <<"version", r.row, "small">>
  BY DEF Owned, Thumbnail
<1>2. db' = db /\ file' = file /\ thumb' = IF r.path \in DOMAIN file THEN Put(thumb, t, file[r.path]) ELSE thumb
  BY <1>1 DEF VersionThumb
<1>3. CASE r.path # PathOfCopy(t)
  BY <1>3 DEF OldPath
<1>4. CASE r.path = PathOfCopy(t)
  <2>1. PICK x : x = r.path
    OBVIOUS
  <2>2. PathOfCopy(t)' = x
    BY <1>2, <1>4, <2>1 DEF PathOfCopy
  <2>3. x \in DOMAIN file => thumb'[t] = file[x]
    BY <1>2, <2>1 DEF Put
  <2>4. x \in DOMAIN file' => thumb'[t] = file'[x]
    BY <1>2, <2>3
  <2>5. Shows(t)'
    BY <2>2, <2>4 DEF Shows
  <2> QED BY <2>5, FreshThen
<1> QED BY <1>3, <1>4

\* The one made after a turn shows the file that was turned.
LEMMA CopyTurnedFresh ==
  ASSUME EditInv, NEW r \in reqs, CopyTurned(r), NEW t \in DOMAIN thumb', Owned(t), r.target = <<t[1], t[2]>>, t[3] # "large"
  PROVE  Fresh(t)' \/ OldPath(r, t)
<1>0. r.target[1] = t[1] /\ r.target[2] = t[2]
  OBVIOUS
<1>1. t = <<r.target[1], r.target[2], "small">>
  BY <1>0 DEF Owned, Thumbnail
<1>2. r.target[1] \in {"version", "face"} /\ file' = file /\ \A x \in DOMAIN db \ {"version"} : db'[x] = db[x]
  BY CopyTurnedRows
<1>3. thumb' = IF r.paths[0] \in DOMAIN file THEN Put(thumb, t, file[r.paths[0]]) ELSE thumb
  BY <1>1 DEF CopyTurned
<1>4. CASE r.paths[0] # PathOfCopy(t)
  BY <1>4 DEF OldPath
<1>5. CASE r.paths[0] = PathOfCopy(t)
  <2>1. PICK x : x = r.paths[0]
    OBVIOUS
  <2>2. PathOfCopy(t)' = x
    <3>1. CASE t[1] = "version"
      <4>1. t[2] \in DOMAIN db.version /\ DOMAIN db.version[t[2]] = {"of", "parent", "path", "current", "shows"}
        BY <3>1 DEF Owned, EditInv, RowsOk
      <4>2. \A v \in DOMAIN db.version : \A y \in DOMAIN db.version[v] \ {"shows"} : db'.version[v][y] = db.version[v][y]
        BY CopyTurnedRows
      <4>3. db'.version[t[2]].path = db.version[t[2]].path
        BY <4>1, <4>2
      <4> QED BY <1>5, <2>1, <3>1, <4>3 DEF PathOfCopy
    <3>2. CASE t[1] # "version"
      <4>1. db'.crop = db.crop
        BY <1>2 DEF EditInv, RowsOk
      <4> QED BY <1>5, <2>1, <3>2, <4>1 DEF PathOfCopy
    <3> QED BY <3>1, <3>2
  <2>3. x \in DOMAIN file => thumb'[t] = file[x]
    BY <1>3, <2>1 DEF Put
  <2>4. x \in DOMAIN file' => thumb'[t] = file'[x]
    BY <1>2, <2>3
  <2>5. t[1] # "asset"
    BY <1>0, <1>2
  <2>6. Shows(t)'
    BY <2>2, <2>4, <2>5 DEF Shows
  <2> QED BY <2>6, FreshThen
<1> QED BY <1>4, <1>5

\* What may leave thumbnail t behind.
Spoils(t) ==
    \/ t[3] = "large"
    \/ \E r \in reqs : (r.kind = "get" /\ r.of = t /\ ThumbStored(r)) \/ OldPath(r, t)
    \/ t[1] # "asset" /\ Renames
    \/ Crash \/ \E r \in reqs : Cut(r)

\* One that follows goes on doing so.
LEMMA ThumbFollows ==
  ASSUME EditInv, EditInv', Next, NEW t \in DOMAIN thumb', t \in DOMAIN thumb => Fresh(t)
  PROVE  Fresh(t)' \/ Spoils(t)
<1>1. Thumbnail(t)
  BY DEF EditInv, ThumbsOk
<1>2. CASE t[3] = "large"
  BY <1>2 DEF Spoils
<1>3. ASSUME NEW r \in reqs, ThumbStored(r), r.of = t PROVE Spoils(t)
  BY <1>3 DEF Spoils, ThumbStored
<1>4. ASSUME NEW r \in reqs, VersionThumb(r), t[3] # "large", t[1] = "version", t[2] = r.row PROVE Fresh(t)' \/ Spoils(t)
  <2>1. r.row \in DOMAIN db.version
    BY <1>4 DEF VersionThumb, EditInv, Fits, Shaped
  <2>2. Owned(t)
    BY <1>1, <1>4, <2>1 DEF Owned
  <2> QED BY <1>4, <2>2, VersionThumbFresh DEF Spoils
<1>5. ASSUME NEW r \in reqs, CopyTurned(r), t[3] # "large", r.target = <<t[1], t[2]>> PROVE Fresh(t)' \/ Spoils(t)
  <2>1. t[1] = "version" => t[2] \in DOMAIN db.version
    BY <1>5, CopyTurnedRows
  <2>2. Owned(t)
    BY <1>1, <2>1 DEF Owned
  <2> QED BY <1>5, <2>2, CopyTurnedFresh DEF Spoils
<1>6. ASSUME t \in DOMAIN thumb, thumb'[t] = thumb[t], t[3] # "large" PROVE Fresh(t)' \/ Spoils(t)
  <2>1. Owned(t)
    BY <1>6 DEF Owned, EditInv, ThumbsOk
  <2>2. CASE t[1] # "asset" /\ Renaming
    <3>1. Renames
      BY <2>2 DEF Renaming, Renames
    <3> QED BY <2>2, <3>1 DEF Spoils
  <2>3. CASE Shows(t) /\ (t[1] = "asset" \/ ~Renaming)
    <3>1. Rests(t) \/ \E q \in reqs' : Renews(q, t)
      BY <2>1, <2>3, Beneath
    <3> QED BY <1>6, <2>3, <3>1, RestsShown, FreshThen
  <2>4. ASSUME NEW q \in reqs, Renews(q, t) PROVE Fresh(t)' \/ Spoils(t)
    <3>1. CASE \E s \in reqs' : Renews(s, t)
      BY <3>1, FreshThen
    <3>2. CASE VersionThumb(q)
      <4>1. t[1] = "version" /\ q.row = t[2]
        BY <2>4, <3>2 DEF VersionThumb, Renews
      <4> QED BY <1>4, <1>6, <3>2, <4>1
    <3>3. CASE CopyTurned(q)
      <4>1. q.target = <<t[1], t[2]>>
        BY <2>4, <3>3 DEF CopyTurned, Renews
      <4> QED BY <1>5, <1>6, <3>3, <4>1
    <3>4. CASE ThumbsDropped(q)
      <4>1. t[1] = "asset" /\ q.target[2] = t[2]
        BY <2>4, <3>4 DEF ThumbsDropped, Renews
      <4>2. t \notin DOMAIN thumb'
        BY <3>4, <4>1 DEF ThumbsDropped
      <4> QED BY <4>2
    <3>5. CASE Cut(q) \/ Crash
      BY <3>5 DEF Spoils
    <3> QED BY <2>1, <2>4, <3>1, <3>2, <3>3, <3>4, <3>5, RenewerStays
  <2>5. Shows(t) \/ \E q \in reqs : Renews(q, t)
    BY <1>6, FreshIs
  <2> QED BY <2>2, <2>3, <2>4, <2>5
<1>7. ASSUME NEW r \in reqs, CopyTurned(r), t = <<r.target[1], r.target[2], "small">> PROVE r.target = <<t[1], t[2]>>
  <2>1. r.target = <<r.target[1], r.target[2]>>
    BY <1>7, CopyTurnedRows
  <2>2. t[1] = r.target[1] /\ t[2] = r.target[2]
    BY <1>7
  <2> QED BY <2>1, <2>2
<1>8. ASSUME NEW r \in reqs, VersionThumb(r), t = <<"version", r.row, "small">> PROVE Fresh(t)' \/ Spoils(t)
  <2>1. t[1] = "version" /\ t[2] = r.row
    BY <1>8
  <2> QED BY <1>2, <1>4, <1>8, <2>1
<1> QED BY <1>2, <1>3, <1>5, <1>6, <1>7, <1>8, ThumbsChange

\* A thumbnail shows the picture it is of or is about to be replaced (ThumbsFollow): whatever
\* saves, turns, imports and bulk edits of any number of photos, versions and faces come
\* between, a request that has changed a picture ends by refreshing what is cached of it.
THEOREM EditsRefreshThumbs == Spec => ThumbsFollow
<1> DEFINE Body == \A t \in DOMAIN thumb' : (t \in DOMAIN thumb => Fresh(t)) => Fresh(t)' \/ Spoils(t)
<1>1. EditInv /\ SessionsOk /\ (EditInv /\ SessionsOk)' /\ [Next]_<<vars, comfyVars>> => [Body]_vars
  <2>1. ASSUME EditInv, EditInv', Next PROVE Body
    BY <2>1, ThumbFollows
  <2>2. UNCHANGED <<vars, comfyVars>> => UNCHANGED vars
    OBVIOUS
  <2> QED BY <2>1, <2>2
<1>2. Body <=> \A t \in DOMAIN thumb' : (t \in DOMAIN thumb => Fresh(t)) =>
          \/ Fresh(t)'
          \/ t[3] = "large"
          \/ \E r \in reqs : (r.kind = "get" /\ r.of = t /\ ThumbStored(r)) \/ OldPath(r, t)
          \/ t[1] # "asset" /\ Renames
          \/ Crash \/ \E r \in reqs : Cut(r)
  BY DEF Spoils
<1>3. ThumbsFollow <=> [][Body]_vars
  BY <1>2, PTL DEF ThumbsFollow
<1> HIDE DEF Body
<1> QED BY <1>1, <1>3, EditsInvariant, PTL DEF Spec
=============================================================================
