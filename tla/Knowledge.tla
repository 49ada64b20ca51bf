----------------------------- MODULE Knowledge -----------------------------
(***************************************************************************)
(* The knowledge base: notes kept as Markdown files in the vault, the cache *)
(* of them in the database, the tasks derived from them and the             *)
(* recommendations that rest on their links.                                *)
(*                                                                         *)
(* A call reads the note from its file, writes the file, and only then      *)
(* brings cache, tasks and recommendations up to date in one transaction.   *)
(* Handlers of the API run on one event loop and do not interrupt each      *)
(* other from reading to writing the file; jobs run in threads and do.      *)
(***************************************************************************)
EXTENDS Integers, FiniteSets, FiniteSetsExt, TLC

CONSTANTS
    Notes, People, Photos,
    Fields,        \* fields the domain defines for the type of every note
    Alike,         \* pairs <<note, person>> whose title and name are nearly the same
    Callers,       \* calls that may be under way at a time
    None,
    Worlds         \* initial files, photos shown, calls that may be made, and uses left

VARIABLES
    file,        \* vault: a note or None
    row,         \* cache: entity row and its child rows
    tasks,       \* open tasks
    call,        \* calls under way
    sync,        \* rebuild or reconcile that has the lock of the database
    opening,     \* what a reconcile has read before it has the lock
    people,      \* persons that exist and have a name
    leaving,     \* persons that are being deleted
    shows,       \* persons on each photo
    rec,         \* recommendation_cache
    found,       \* recommendations a job has computed and not stored
    private,     \* notes of private domains
    raced,       \* notes whose cache may differ: calls overlapped, a call failed or was cut off
                 \* after it wrote the file, a reconcile was overtaken before it had the lock, or
                 \* the file was edited by hand
    unread,      \* notes whose open tasks need not be right: as raced, or synced since
    leak,        \* recommendations of photos whose links have changed without invalidating them
    mayCall,     \* calls that may be made (a bound)
    left         \* uses left of the bounded actions (a bound)
ghosts == <<raced, unread, leak>>
syncing == <<sync, opening>>
fixed  == <<private, mayCall>>
base   == <<file, row, tasks, call, syncing, people, leaving, shows, rec, found, fixed, ghosts>>
vars   == <<base, left>>

Bounded(name) == left[name] > 0 /\ left' = [left EXCEPT ![name] = @ - 1]

(***************************************************************************)
(* Owners and notes (schema.py).                                            *)
(***************************************************************************)
Unset    == -1
Inferred == 0
Web      == 1
Manual   == 2
User     == 3

\* Mutant: only the user and the owner itself are kept from each other.
CanOverwriteAny(writer, existing) == writer # Inferred \/ existing # User

CanOverwrite(writer, existing) == writer >= existing

Blank == [f \in Fields |-> Unset]

\* A note, whose relationships name notes and whose links name persons and photos.
Owners == Unset..User
Things == Notes \cup People \cup Photos \cup Fields
NoteSet == [owner : Owners, attrs : [Fields -> Owners], rels : SUBSET Things, links : SUBSET Things, text : BOOLEAN]

\* A model value stands for no note.
NoteAssumption == None \notin NoteSet
ASSUME NoteAssumption

NoRow == [here |-> FALSE, owner |-> Unset, attrs |-> Blank, rels |-> {}, links |-> {}]
RowOf(note) ==
    IF note = None THEN NoRow
    ELSE [here |-> TRUE, owner |-> note.owner, attrs |-> note.attrs, rels |-> note.rels, links |-> note.links]

(***************************************************************************)
(* What a call makes of a note.  A call is [op, what, note, by, arg, text]: *)
(*   create       POST /entities with links arg                             *)
(*   put          PATCH, or a patch job if what begins with "job": replaces  *)
(*                the relationships, the links, or (arg is empty) the text   *)
(*   add, drop    a relationship, or a link of a person or photo             *)
(*   facts        POST /discovery/apply: fields arg, with the text, or only   *)
(*                with a source the note does not have yet                   *)
(*   suggest      the same with relationships to existing notes              *)
(*   delete       DELETE /entities                                           *)
(*   orphan       the first note that links a person who is deleted          *)
(***************************************************************************)
CallSet ==
    {c \in [op : {"create", "put", "add", "drop", "facts", "suggest", "delete", "orphan"},
            what : {"text", "source", "none", "rels", "links"}, note : Notes, by : Inferred..User,
            arg : SUBSET Things, text : BOOLEAN, job : BOOLEAN] :
        /\ c.op \in {"add", "drop"} => c.what \in {"rels", "links"}
        /\ c.op = "delete" => c.by = User}

\* The worlds hold notes, and the calls are ones the program makes.
WorldsAssumption ==
    \A w \in Worlds : /\ w.file \in [Notes -> NoteSet \cup {None}] /\ w.calls \subseteq CallSet
                      /\ w.people \subseteq People /\ w.shows \in [Photos -> SUBSET People]
ASSUME WorldsAssumption

NewSet(c, old) ==
    CASE c.op = "put" -> c.arg [] c.op \in {"add", "suggest"} -> old \cup c.arg [] OTHER -> old \ c.arg

\* _check_ownership: the owner of a note stands for all of it.  Creating and deleting ask for no
\* owner; set_attributes skips the fields it may not write, but saves.
Allowed(c, note) ==
    CanOverwrite(c.by, IF c.op \in {"create", "delete"} \/ (c.op = "facts" /\ c.arg # {}) THEN Unset
                       ELSE note.owner)

\* The part of apply_discovery that goes through update_entity.
Updated(c, note) ==
    IF c.what \in {"text", "source"} /\ CanOverwrite(Web, note.owner)
    THEN [note EXCEPT !.owner = Web, !.text = @ \/ c.what = "text"] ELSE note

\* set_attributes: each field has an owner of its own, and the owner of the note stays.
WithFacts(c, note) ==
    [note EXCEPT !.attrs = [f \in Fields |-> IF f \in c.arg /\ CanOverwrite(Web, @[f]) THEN Web ELSE @[f]]]

\* The text, the relationships or the links; the writer owns the note then.
Rewritten(c, note) ==
    CASE c.what = "text" -> [note EXCEPT !.owner = c.by, !.text = c.text]
      [] c.what = "rels" -> [note EXCEPT !.owner = c.by, !.rels = NewSet(c, @)]
      [] OTHER           -> [note EXCEPT !.owner = c.by, !.links = NewSet(c, @)]

Content(c, note) ==
    CASE c.op = "create" -> [owner |-> c.by, attrs |-> Blank, rels |-> {}, links |-> c.arg, text |-> c.text]
      [] c.op = "delete" -> None
      [] c.op = "facts"  -> WithFacts(c, Updated(c, note))
      [] OTHER           -> Rewritten(c, note)

(***************************************************************************)
(* Tasks (tasks.py, task_rules.py).  A session reads what is in the          *)
(* database: a task it has resolved is still open there until the next       *)
(* flush, and creating a task flushes.                                      *)
(***************************************************************************)
Fresh(open) == [open |-> open, done |-> {}, flushed |-> FALSE, fails |-> FALSE]
Session == Fresh(tasks)
Flushed(tx) == [tx EXCEPT !.open = @ \ tx.done, !.done = {}, !.flushed = TRUE]
FlushedIf(cond, tx) == IF cond THEN Flushed(tx) ELSE tx

\* What is open once the session has committed.
Standing(tx) == tx.open \ tx.done

\* _resolve_open_for_entity; resolving a task twice is an error.
Resolved(tx, kind, n) ==
    LET old == {t \in tx.open : t.kind = kind /\ t.note = n}
    IN  [tx EXCEPT !.done = @ \cup old, !.fails = @ \/ old \cap tx.done # {}]

\* create_task: a task of the same kind and context that is open in the database is enough.
Created(tx, kind, n, about) ==
    LET task == [kind |-> kind, note |-> n, about |-> about]
    IN  IF task \in tx.open THEN tx ELSE [Flushed(tx) EXCEPT !.open = @ \cup {task}]

Missing(attrs) == {f \in Fields : attrs[f] = Unset}

\* Less than a third of the fields, but not none.
Low(attrs) ==
    LET filled == Cardinality(Fields \ Missing(attrs))
    IN  filled > 0 /\ 100 * filled < 34 * Cardinality(Fields)

\* Mutant: a list of fields that has changed leaves the old task open.
RefreshedOnly(tx, n, attrs) ==
    LET listed == IF Missing(attrs) = {} THEN tx ELSE Created(tx, "missing", n, Missing(attrs))
        low    == Resolved(listed, "low", n)
    IN  IF Low(attrs) THEN Created(low, "low", n, 1..Cardinality(Fields \ Missing(attrs))) ELSE low

\* refresh_completeness_tasks
Refreshed(tx, n, attrs) ==
    LET missing == Resolved(tx, "missing", n)
        listed  == IF Missing(attrs) = {} THEN missing ELSE Created(missing, "missing", n, Missing(attrs))
        low     == Resolved(listed, "low", n)
    IN  IF Low(attrs) THEN Created(low, "low", n, 1..Cardinality(Fields \ Missing(attrs))) ELSE low

\* _flag_if_incomplete
Flagged(tx, n, note) == IF note.text \/ note.rels # {} THEN tx ELSE Created(tx, "incomplete", n, {})

\* refresh_auto_link_tasks over the rows the session sees.  Each note has tasks of its own, so the
\* notes do not depend on each other; a task that stands already is resolved and not created again.
AutoLinked(tx, rows, named) ==
    LET alone   == {n \in private : rows[n].here /\ rows[n].links \cap People = {}}
        free    == {p \in named : \A n \in Notes : p \notin rows[n].links}
        Best(n) == {p \in free : <<n, p>> \in Alike}
        old     == {t \in tx.open : t.kind = "link" /\ t.note \in alone}
        new     == {[kind |-> "link", note |-> n, about |-> {CHOOSE p \in Best(n) : TRUE}] :
                       n \in {m \in alone : Best(m) # {}}}
    IN  [tx EXCEPT !.open = @ \cup new, !.done = @ \cup old, !.fails = @ \/ old \cap tx.done # {}]

\* The rows a session sees when it has written note n: the child rows it has deleted are gone, those
\* it has added, and a new entity, are not there before a flush.
Seen(tx, n, new) ==
    IF tx.flushed THEN [row EXCEPT ![n] = RowOf(new)]
    ELSE [row EXCEPT ![n] = [@ EXCEPT !.rels = {}, !.links = {}]]

\* apply_discovery refreshes after update_entity, after set_attributes and at its end, and records
\* what it has written in the changelog, which flushes.
FactTasks(c, read, new) ==
    LET n       == c.note
        updates == c.what # "none" /\ CanOverwrite(Web, read.owner)
        text    == IF updates THEN FlushedIf(c.what = "text", Refreshed(Session, n, read.attrs)) ELSE Session
        written == \E f \in c.arg : CanOverwrite(Web, read.attrs[f])
        fields  == IF c.arg = {} THEN text ELSE FlushedIf(written, Refreshed(text, n, new.attrs))
    IN  Refreshed(fields, n, new.attrs)

TasksAfter(c, read, new) ==
    LET n  == c.note
        tx == CASE c.op = "create"          -> Refreshed(Flagged(Session, n, new), n, new.attrs)
                [] c.op \in {"put", "suggest"} -> Refreshed(Session, n, new.attrs)
                [] c.op = "facts"           -> FactTasks(c, read, new)
                [] OTHER                    -> Session
    IN  IF c.op = "create" \/ (c.op = "drop" /\ c.arg \cap People # {})
        THEN AutoLinked(tx, Seen(tx, n, new), people) ELSE tx

(***************************************************************************)
(* Recommendations (recommendation/, recommendation_job.py).                *)
(***************************************************************************)
RolesOf(a) == {n \in Notes : row[n].links \cap ({a} \cup shows[a]) # {}}
FilmsOf(a) == UNION {row[n].rels : n \in RolesOf(a)}

Why(a, b) == {s \in {"person", "role", "film"} :
                 CASE s = "person" -> shows[a] \cap shows[b] # {}
                   [] s = "role"   -> RolesOf(a) \cap RolesOf(b) # {}
                   [] OTHER        -> FilmsOf(a) \cap FilmsOf(b) # {}}

\* Weights and min_score as shipped, in hundredths; similar pictures add to the score only.
Weight == [person |-> 40, role |-> 25, film |-> 15]
Enough(why) == MapThenSumSet(LAMBDA s : Weight[s], why) >= 30

\* compute_recommendations
Computed(a) ==
    {r \in {[src |-> a, dst |-> b, why |-> Why(a, b)] : b \in Photos \ {a}} : Enough(r.why)}

\* assets_for_entity and assets_of_persons, for the targets of links.
PhotosOf(links) == {a \in Photos : links \cap ({a} \cup shows[a]) # {}}

Touching(photos) == {r \in rec : {r.src, r.dst} \cap photos # {}}

\* Mutant: only the links after the change count.
InvalidatedAfter(c, loaded, new, tx) ==
    CASE c.op = "put" /\ c.what # "text"   -> PhotosOf(IF c.job \/ tx.flushed THEN new.links ELSE {})
      [] c.op \in {"add", "drop"} /\ c.what = "links" -> PhotosOf(c.arg)
      [] c.op = "suggest"                  -> PhotosOf(UNION {row[n].links : n \in c.arg})
      [] OTHER                             -> {}

\* The photos whose recommendations a call removes: update_entity, link_media's callers,
\* delete_entity, _run_patch and apply_discovery.  assets_for_entity reads the links of the note from
\* the database, where those just written are missing before a flush.
Invalidated(c, loaded, new, tx) ==
    CASE c.op = "put" /\ c.what # "text"   ->
             PhotosOf(loaded.links \cup (IF c.job \/ tx.flushed THEN new.links ELSE {}))
      [] c.op \in {"add", "drop"} /\ c.what = "links" -> PhotosOf(c.arg)
      [] c.op = "suggest"                  -> PhotosOf(UNION {row[n].links : n \in c.arg})
      [] c.op = "delete"                   -> PhotosOf(loaded.links)
      [] OTHER                             -> {}

\* Calls after which photos of the note keep their recommendations: relationships (the links are not
\* flushed when they are asked for), new links that are not flushed, a new note, a person's deletion.
Leaking(c, tx) ==
    \/ c.op \in {"create", "suggest", "orphan"}
    \/ c.op \in {"add", "drop"} /\ c.what = "rels"
    \/ c.op = "put" /\ c.what # "text" /\ ~c.job /\ ~tx.flushed

(***************************************************************************)
(* Calls                                                                    *)
(***************************************************************************)
NoCall == [phase |-> "none"]
Busy(n) == {id \in Callers : call[id].phase # "none" /\ call[id].c.note = n}
Api(id) == call[id].phase # "none" /\ ~call[id].c.job

\* The routes of persons and photos commit themselves, the others when the session is closed.
CommitsItself(c) == c.op \in {"add", "drop", "orphan"} /\ c.what = "links"

Idle(id) == /\ call[id].phase = "none"
            /\ \A o \in Callers \ {id} : o < id => call[o].phase # "none"

\* _require_entity and the change of the note it returns; a call that is refused changes nothing.
Read(id, c) ==
    /\ Idle(id)
    /\ IF c.op = "create" THEN ~row[c.note].here ELSE row[c.note].here /\ file[c.note] # None
    /\ Allowed(c, file[c.note])
    /\ ~c.job => \A o \in Callers : Api(o) => call[o].phase = "saved" /\ ~CommitsItself(call[o].c)
    /\ call' = [call EXCEPT ![id] =
          [phase |-> "read", c |-> c, read |-> IF c.op = "create" THEN None ELSE file[c.note],
           loaded |-> row[c.note], new |-> Content(c, file[c.note]), after |-> {}]]
    /\ raced' = IF Busy(c.note) = {} THEN raced ELSE raced \cup {c.note}
    /\ unread' = IF Busy(c.note) = {} THEN unread ELSE unread \cup {c.note}

Call(id) ==
    /\ Bounded("calls") /\ \E c \in mayCall : Read(id, c)
    /\ UNCHANGED <<file, row, tasks, syncing, people, leaving, shows, rec, found, fixed, leak>>

\* save_entity or the removal of the file.
Save(id) ==
    /\ call[id].phase = "read"
    /\ file' = [file EXCEPT ![call[id].c.note] = call[id].new]
    /\ call' = [call EXCEPT ![id].phase = "saved",
                            ![id].after = {o \in Callers : Api(o) /\ call[o].phase = "saved"}]
    /\ UNCHANGED <<row, tasks, syncing, people, leaving, shows, rec, found, fixed, ghosts, left>>

\* Mutant: the cache keeps the child rows it has.
StoredColumns(loaded, new, now) == [now EXCEPT !.here = TRUE, !.owner = new.owner, !.attrs = new.attrs]

\* upsert_from_vault: columns that are as the session loaded them are not written, the child rows are.
Stored(loaded, new, now) ==
    [here  |-> now.here \/ ~loaded.here,
     owner |-> IF loaded.here /\ new.owner = loaded.owner THEN now.owner ELSE new.owner,
     attrs |-> IF loaded.here /\ new.attrs = loaded.attrs THEN now.attrs ELSE new.attrs,
     rels  |-> new.rels,
     links |-> new.links]

\* The row of a new note is there already, or that of a changed one is not.
Conflicts(c, loaded, new, now) ==
    CASE c.op = "create" -> now.here
      [] c.op = "delete" -> FALSE
      [] OTHER           -> ~now.here /\ <<new.owner, new.attrs>> # <<loaded.owner, loaded.attrs>>

\* The transaction of a call; calls of the API commit in the order they have written in.
Commit(id) ==
    LET k   == call[id]
        n   == k.c.note
        tx  == TasksAfter(k.c, k.read, k.new)
        gone == Invalidated(k.c, k.loaded, k.new, tx)
        of  == PhotosOf(row[n].links \cup RowOf(k.new).links)
    IN  /\ k.phase = "saved" /\ sync = None
        /\ \A o \in k.after : call[o].phase # "saved"
        /\ ~tx.fails /\ ~Conflicts(k.c, k.loaded, k.new, row[n])
        /\ row' = [row EXCEPT ![n] = IF k.c.op = "delete" THEN NoRow ELSE Stored(k.loaded, k.new, @)]
        /\ tasks' = Standing(tx)
        /\ rec' = rec \ Touching(gone)
        /\ leak' = (IF n \in raced \/ Leaking(k.c, tx) THEN leak \cup Touching(of) ELSE leak) \ Touching(gone)
        /\ leaving' = IF k.c.op = "orphan" THEN leaving \cup k.c.arg ELSE leaving
        /\ unread' = IF k.c.op \in {"create", "put", "facts", "suggest"} /\ n \notin raced
                     THEN unread \ {n} ELSE unread
        /\ call' = [call EXCEPT ![id] = NoCall]
        /\ UNCHANGED <<file, syncing, people, shows, found, fixed, raced, left>>

\* The database refuses what the file already has.
Refused(id) ==
    LET k == call[id]
        tx == TasksAfter(k.c, k.read, k.new)
    IN  /\ k.phase = "saved" /\ sync = None
        /\ tx.fails \/ Conflicts(k.c, k.loaded, k.new, row[k.c.note])
        /\ raced' = raced \cup {k.c.note} /\ unread' = unread \cup {k.c.note}
        /\ call' = [call EXCEPT ![id] = NoCall]
        /\ UNCHANGED <<file, row, tasks, syncing, people, leaving, shows, rec, found, fixed, leak, left>>

(***************************************************************************)
(* Rebuild and reconcile (maintenance.py).  A rebuild takes the lock of the  *)
(* database with its first statement, as it clears the cache.  A reconcile   *)
(* reads its first note, and the row of it, before it deletes the child rows *)
(* of that row and so takes the lock; the other notes are read under it.     *)
(***************************************************************************)
\* load_entity of the first file that rglob comes to, and the session.get that follows.
Open(n) ==
    /\ sync = None /\ opening = None /\ file[n] # None /\ Bounded("syncs")
    /\ opening' = [note |-> n, content |-> file[n], looked |-> FALSE, loaded |-> NoRow]
    /\ UNCHANGED <<file, row, tasks, call, sync, people, leaving, shows, rec, found, fixed, ghosts>>

Look ==
    /\ opening # None /\ ~opening.looked
    /\ opening' = [opening EXCEPT !.looked = TRUE, !.loaded = row[opening.note]]
    /\ UNCHANGED <<file, row, tasks, call, sync, people, leaving, shows, rec, found, fixed, ghosts, left>>

\* What a sync has read and loaded, and the notes it has still to read.
Locked(mode, files, loaded, todo) ==
    sync' = [mode |-> mode, files |-> files, loaded |-> loaded, todo |-> todo]

\* Calls have come between: the row is not the one loaded, or the content is neither that of the file
\* nor what a call under way has read and will replace.
Overtaken(o) ==
    \/ row[o.note] # o.loaded
    \/ o.content # file[o.note] /\ \A id \in Busy(o.note) : call[id].read # o.content

SyncStart(mode) ==
    /\ sync = None
    /\ \/ /\ mode = "rebuild" \/ \A n \in Notes : file[n] = None
          /\ opening = None /\ Bounded("syncs")
          /\ Locked(mode, [n \in Notes |-> None], row, Notes) /\ UNCHANGED <<opening, raced, unread>>
       \/ /\ mode = "reconcile" /\ opening # None /\ opening.looked
          /\ LET n == opening.note
                 late == IF Overtaken(opening) THEN {n} ELSE {}
             IN  /\ Locked(mode, [m \in Notes |-> IF m = n THEN opening.content ELSE None],
                           [row EXCEPT ![n] = opening.loaded], Notes \ {n})
                 /\ raced' = raced \cup late /\ unread' = unread \cup late
          /\ opening' = None /\ UNCHANGED left
    /\ UNCHANGED <<file, row, tasks, call, people, leaving, shows, rec, found, fixed, leak>>

SyncRead(n) ==
    /\ sync # None /\ n \in sync.todo
    /\ sync' = [sync EXCEPT !.files[n] = file[n], !.todo = @ \ {n}]
    /\ UNCHANGED <<file, row, tasks, call, opening, people, leaving, shows, rec, found, fixed, ghosts, left>>

\* A reconcile removes, last of all, the entities whose file is not there then, with the child rows it
\* finds in the database: not with those it is about to add.
Gone(n) == row[n].here /\ file[n] = None

\* The cache is cleared by a rebuild, and otherwise brought up to date row by row.
Synced(s) ==
    [n \in Notes |->
        LET now == IF s.mode = "rebuild" \/ Gone(n) THEN NoRow ELSE row[n]
            old == IF s.mode = "rebuild" THEN NoRow ELSE s.loaded[n]
        IN  IF s.files[n] = None THEN now
            ELSE IF old.here /\ ~now.here
            THEN [NoRow EXCEPT !.rels = s.files[n].rels, !.links = s.files[n].links]
            ELSE Stored(old, s.files[n], now)]

\* The row loaded is gone although its file is there, or one has come that was not there: the commit
\* fails, and with it the whole sync.
Clashes(s, n) ==
    /\ s.mode = "reconcile" /\ s.files[n] # None /\ ~Gone(n)
    /\ IF s.loaded[n].here
       THEN ~row[n].here /\ <<s.files[n].owner, s.files[n].attrs>> # <<s.loaded[n].owner, s.loaded[n].attrs>>
       ELSE row[n].here

\* Child rows without an entity.
Orphaned(r) == ~r.here /\ r # NoRow

SyncEnd ==
    /\ sync # None /\ sync.todo = {} /\ \A n \in Notes : ~Clashes(sync, n)
    /\ row' = Synced(sync) /\ sync' = None
    /\ raced' = {n \in raced : \/ Busy(n) # {} \/ Orphaned(row'[n])
                               \/ sync.files[n] # file[n] \/ sync.loaded[n] # row[n]}
    /\ unread' = unread \cup {n \in Notes : row'[n] # row[n]}
    /\ leak' = leak \cup Touching(UNION {PhotosOf(row[n].links \cup row'[n].links) : n \in {m \in Notes : row'[m] # row[m]}})
    /\ UNCHANGED <<file, tasks, call, opening, people, leaving, shows, rec, found, fixed, left>>

SyncFails ==
    /\ sync # None /\ sync.todo = {} /\ \E n \in Notes : Clashes(sync, n)
    /\ sync' = None
    /\ UNCHANGED <<file, row, tasks, call, opening, people, leaving, shows, rec, found, fixed, ghosts, left>>

\* The user edits the vault with another program.
HandMade == [owner : {Manual, User}, attrs : {Blank}, rels : {{}}, links : {{}}, text : {TRUE}]
HandEdit(n) ==
    /\ Bounded("edits")
    /\ \E note \in HandMade \cup {None} : note # file[n] /\ file' = [file EXCEPT ![n] = note]
    /\ raced' = raced \cup {n} /\ unread' = unread \cup {n}
    /\ UNCHANGED <<row, tasks, call, syncing, people, leaving, shows, rec, found, fixed, leak>>

(***************************************************************************)
(* Persons, photos, recommendations and tasks around the notes.             *)
(***************************************************************************)
\* create_person, which may get the id of one that is gone, and update_person with a name.
NamePerson(p) ==
    /\ sync = None /\ p \notin leaving /\ Bounded("persons")
    /\ people' = people \cup {p}
    /\ LET tx == AutoLinked(Session, row, people \cup {p}) IN tasks' = Standing(tx)
    /\ UNCHANGED <<file, row, call, syncing, leaving, shows, rec, found, fixed, ghosts>>

\* delete_person_endpoint first unlinks the first note that links the person.
DeletePerson(id, p) ==
    /\ p \in people \ leaving /\ Bounded("persons")
    /\ \/ /\ \A n \in Notes : row[n].here => p \notin row[n].links
          /\ leaving' = leaving \cup {p}
          /\ UNCHANGED <<call, raced, unread>>
       \/ /\ \E n \in Notes : row[n].here /\ p \in row[n].links
                /\ Read(id, [op |-> "orphan", what |-> "links", note |-> n, by |-> User, arg |-> {p},
                             text |-> FALSE, job |-> FALSE])
          /\ UNCHANGED leaving
    /\ UNCHANGED <<file, row, tasks, syncing, people, shows, rec, found, fixed, leak>>

PersonGone(p) ==
    /\ p \in leaving /\ sync = None
    /\ people' = people \ {p} /\ leaving' = leaving \ {p}
    /\ shows' = [a \in Photos |-> shows[a] \ {p}]
    /\ rec' = rec \ Touching({a \in Photos : p \in shows[a]}) /\ leak' = leak \cap rec'
    /\ UNCHANGED <<file, row, tasks, call, syncing, found, fixed, raced, unread, left>>

\* A face or photo is given to another person (bulk_assign_person_job, clustering_job, api/faces.py).
Reassign(a) ==
    /\ sync = None /\ Bounded("faces")
    /\ \E ps \in SUBSET people : ps # shows[a] /\ shows' = [shows EXCEPT ![a] = ps]
    /\ rec' = rec \ Touching({a}) /\ leak' = leak \cap rec'
    /\ UNCHANGED <<file, row, tasks, call, syncing, people, leaving, found, fixed, raced, unread>>

\* get_recommendations of a photo that has none starts a job.
Compute(a) ==
    /\ found[a] = None /\ {r \in rec : r.src = a} = {} /\ Bounded("computes")
    /\ found' = [found EXCEPT ![a] = Computed(a)]
    /\ UNCHANGED <<file, row, tasks, call, syncing, people, leaving, shows, rec, fixed, ghosts>>

\* store_recommendations: what was computed may be old by now.
Store(a) ==
    /\ found[a] # None /\ sync = None
    /\ rec' = {r \in rec : r.src # a} \cup found[a]
    /\ leak' = (leak \cap rec') \cup (IF found[a] = Computed(a) THEN {} ELSE found[a])
    /\ found' = [found EXCEPT ![a] = None]
    /\ UNCHANGED <<file, row, tasks, call, syncing, people, leaving, shows, fixed, raced, unread, left>>

\* resolve_task and dismiss_task.
CloseTask(t) ==
    /\ t \in tasks /\ sync = None /\ Bounded("closes")
    /\ tasks' = tasks \ {t}
    /\ unread' = unread \cup {t.note}
    /\ UNCHANGED <<file, row, call, syncing, people, leaving, shows, rec, found, fixed, raced, leak>>

\* The backend stops: what is in the files stays, the transactions under way are gone.
Crash ==
    /\ Bounded("crashes")
    /\ LET cut == {call[id].c.note : id \in {i \in Callers : call[i].phase = "saved"}}
       IN  raced' = raced \cup cut /\ unread' = unread \cup cut
    /\ call' = [id \in Callers |-> NoCall] /\ sync' = None /\ opening' = None /\ leaving' = {}
    /\ found' = [a \in Photos |-> None]
    /\ UNCHANGED <<file, row, tasks, people, shows, rec, fixed, leak>>

Init ==
    \E w \in Worlds :
        /\ file = w.file /\ row = [n \in Notes |-> RowOf(w.file[n])]
        /\ tasks = UNION {Standing(Refreshed(Fresh({}), n, w.file[n].attrs)) : n \in {m \in Notes : w.file[m] # None}}
        /\ people = w.people /\ shows = w.shows /\ private = w.private
        /\ mayCall = w.calls /\ left = w.left
        /\ call = [id \in Callers |-> NoCall] /\ sync = None /\ opening = None /\ leaving = {}
        /\ rec = {} /\ found = [a \in Photos |-> None]
        /\ raced = {} /\ unread = {} /\ leak = {}

Step ==
    \/ \E id \in Callers : Call(id) \/ Save(id) \/ Commit(id) \/ Refused(id)
    \/ \E mode \in {"rebuild", "reconcile"} : SyncStart(mode)
    \/ \E n \in Notes : Open(n) \/ SyncRead(n)
    \/ Look \/ SyncEnd \/ SyncFails
    \/ \E n \in Notes : HandEdit(n)
    \/ \E p \in People : NamePerson(p) \/ PersonGone(p) \/ \E id \in Callers : DeletePerson(id, p)
    \/ \E a \in Photos : Reassign(a) \/ Compute(a) \/ Store(a)
    \/ \E t \in tasks : CloseTask(t)

Next == Step \/ Crash

Spec == Init /\ [][Next]_vars

(***************************************************************************)
(* Properties                                                               *)
(***************************************************************************)
\* The cache of a note says what its file says, whatever calls, syncs and persons' deletions there
\* have been, and while there are; only a note that two calls have written at a time, whose call failed after
\* the file was written, that was edited by hand, or that a call has saved and committed while a
\* reconcile had read it and not yet the lock, waits for the next sync for it, and a note that is gone
\* and whose call or sync left child rows behind waits for a rebuild (service.py, maintenance.py).
CacheFollows ==
    \A n \in Notes : n \in raced \/ Busy(n) # {} \/ sync # None \/ row[n] = RowOf(file[n])

\* What a higher owner has written stays: no call of a lower one changes the owner, text, relations
\* and links of a note of the user's, nor a field of the user's.  The owner is asked when the note is
\* read, in a thread for a job, and the file is written later: so it holds as long as no two calls are
\* under way on the note and nobody edits its file by hand since the last sync, and otherwise for calls
\* that write over what they have read (schema.py: "Ein Job (web/inferred) darf einen
\* user-Wert nie ueberschreiben").
UserKept ==
    [][\A id \in Callers :
          LET k == call[id] n == k.c.note
          IN  /\ k.phase = "read" /\ call'[id].phase = "saved" /\ k.c.by # User
              /\ file[n] # None /\ (n \notin raced \/ k.read = file[n])
              => /\ file[n].owner = User => file'[n] = [file[n] EXCEPT !.attrs = file'[n].attrs]
                 /\ \A f \in Fields : file[n].attrs[f] = User => file'[n].attrs[f] = User]_vars

\* The open tasks about missing fields: never two of a kind for a note, and what they list is what the
\* note lacks (task_rules.py).
TasksTrue ==
    \A s \in tasks : s.kind \in {"missing", "low"} /\ s.note \notin unread /\ row[s.note].here =>
        /\ \A t \in tasks : s.kind = t.kind /\ s.note = t.note => s = t
        /\ Busy(s.note) = {} /\ s.kind = "missing" => s.about = Missing(row[s.note].attrs)

\* A stored recommendation gives the reasons that hold, except where nothing has invalidated it: see
\* Leaking, notes that are synced or raced, and jobs that computed it from rows that changed since.
RecsTrue == \A r \in rec \ leak : r.why = Why(r.src, r.dst)
=============================================================================
