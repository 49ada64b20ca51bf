------------------------------- MODULE Models -------------------------------
(***************************************************************************)
(* The models of the application: downloads that resume where they were     *)
(* cut off, the scan of the models directory, models bound in place, the    *)
(* registry with one embedder at most, and what the page shows of it.       *)
(*                                                                         *)
(* A file is the sequence of its pieces.  Windows is the platform the       *)
(* project is written for first: a file that is open cannot be renamed or   *)
(* removed there.                                                           *)
(***************************************************************************)
EXTENDS Integers, Sequences, FiniteSets, FiniteSetsExt, SequencesExt, TLC

CONSTANTS
    Manifest,      \* the models in the order of the manifest
    Job,           \* ids of download jobs
    None,
    Size,          \* pieces of a file
    Worlds         \* forms of the models, which of them are hashed, what is registered, and uses left

VARIABLES
    form,        \* "hf", "bundle" or "plain"; "none" for a model nobody asks for (a bound)
    hashed,      \* models whose files have a SHA-256 in the manifest
    disk, part,  \* files of each model, under their own name and as .partial
    unpacked,    \* parts of a bundle that have been extracted
    row,         \* registry
    job,         \* download jobs
    deleting,    \* models whose files have been removed and whose row has not
    page,        \* pendingDownloads, downloadJobIds, answers under way, events handled
    mixed,       \* models two jobs have downloaded at a time or one has while it was deleted,
                 \* or whose deletion was cut off
    cut,         \* models of which a download has ended early
    left         \* uses left of the bounded actions (a bound)
fixed == <<form, hashed>>
files == <<disk, part, unpacked>>
ghosts == <<mixed, cut>>
vars  == <<fixed, files, row, job, deleting, page, ghosts, left>>

Model == ToSet(Manifest)
Position(m) == CHOOSE i \in DOMAIN Manifest : Manifest[i] = m
NoFile == <<0>>
Whole == [i \in 1..Size |-> i]
Files(m) == IF form[m] = "plain" THEN {1, 2} ELSE {1}

Bounded(name) == left[name] > 0 /\ left' = [left EXCEPT ![name] = @ - 1]

(***************************************************************************)
(* The registry.  A session sees the committed rows and not what it is      *)
(* about to write itself (autoflush is off).                                *)
(***************************************************************************)
RegistryRows == [there : BOOLEAN, id : Nat, path : {None, "own", "local"}, managed : BOOLEAN, enabled : BOOLEAN]
NoRow == [there |-> FALSE, id |-> 0, path |-> None, managed |-> FALSE, enabled |-> FALSE]

\* EXCLUSIVE_ROLES; only the embedders are downloaded as Hugging Face folders here.
Exclusive == {m \in Model : form[m] = "hf"}

NewId(rows, m) == IF rows[m].there THEN rows[m].id
                  ELSE Max({rows[n].id : n \in Model}) + Position(m)

\* deactivate_role_siblings: an embedder that is registered takes the role from the others.
TakesOver(rows, m, n) == n # m /\ {m, n} \subseteq Exclusive /\ rows[n].enabled

\* Mutant: a row that is there already keeps its flag.
UpsertedAsWas(rows, m, path, managed) ==
    [n \in Model |->
        IF n = m THEN [there |-> TRUE, id |-> NewId(rows, m), path |-> path, managed |-> managed,
                       enabled |-> rows[n].there => rows[n].enabled]
        ELSE IF TakesOver(rows, m, n) THEN [rows[n] EXCEPT !.enabled = FALSE]
        ELSE rows[n]]

\* _upsert_registry_row.
Upserted(rows, m, path, managed) ==
    [n \in Model |->
        IF n = m THEN [there |-> TRUE, id |-> NewId(rows, m), path |-> path, managed |-> managed, enabled |-> TRUE]
        ELSE IF TakesOver(rows, m, n) THEN [rows[n] EXCEPT !.enabled = FALSE]
        ELSE rows[n]]

\* What scan_models_dir takes for a model: any file of a repository, any part of a bundle, or
\* all files of the manifest.
Recognised(m) ==
    \/ form[m] = "hf" /\ \E f \in Files(m) : disk[m][f] # NoFile \/ part[m][f] # NoFile
    \/ form[m] = "bundle" /\ unpacked[m] # {}
    \/ form[m] = "plain" /\ \A f \in Files(m) : disk[m][f] # NoFile /\ (m \in hashed => disk[m][f] = Whole)

\* scan_models_dir goes through the manifest.  Each model looks for the rows of the others as they are
\* committed, so a row it takes the role from is the one before the scan, or what an earlier model of
\* this scan has made of it.
Scanned ==
    LET found == {m \in Model : Recognised(m)}
        own(n) == IF n \in found THEN Upserted(row, n, "own", TRUE)[n] ELSE row[n]
        later(n) == {m \in found : n \in found => Position(m) > Position(n)}
    IN  [n \in Model |-> IF \E m \in later(n) : TakesOver(row, m, n) THEN [own(n) EXCEPT !.enabled = FALSE] ELSE own(n)]

Enabled(rows) == {m \in Exclusive : rows[m].enabled}

\* resolve_image_embedder disables all but the row that was added last.
Healed(rows) ==
    [m \in Model |-> IF m \in Enabled(rows) /\ \E n \in Enabled(rows) : rows[n].id > rows[m].id
                     THEN [rows[m] EXCEPT !.enabled = FALSE] ELSE rows[m]]

Scan == /\ Bounded("scans") /\ row' = Scanned
        /\ UNCHANGED <<fixed, files, job, deleting, page, ghosts>>

Resolve == /\ row' = Healed(row) /\ row' # row
           /\ UNCHANGED <<fixed, files, job, deleting, page, ghosts, left>>

(***************************************************************************)
(* Models in place (validation.py).                                         *)
(***************************************************************************)
\* What the path of a request leads to.
Things == [exists : BOOLEAN, folder : BOOLEAN, weights : {"onnx", "other", "none"},
           image : BOOLEAN, complete : BOOLEAN, loads : BOOLEAN]

\* The stages of validate_in_place, in their order; every model here is a folder of onnx files.
FirstFault(t) ==
    IF ~t.exists THEN "MODEL_NOT_FOUND"
    ELSE IF ~t.folder THEN "MODEL_WRONG_FORMAT"
    ELSE IF t.weights = "none" THEN "MODEL_INCOMPLETE"
    ELSE IF t.weights = "other" THEN "MODEL_WRONG_FORMAT"
    ELSE IF ~t.image THEN "MODEL_WRONG_ROLE"
    ELSE IF ~t.complete THEN "MODEL_INCOMPLETE"
    ELSE IF ~t.loads THEN "MODEL_LOAD_FAILED" ELSE "none"

RegisterLocal(m) ==
    /\ form[m] # "none" /\ Bounded("binds")
    /\ \E t \in Things :
          row' = IF FirstFault(t) = "none" THEN Upserted(row, m, "local", FALSE) ELSE row
    /\ UNCHANGED <<fixed, files, job, deleting, page, ghosts>>

(***************************************************************************)
(* Downloads (download_job.py).                                             *)
(***************************************************************************)
Ended == {"done", "error", "gone"}
Active == {j \in DOMAIN job : job[j].at \notin Ended}
Of(m) == {j \in Active : job[j].model = m}

To(j, at) == job' = [job EXCEPT ![j].at = at]

New(m, at) == [model |-> m, at |-> at, file |-> 1, from |-> 0, append |-> FALSE, read |-> NoRow]
End(j, at) == job' = [job EXCEPT ![j] = New(job[j].model, at)]

\* The job ends with an error; what it has written stays.
Fails(j) == /\ End(j, "error") /\ cut' = cut \cup {job[j].model}
            /\ UNCHANGED <<fixed, files, row, deleting, page, mixed>>

Open(m, f) == {k \in Of(m) : job[k].at = "read" /\ job[k].file = f}

\* The button of a model and the setup of all core models ask for a download; neither looks
\* for one that is running.  The queue runs downloads beside each other.
Download(m, j) ==
    /\ form[m] # "none" /\ Bounded("downloads")
    /\ j \notin DOMAIN job /\ \A k \in Job : k < j => k \in DOMAIN job
    /\ job' = [k \in DOMAIN job \cup {j} |-> IF k = j THEN New(m, "begin") ELSE job[k]]
    /\ page' = [page EXCEPT !.pending = @ \cup {m}, !.ids[m] = None, !.answers = @ \cup {j}]
    /\ mixed' = IF Of(m) # {} \/ m \in deleting THEN mixed \cup {m} ELSE mixed
    /\ UNCHANGED <<fixed, files, row, deleting, cut>>

\* The size of what an earlier attempt has left.
Measure(j) ==
    LET p == part[job[j].model][job[j].file]
    IN  /\ job[j].at = "begin"
        /\ job' = [job EXCEPT ![j].at = "ask", ![j].from = IF p = NoFile THEN 0 ELSE Len(p)]
        /\ UNCHANGED <<fixed, files, row, deleting, page, ghosts, left>>

Writes(j, content, from, append) ==
    /\ part' = [part EXCEPT ![job[j].model][job[j].file] = content]
    /\ job' = [job EXCEPT ![j].at = "read", ![j].from = from, ![j].append = append]
    /\ UNCHANGED <<fixed, disk, unpacked, row, deleting, page, ghosts, left>>

\* Mutant: the file is opened for appending whatever the server sends.
FromStartAppending(j) ==
    /\ job[j].at = "ask"
    /\ LET p == part[job[j].model][job[j].file]
       IN  Writes(j, IF p = NoFile THEN <<>> ELSE p, 0, TRUE)

\* The server sends the whole file: nothing has been asked of it, or it ignores the range.
FromStart(j) ==
    /\ job[j].at = "ask"
    /\ job[j].from > 0 => Open(job[j].model, job[j].file) = {}
    /\ Writes(j, <<>>, 0, FALSE)

\* It sends the rest, which is appended to what is there now.
FromRest(j) ==
    /\ job[j].at = "ask" /\ job[j].from \in 1..Size - 1
    /\ LET p == part[job[j].model][job[j].file]
       IN  Writes(j, IF p = NoFile THEN <<>> ELSE p, job[j].from, TRUE)

\* There is no rest (416): the file is dropped and asked for from its start.
NoRest(j) ==
    /\ job[j].at = "ask" /\ job[j].from >= Size
    /\ Open(job[j].model, job[j].file) = {}
    /\ part' = [part EXCEPT ![job[j].model][job[j].file] = NoFile]
    /\ job' = [job EXCEPT ![j].from = 0]
    /\ UNCHANGED <<fixed, disk, unpacked, row, deleting, page, ghosts, left>>

\* The file that must go is open elsewhere.
Barred(j) ==
    /\ job[j].at = "ask" /\ job[j].from > 0 /\ Open(job[j].model, job[j].file) # {}
    /\ Fails(j) /\ UNCHANGED left

Placed(c, i) == [k \in 1..Max({i, Len(c)}) |-> IF k = i THEN i ELSE IF k <= Len(c) THEN c[k] ELSE -1]

\* The next piece; after the last the file is closed.
Read(j) ==
    LET m == job[j].model  f == job[j].file  i == job[j].from + 1
    IN  /\ job[j].at = "read"
        /\ part' = [part EXCEPT ![m][f] = IF job[j].append THEN Append(@, i) ELSE Placed(@, i)]
        /\ job' = [job EXCEPT ![j].from = i, ![j].at = IF i < Size THEN "read" ELSE "verify"]
        /\ UNCHANGED <<fixed, disk, unpacked, row, deleting, page, ghosts, left>>

\* The connection or the disk fails.
Broken(j) == job[j].at \in {"ask", "read"} /\ Bounded("failures") /\ Fails(j)

\* A wrong hash: the .partial goes (or cannot, as it is open).
Verify(j) ==
    LET m == job[j].model  f == job[j].file
    IN  /\ job[j].at = "verify"
        /\ IF m \in hashed /\ part[m][f] # Whole
           THEN /\ End(j, "error") /\ cut' = cut \cup {m}
                /\ part' = IF Open(m, f) = {} THEN [part EXCEPT ![m][f] = NoFile] ELSE part
           ELSE To(j, "rename") /\ UNCHANGED <<part, cut>>
        /\ UNCHANGED <<fixed, disk, unpacked, row, deleting, page, mixed, left>>

Rename(j) ==
    LET m == job[j].model  f == job[j].file
    IN  /\ job[j].at = "rename"
        /\ part[m][f] # NoFile /\ Open(m, f) = {}
        /\ disk' = [disk EXCEPT ![m][f] = part[m][f]] /\ part' = [part EXCEPT ![m][f] = NoFile]
        /\ job' = IF f + 1 \in Files(m) THEN [job EXCEPT ![j].at = "begin", ![j].file = f + 1]
                  ELSE [job EXCEPT ![j].at = IF form[m] = "bundle" THEN "unpack" ELSE "register"]
        /\ UNCHANGED <<fixed, unpacked, row, deleting, page, ghosts, left>>

RenameFails(j) ==
    LET m == job[j].model  f == job[j].file
    IN  /\ job[j].at = "rename" /\ (part[m][f] = NoFile \/ Open(m, f) # {})
        /\ Fails(j) /\ UNCHANGED left

\* _extract_zip, part by part, then the archive goes.
Unpack(j) ==
    LET m == job[j].model
    IN  /\ job[j].at = "unpack" /\ disk[m][1] = Whole
        /\ IF unpacked[m] # {1, 2}
           THEN (\E p \in {1, 2} \ unpacked[m] : unpacked' = [unpacked EXCEPT ![m] = @ \cup {p}]) /\ UNCHANGED <<disk, job>>
           ELSE disk' = [disk EXCEPT ![m][1] = NoFile] /\ To(j, "register") /\ UNCHANGED unpacked
        /\ UNCHANGED <<fixed, part, row, deleting, page, ghosts, left>>

UnpackFails(j) ==
    /\ job[j].at = "unpack" /\ disk[job[j].model][1] # Whole
    /\ Fails(j) /\ UNCHANGED left

\* _register_model_in_db runs in a thread: what it has read may have changed when it commits.
RegisterRead(j) ==
    /\ job[j].at = "register" /\ job' = [job EXCEPT ![j].at = "commit", ![j].read = row]
    /\ UNCHANGED <<fixed, files, row, deleting, page, ghosts, left>>

\* The session writes the columns it has changed.
Written(read, wanted) ==
    [m \in Model |-> [c \in DOMAIN NoRow |-> IF wanted[m][c] # read[m][c] THEN wanted[m][c] ELSE row[m][c]]]

RegisterCommit(j) ==
    LET read == job[j].read
        wanted == Upserted(read, job[j].model, "own", TRUE)
        stale == \E m \in Model : wanted[m] # read[m] /\ row[m].there # read[m].there
    IN  /\ job[j].at = "commit"
        /\ IF stale THEN Fails(j)
           ELSE /\ End(j, "done") /\ row' = Written(read, wanted)
                /\ UNCHANGED <<fixed, files, deleting, page, ghosts>>
        /\ UNCHANGED left

(***************************************************************************)
(* Deleting a model; the page; a restart.                                   *)
(***************************************************************************)
\* rmtree stops at a file that is open, after having removed any of the others.
DeleteFiles(m) ==
    /\ row[m].there /\ m \notin deleting /\ Bounded("deletes")
    /\ deleting' = deleting \cup {m}
    /\ mixed' = IF Of(m) # {} THEN mixed \cup {m} ELSE mixed
    /\ LET held == {f \in Files(m) : Open(m, f) # {}}
           owned == row[m].managed
       IN  \E kept \in SUBSET Files(m), parts \in SUBSET unpacked[m] :
              /\ (~owned => kept = Files(m) /\ parts = unpacked[m])
              /\ (owned /\ (held = {} \/ form[m] = "bundle") => kept = {} /\ parts = {})
              /\ (owned /\ held # {} => parts = {})
              /\ unpacked' = [unpacked EXCEPT ![m] = parts]
              /\ IF form[m] = "bundle" THEN UNCHANGED <<disk, part>>
                 ELSE /\ disk' = [disk EXCEPT ![m] = [f \in DOMAIN @ |-> IF f \in kept THEN @[f] ELSE NoFile]]
                      /\ part' = [part EXCEPT ![m] = [f \in DOMAIN @ |-> IF f \in kept \cup held THEN @[f] ELSE NoFile]]
    /\ UNCHANGED <<fixed, row, job, page, cut>>

DeleteRow(m) ==
    /\ m \in deleting /\ deleting' = deleting \ {m}
    /\ row' = [row EXCEPT ![m] = NoRow]
    /\ UNCHANGED <<fixed, files, job, page, ghosts, left>>

\* downloadModelSuccess: the page learns the id of the job.
Answer(j) ==
    /\ j \in page.answers
    /\ page' = [page EXCEPT !.answers = @ \ {j}, !.ids[job[j].model] = j, !.late = @ \/ j \in page.told]
    /\ UNCHANGED <<fixed, files, row, job, deleting, ghosts, left>>

\* Mutant: only a download that succeeds is taken off the list.
TellDone(j) ==
    /\ j \in DOMAIN job /\ job[j].at \in {"done", "error"} /\ j \notin page.told
    /\ page' = [page EXCEPT !.told = @ \cup {j},
                            !.pending = IF page.ids[job[j].model] = j /\ job[j].at = "done" THEN @ \ {job[j].model} ELSE @]
    /\ UNCHANGED <<fixed, files, row, job, deleting, ghosts, left>>

\* watchDownloadJobUpdates: the end of a job whose id the page does not know is passed over.
Tell(j) ==
    /\ j \in DOMAIN job /\ job[j].at \in {"done", "error"} /\ j \notin page.told
    /\ page' = [page EXCEPT !.told = @ \cup {j},
                            !.pending = IF page.ids[job[j].model] = j THEN @ \ {job[j].model} ELSE @,
                            !.ids[job[j].model] = IF @ = j /\ job[j].at = "done" THEN None ELSE @]
    /\ UNCHANGED <<fixed, files, row, job, deleting, ghosts, left>>

\* The backend ends at any moment, and the requests under way fail; when it starts it scans the
\* directory and looks for its embedder (warn_on_embedding_dim_mismatch).
Restart ==
    /\ Bounded("restarts")
    /\ row' = Healed(Scanned)
    /\ job' = [j \in DOMAIN job |-> IF j \in Active THEN New(job[j].model, "gone") ELSE job[j]]
    /\ cut' = cut \cup {job[j].model : j \in Active}
    /\ deleting' = {} /\ mixed' = mixed \cup deleting
    /\ page' = [page EXCEPT !.answers = {}, !.pending = @ \ {job[j].model : j \in page.answers}]
    /\ UNCHANGED <<fixed, files>>

InitIn(w) ==
    /\ form = w.form /\ hashed = w.hashed /\ row = w.row /\ left = w.left
    /\ disk = [m \in Model |-> [f \in {1, 2} |-> NoFile]] /\ part = disk
    /\ unpacked = [m \in Model |-> {}]
    /\ job = <<>> /\ deleting = {}
    /\ page = [pending |-> {}, ids |-> [m \in Model |-> None], answers |-> {}, told |-> {}, late |-> FALSE]
    /\ mixed = {} /\ cut = {}

Init == \E w \in Worlds : InitIn(w)

\* The registry at the start: the directory of the models is empty, so what is there was bound in place.
ASSUME SizeAssumption     == Size \in Nat \ {0}
ASSUME ManifestAssumption == Manifest \in Seq(Model)
ASSUME StartAssumption    ==
    \A w \in Worlds : /\ w.form \in [Model -> {"hf", "bundle", "plain", "none"}]
                      /\ w.row \in [Model -> RegistryRows]
                      /\ \A m \in Model : ~w.row[m].managed /\ (w.row[m].enabled => w.row[m].there)

Goes(j) ==
    \/ Measure(j) \/ FromStart(j) \/ FromRest(j) \/ NoRest(j) \/ Barred(j) \/ Read(j) \/ Verify(j)
    \/ Rename(j) \/ RenameFails(j) \/ Unpack(j) \/ UnpackFails(j) \/ RegisterRead(j) \/ RegisterCommit(j)

Runs == (\E j \in DOMAIN job : Goes(j) \/ Answer(j) \/ Tell(j)) \/ \E m \in Model : DeleteRow(m)

\* What the user, the disk and a scan do.
Aside ==
    \/ \E j \in DOMAIN job : Broken(j)
    \/ \E m \in Model : RegisterLocal(m) \/ DeleteFiles(m) \/ \E j \in Job : Download(m, j)
    \/ Scan \/ Resolve

Next == Runs \/ Aside \/ Restart

Spec == Init /\ [][Next]_vars

\* Jobs, threads and the connection to the page go on.
FairSpec == Spec /\ WF_vars(Runs)

(***************************************************************************)
(* Properties.                                                              *)
(***************************************************************************)
\* A file under its own name is whole, however often its download was cut off and resumed
\* (_download_http_file), unless two jobs wrote the same .partial.
FilesWhole ==
    \A m \in Model \ mixed : \A f \in Files(m) : disk[m][f] \in {NoFile, Whole}

Complete(m) == IF form[m] = "bundle" THEN unpacked[m] = {1, 2} ELSE \A f \in Files(m) : disk[m][f] # NoFile

\* A managed row has its files, and the files are whole: a job registers after all of them have
\* their names, and a scan takes nothing half done for a model.  Not so for folders and bundles of
\* which a download is under way or was cut off, nor for models that were deleted or downloaded
\* again meanwhile.
ModelsUsable ==
    /\ FilesWhole
    /\ \A m \in Model \ (mixed \cup deleting) :
          row[m].there /\ row[m].managed => Complete(m) \/ (form[m] # "plain" /\ (m \in cut \/ Of(m) # {}))

\* deactivate_role_siblings hands the role over: as long as one embedder is enabled and no row
\* goes, no step leaves none.  A registration that has read two as enabled may, if the other
\* one is left alone meanwhile (resolve_image_embedder).
EmbedderStays ==
    [][(/\ Enabled(row) # {} /\ \A m \in Exclusive : row'[m].there = row[m].there
        /\ \A j \in Active : job[j].at = "commit" => Cardinality(Enabled(job[j].read)) <= 1)
            => Enabled(row') # {}]_vars

\* A download the page shows as running ends on the page (downloadJobCompleted,
\* downloadJobFailed), unless the backend restarts or the end comes before the id.
PendingEnds ==
    \A m \in Model : m \in page.pending
                        ~> (m \notin page.pending \/ page.late \/ \E j \in DOMAIN job : job[j].at = "gone")
=============================================================================
