# Photofant in TLA+

Photofant is a local photo manager: a FastAPI backend with a SQLite database and
a library of image files, a second process that runs the inference models, and
an Angular frontend. This directory models the parts of the program whose
correctness depends on the order in which things happen, checks the models with
TLC on small instances, and proves with TLAPS, for instances of any size, most of
the safety properties. All paths below are relative to `src/backend/photofant/`, unless they begin
with `docs/` or `frontend/`.

Contents: 1 Inventory, 2 Plan, 3 The modules, 4 Runs, 5 Fairness, 6 Proofs,
7 What the models leave out, 8 Observations.

## 1. Inventory

| Component | State it keeps | Operations | Hard behaviour | Module |
| --- | --- | --- | --- | --- |
| Pipeline (`jobs/import_job.py`, `face_pipeline.py`, `classification_pipeline.py`, `reprocess_job.py`, `rerun_job.py`) | counters of open prerequisites per photo, the processing ledger | `enqueue_pipeline_steps`, `register`, `signal`, catch-up, rerun | signals race registrations, calls for one photo overlap, crashes leave half-done photos | `Pipeline` |
| Job queue (`jobs/queue.py`) and worker process (`worker/`) | two queues, lanes with pools of workers, mirrored job statuses, subscribers of the stream | `enqueue`, `enqueue_remote(_and_wait)`, `resize_*`, forwarders, SSE | two processes, late subscribers, pool resizing, a worker that dies | `Workers`, `JobLifecycle` |
| Model sessions (`inference/session_manager.py`) | sessions with holder counts, pools of exclusive ones | acquire, release, evict, OOM retry | threads; load outside the lock | `SessionPool` |
| Heavy models (`inference/generative_engine.py`, `gguf_engine.py`, `capabilities.py`) | one slot for each of two runtimes in each process | load, reuse, cross-unload, evict | a load is four lock regions; two processes | `HeavyModels` |
| Library: file moves, persons, faces, trash, import (`media/moves.py`, `person_folders.py`, `asset_paths.py`, `atomic_io.py`, `importer.py`, `api/persons.py`, `trash.py`, `favorites.py`, `clustering/`) | persons, instances, faces, suggestions; photos, crops and folders on disk | assign, reassign, split, merge, rename, delete, cluster, favourite, trash, restore, purge, import | files first, rows second; names that are not unique; a crash between | `Library` |
| Face crops without a photo (`api/faces.py`, `jobs/face_folder_scan_job.py`) | crops, their rows | upload, detect, assign, delete, scan of the folders at startup | names chosen before an `await`, rows read before folders are walked | `Crops` |
| Reconcile and repair (`maintenance/`, `jobs/reconcile_job.py`, `api/maintenance.py`) | a report, missing marks | scan, classify, repair | the report ages while everything goes on | `Reconcile` |
| Versions and edit sessions (`api/edit_sessions.py`, `versions.py`, `media/`, `jobs/bulk_edit_job.py`, `api/thumbnails.py`, the editor's store) | sessions with steps, version tree, pictures, thumbnails | apply, rollback, save, turn in place, bulk edit, set current | threads between read and write, files turned one by one | `Edits` |
| ComfyUI runs (`api/comfyui.py`, `comfyui/`, `jobs/comfyui_run_job.py`) | settings, results in ComfyUI's folder, generated photos | run, upload, submit, poll, import, clean up | an external server that may stop | `Comfy` |
| Models (`models/`, `api/models.py`, the page's store) | files, parts, registry rows, pending downloads | download, resume, extract, scan, bind, delete | one embedder at most, cut downloads, late answers | `Models` |
| Vectors and search (`jobs/embedding_job.py`, `db/embeddings.py`, `db/vector_index.py`, `search/`, `api/search.py`) | vectors beside photos, vector indexes, ledger flags | embed, rebuild, purge, search, re-rank | two workers, an id that is used again | `Vectors` |
| Classification (`classification/`, `jobs/classification_job.py`, `api/classification.py`) | categories, labels, rows of photos, cached prompts | classify, edit the catalog | the catalog changes while a job scores | `Classification` |
| Gallery (`api/assets.py`, `frontend/.../store/gallery`) | loaded entries, page, total, filter | scroll, filter, delete | merged pages, dropped answers | `Gallery` |
| Knowledge base (`knowledge/`, `api/knowledge.py`, `jobs/knowledge_*`) and recommendations (`recommendation/`) | Markdown vault, cache, tasks, links, recommendations | write a note, sync, suggest, apply, invalidate | file, cache and derived rows in three places | `Knowledge` |
| Collections, tags, captions, duplicates (`collections/`, `api/collections.py`, `tags.py`, `review.py`, `jobs/tagging_job.py`, `caption_job.py`, `dupe_scan_job.py`) | albums with triggers, members, tags, captions, pairs | edit, evaluate, tag, caption, scan, resolve | evaluations on two workers, user's choice against computed ones | `Curation` |
| MCP server, HTTP layer, schema and migrations, what the adapters compute | - | - | - | section 7 |

Communication: HTTP handlers and jobs share the event loop of the backend
process; blocking work runs in threads (`asyncio.to_thread`) with one SQLite
session each; the worker process is reached over two `multiprocessing` queues
(requests out; job statuses and pipeline signals back); the page hears of jobs
over a server-sent stream. State that must survive a restart is in SQLite and
in the file tree, and everything else is lost.

What makes each component correct:

- pipeline: deferred jobs run once, after their prerequisites, and every wanted
  step is done in the end;
- queue and worker process: a job runs once, its end reaches its caller and the
  page, a pool comes down to the size asked for;
- sessions: a session in use is never freed, an exclusive holder is alone, no
  slot leaks; a process with one caller holds one heavy model, and a second one comes only beside a call;
- library and reconcile: no operation, interrupted anywhere, loses a photo, each row has
  a file of its own, each face a crop of its own, and repairs bring rows and files back together;
- editor: rows, pixels, boxes, crops, thumbnails and versions agree, and what is
  saved is what was shown;
- ComfyUI: a result ends up with what it was made from or stays where it is;
- models: what is registered is whole and usable, one embedder is enabled;
- vectors, classification, gallery: index, labels and the shown list follow
  the photos, and a bounded search fills its page;
- knowledge, curation: cache, tasks, recommendations and smart members follow
  what they are derived from, and nothing computed overrides the user.

`PROJECT.json` lists the hazards at their lines, each with the property that covers it.

## 2. Plan

How the modules build on each other (an arrow is EXTENDS):

    Pipeline       <- MCPipeline, PipelineProofs
    SessionPool    <- MCSessionPool, SessionPoolProofs
    HeavyModels    <- MCSessionPool, SessionPoolProofs
    Workers        <- MCWorkers, WorkersProofs      (Workers instantiates JobLifecycle)
    Library        <- Reconcile, Crops <- MCLibrary
    Crops          <- CropsProofs
    Edits          <- Comfy <- MCEdits, EditsProofs
    Models         <- Vectors <- Classification <- Gallery <- MCModels
    Gallery        <- GalleryProofs <- ModelsProofs
    Knowledge      <- Curation <- MCKnowledge, KnowledgeProofs

The components of one chain share rows or files and are interleaved with each
other in one run; chains do not share a run, because what couples them is only
an id or an enqueued job: `Pipeline` says when the embedding or classification job of
a photo runs, `Vectors` and `Classification` what two of them do to each other.

Done: all modules above, with the runs of section 4 and the proofs of section 6.
No module uses a RECURSIVE operator, and the invariants are conjunctions of named
parts, so each can be proved about. What is worth proving next: `PhotosKept` and
`StaysInOrder` of `Library`.

Modelling left: exports (`jobs/export_job.py`), AI suggestions of the
knowledge base before the user applies them.

## 3. The modules

### Pipeline, MCPipeline, PipelineProofs

One *call* is one run of `enqueue_pipeline_steps` for one photo, or of the body of
the loop in `run_rerun_job`; calls are numbered in the order they start. The jobs
of a call are named by call and step.

| Variable | Code |
| --- | --- |
| `phase`, `asset`, `steps`, `todo` | the coroutine of the call and its local variables; `collected` is a snapshot taken by `collect_incomplete_assets` (or an import) whose turn has not come |
| `stage[c][k]` | where the job is: request queue, lane queue, background queue, running, ended; for faces also `saved`, between the commits of the faces and `_mark_done` |
| `signals` | `pipeline_signal` messages on the status queue |
| `pend[p][a]` | `FacePipeline._pending`, `ClassificationPipeline._pending`; `owner` is a ghost that remembers whose registration it is |
| `ledger`, `faceSets` | `ProcessingLedger` flags; detected faces in the database |
| `workerUp` | the worker process |

Actions: `Import`, `CatchUp`, `Rerun` start a call. `Begin`, `PutRemote`, `Finish`
are the parts of `enqueue_pipeline_steps` between its real suspension points: an
`await` of an unbounded `asyncio.Queue.put` does not suspend, the
`asyncio.to_thread(request_queue.put)` of the two remote steps does. `Listen`,
`LaneStart`, `LaneEnd` are the worker process, `Forward` the status forwarder,
`BackgroundStart`, `LocalEnd`, `FaceSave`, `FaceEnd` the background worker (and,
for reruns, the thread the main worker awaits). `WorkerCrash`, `BackendCrash` and
`Restart` are crashes. A job ends with a result, without one ("skip": no model, no
file) or with an exception; the `finally` blocks signal in all three cases.

The environment: catch-ups and reruns of the photos in `Overlapping` start while earlier work on
them is still under way (the repair of a single photo, ComfyUI results and
reruns may); those of other photos wait until their photo is quiet.

Bounds: one photo at a time, since the only coupling between photos is the shared workers; run
`pipeline_calls` has one of either kind to choose from (`OnePhoto`, the CONSTRAINT of that run);
the number of calls; one worker per lane; `MaxFailures` jobs that skip or raise;
`MaxCrashes` crashes.

Abstracted: what the models compute, progress messages, the order of jobs within
a lane (any waiting job may be next, which includes the FIFO order), and
`run_coroutine_threadsafe`, whose hop to the event loop is merged with the signal.

### SessionPool, HeavyModels, MCSessionPool, SessionPoolProofs

Threads run the adapters: each use borrows some models one after the other, runs
inference, and gives everything back, also when a load or an inference call raises.

| Variable | Code |
| --- | --- |
| `cache`, `refs` | `SessionManager._sessions` and `_SessionEntry.refcount` |
| `pool`, `free`, `pending` | `_PoolState.entries`, those with `in_use = False`, and `_PoolState.pending` |
| `pc`, `need`, `held`, `limit` | a thread: its place, the models it still has to borrow, the sessions it has, and the `pool_size` it read from the settings |

Each `with self._lock` or `with self._pool_condition` block is one action:
`Hit`, `Miss`, `Put`, `Release` for the shared sessions (embeddings, faces);
`Take`, `Reserve`, `Wait`, `Append`, `ReleaseExclusive` for the pools (tagger,
captioner); `LoadFails` and `AppendFails` for a load that raises; `OutOfMemory`, then
`EvictUnused` and `EvictFree`, for `run_with_oom_retry`; and `EvictIdleSingles`,
`EvictIdlePooled` for the two halves of `evict_idle`. A load is the time between
`Miss` or `Reserve` and its end. `notify_all` sends every waiting thread back to
`asking`, whichever model it waits for, where it looks again.

Abstracted: `last_used` (`evict_idle` may take any unused sessions), the providers
and the run options, and the numbers the sessions compute. `Rank` is the order of borrowing
in the adapters: Florence-2 takes embedder, vision, encoder and decoder in this
order, `buffalo_l` the recognition model before the age model. Sessions are
numbered; a freshly loaded one takes a number that no live session has.
`evict_all` and `shutdown` run at process exit only and are left out.

`HeavyModels` is the other half of the memory: the language models and heavy captioners,
which two runtimes keep in one slot each (`slot`, for each process), outside the session
manager. `Ask` to `Over` are a thread's call: `Reuse` or `Missing` look at the slot,
`CrossUnload` empties the other runtime's, `EvictOwn` the own one, `Loaded` fills it. Each
is one lock region of `load` and `load_transformers_model`, and `EvictHeavyIdle` may come
between any two. `copy` is what the thread itself holds, since emptying a slot frees nothing
that is in use. `OneHeavyModel` is what the docstrings say: a process never has two. The API process keeps
to it, as its knowledge jobs take turns; two captioning workers do not (run `two_heavy_models`). What holds is
`HeavyModelsFit` (one model in a process of one caller, at most one in any when its callers are idle) and
`SecondBesideCall`: another model comes into memory beside one in one way only, by a call that loads while another
call has a model of its own, and never by an eviction, a reuse, an unload of the other runtime or a failed load.

Bounds: `MaxUses` uses per thread, `MaxFailures` failed loads and out-of-memory
calls; four calls for heavy models, from one thread of the API process (a model of either runtime) and
two captioning workers of the worker process. Sessions and heavy models share nothing, so
`MCSessionPool` runs the one when the other is at rest.

### Library, Reconcile, Crops, MCLibrary, CropsProofs

`Library` holds the rows (`db`: names of persons, assets, instances, faces, open
suggestions) beside the files (`disk`: photos by path, crops, folders). An operation is
an operator from a library state to the state it leaves, because the code builds
operations from helpers that move files and change rows together
(`materialize_assignment`, `prune_orphaned_instances`, `move_crops`); `Finish`
commits its rows, rolls them back when a unique constraint failed, or loses them in a
crash, while the files stay as they are. The operations of `person_folders.py` run to
their commit in one handler and are one step; favourite, trash, restore, purge and the
imports give up control between file and row, and are two, with the request in `pending`. An import that
lost a race for the content fails when it flushes its row (`ImportDone`): the job ends there, and the file it copied stays.

`Reconcile` adds the scan in its two parts (rows read, files walked), the report, the
repair of each kind of item at any later time, and changes by hand outside the program.

Autoflush is off in the code, so a query may see the rows as they were: `Reassigned` and
`Prune` take the face rows the query sees. Ids are reused (SQLite without
AUTOINCREMENT): `NewId` is one more than the greatest in use.

`StaysInOrder`: each row keeps a file of its own, through everything. `PhotosKept`: no
step deletes the last file of a photo. `RepairsConverge`: a repair of an item that is
still so leaves less to repair. Each names its exceptions, which are behaviour of
the code, named for the step and the row it is about: the folder of row i is two persons' (`FolderGone`); another
step takes what the request about row i knows (`Caught`, `Disturbed`); its file has moved when the
transaction fails, which costs it no photo (`RolledBack`); its item is repaired when it is no longer so (`BadRepair`).
Everything else, and every other row in the same step, is held to the property. Section 8 lists them.

Bounds: three photos (one an edit), three faces, two names, four persons; two operations, one
request in flight, one crash, one scan, from three libraries: an empty one, one with
unassigned faces, one sorted into persons. Deeper sequences start from the sorted one.

`Crops` is about crops of faces that have no photo. `upload[c]` is an upload or a face job:
the name is chosen (`UploadFaces`, `NextUpload`; `DetectCrop` takes a fixed one), then the content is awaited and
written (`WriteCrop`), then the embedding computed and the row committed (`RegisterCrop`).
`MoveToPerson` is the thread of `assign_face`, `MovedToPerson` its commit; `DeleteCrop` has no `await`
and is one step. `walk` is the scan that every start of the backend enqueues: it reads the rows
(`ScanReads`), lists one folder after the other (`OpenFolder`) and registers what it does not know
(`TakeFile`, `RegisterFound`). The rules of moving and naming are those of `Library`.

`CropsOwned`: every face keeps a crop of its own that shows it, and a scan gives a row to every
crop that had none when it began. Its exceptions are steps the code allows: a file
appears under the name an upload found free (`NameTaken`), the scan meets a file whose row is younger than
what it read (`ScanBehind`), an assignment is overtaken by another one or a deletion, or cut by
a crash (`Overtaken`). `walk.stray` holds the crops a scan is for; one whose face is deleted or given away meanwhile is
none of them (`Forgotten`).

Bounds: two uploads of two files each with the same names, one of them the name the face job gives, or of one file named like
the crop that the scan is to find; an assignment and a deletion beside a scan; a crash, also during an assignment. Photos stay as they are meanwhile, since a crop without photo shares no row with them.

### Edits, Comfy, MCEdits, EditsProofs

`Edits` is the editor and everything it writes. A request reads rows, works on files
in threads, and writes rows when it is back: `reqs` holds each request with what
it has read. A picture is a sequence of rows of pixels, so that turning a picture and
turning a face box in it are two computations that have to agree (`Applied`, `Turned`).

| Variable | Code |
| --- | --- |
| `db` | `Asset` hash and size, `AssetInstance`, `Face` boxes and crops, `Version`, ledger |
| `file`, `thumb` | files; cached thumbnails |
| `session` | `EditSession`, `EditStep` and the previews |
| `editor` | the editor of the frontend: step it shows and its preview |
| `settings`, `comfy`, `generated` | ComfyUI settings; ComfyUI's queue and output folder (external); photos it made |

Actions: `ApplyStart`/`ApplyDone`, `Rollback`, `Save` with its parts (`Rendered`, `Written`,
`CurrentRead`, `Inserted`, `VersionThumb`), the turn in place of all instances
of a photo (`TurnFile` for each, `PhotoTurned`, `ThumbsDropped`, `CopyTurned`), `BulkEdit` and
`BulkNext`, `Dedupe` of faces in a version, `ImportVersion`, `SetCurrent` (with `SiblingsRead`, `Switched`), `GetThumbnail`,
`TrashOrRestore`, renamed folders, `Crash`. `Comfy` adds runs of workflows, checked as
the API checks them (`RunWorkflow`, `RunDefaultWorkflow`), the job (`RunStarts`, `Upload`,
`SubmitPrompt`, `OutputFound`, `TimedOut`, `FetchForFace`, `FetchForPhoto`, `Checked`, `Added`,
`Cleaned`), the settings, the import of a result by hand, and a ComfyUI that renders, stops
and starts.

Which version is current is read with a SELECT (autoflush is off) and written by the commit, for saves, imports,
`set-current`, bulk edits and upscales alike: `seen` is what a request has read, and flags are written only where
they differ from it. A request on the event loop awaits nothing between the two, so only the threads of
bulk edits and upscales get in between (`Threads`, `LoopKept`). `VersionsKept` then says: exactly one version of an owner is current
(`docs/models.md:425`), except when such a thread and another request have each read before the other wrote.

Bounds: three instances of two photos, one face, one version, two sessions; two requests, both
at once, one lost answer or crash; four workflows and four runs (a batch, a face, a mask,
two pictures). Two requests are enough for every pair of operations to meet at every point.
`TurnFile` reads and saves in one step (both in one thread, without a callback between).

Names: what the program calls `edit_<uuid>` is the number of the request and which of its files it is, new by
construction as a uuid4 is; a crop found in a version (`v<version>_<n>.jpg`) is the pair of both numbers, other crops
(`<photo>_<n>.jpg`) never have such a name. `editor[k].smooth` is a ghost: every answer has come to this editor, and
its source was the same picture for all its steps.

### Workers, JobLifecycle, MCWorkers, WorkersProofs

`Workers` is `JobQueue` in both processes: `lane` and `parallel` for the jobs of the API
process, `putting`, `requests` and `messages` for the way to the worker process and back,
`worker` for the queue there, `status` and `real` for what the API process and the process
that runs a job know of it, `inbox` for the queues of subscribers, `seen` for the page, and
`pool` for a pool that is resized with poison pills.

A subscriber's queue holds references to one `JobStatus`, read when taken out;
hence `inbox` is a set of job ids. The page reconnects and then gets a snapshot. The worker
process may die, which nobody notices, and the backend restarts.

`JobLifecycle` is what a page may rely on: a job is enqueued, started and ended once,
the page shows states it has been in, in order, and an end only if it is the end.
`IsLifecycle` is the refinement, with `phase <- real` and `shown <- seen`. Beside it:
`StreamCurrent` (a drained stream is up to date), `PoolFits` (whatever resizes come between queued pills and leaving
workers, no worker too many is left without a pill), `WaitsEnd` (a rerun that waits for a remote job comes back) and `EndsShown`.

Bounds: three jobs in seven plans, which are the combinations that share something: a rerun and its
remote job, two jobs in one lane, background priorities beside a download, a resized pool;
each with one reconnect, one death and restart, or up to three resizes. Remote lanes
have one worker, so that order is visible. Progress and results travel with the status.

### Models, Vectors, Classification, Gallery, MCModels and their proofs (GalleryProofs, ModelsProofs)

A chain of four modules: what models there are decides what can be embedded, the vectors
decide what is classified and found, and the gallery shows it. Run `models` interleaves them.

`Models`: a file is the sequence of its pieces; a download appends to a `.part`,
resumes it, renames it, unpacks a bundle, and registers a row. `page` is the store of the
frontend, `cut` and `mixed` remember interrupted and overlapping downloads for the
exceptions. A registration reads the sibling rows, disables them and commits.
Windows semantics are taken for files, which is the platform the project names first
(`docs/PROJECT.md:44`): an open file cannot be renamed or removed. Manifest entries have no
checksum in this version.

`Vectors`: a vector is the picture it was computed from, which is all that
properties compare. `EmbedStart`, `EmbedLook`, `EmbedWrite`, `EmbedFails` are the job, in the background
worker or in the rerun of the main one; the write lock is held from the first vector to
the commit. `RebuildLoad` and `RebuildWrite` are the rebuild of the index; `ImportPhoto`,
`TrashAll` and `PurgePhoto` change the photos, and an id is used again. A search asks the index, which holds the
trash as well, for the nearest few (`Closest`, `Candidates`), leaves out what it is not for, re-ranks the rest by
appearance if that is on (`Ahead`), and cuts to the page (`Found`); a search by picture keeps what reaches `MinScore`, the list of
similar photos asks for `SimilarMost` above `SimilarFloor` and keeps the trash. Ties go to the smaller id. The numbers of the code (four times
the page, twenty more, a pool of a hundred) are constants.
`SearchTrue`: index, vector and photo agree, no photo counts as embedded that is not, and a search leaves out a photo it is for only if
its page is full or more hidden photos are nearer than the over-fetch passes over; without re-ranking it finds the nearest.

`Classification`: scores are integers with the softmax as a fraction; `prompted` is the
`lru_cache` of text vectors. The job reads the catalog, scores, and replaces the rows of the
photo; the catalog is edited meanwhile. `LabelsTrue`: a row has its label, in its
category, one per category unless it takes several, of the photo's own picture.

`Gallery`: the backend's list is merged from two ordered queries (photos and versions), cut into
pages; with a search it is ranked by scores, of the nearest `SearchMost` in the whole index (200 in the code, the trash included), before any
other filter applies. The store of the frontend keeps keys, page and total.
`ScrollsThrough`: scrolled to the end, it shows exactly what matches, in order.

Bounds: two embedders or one bundle, files of two pieces, two jobs; three photos of three
pictures, two persons, two lanes, pages of one or two hits with an over-fetch of one and a pool of two, so that hidden photos can fill it; two categories, three labels; pages of two, nine filters.
The worlds of `MCModels` each allow a few uses of a few actions (`left`), chosen so that what can
disturb each other is together: two embedders; a download, a scan and a deletion; embedding, purge,
import, rebuild; two classifications and two catalog edits; scrolling with filters,
losses, deletions. Ids, labels and files are reused within these bounds.

### Knowledge, Curation, MCKnowledge, KnowledgeProofs

`Knowledge`: a call on a note reads its file (`Call`), writes it (`Save`), and commits cache,
tasks and recommendations (`Commit`) or fails (`Refused`). Handlers of the API exclude one another
from reading to writing, jobs in threads do not. A rebuild takes the lock of the database with its first statement;
a reconcile reads its first note (`Open`) and its row (`Look`) before it has it (`SyncStart`). `SyncRead` reads one file after the other
under the lock, while calls save theirs; `SyncEnd` commits, or `SyncFails` when a row it had loaded has gone meanwhile or one has come. `HandEdit` changes a file outside; `DeletePerson`, `NamePerson`,
`Reassign` change what notes link to; `Compute` and `Store` are the recommendation job.
The content of a note is the owner of each field, which is what `merge` decides by.
`raced`, `unread` and `leak` are ghosts that remember for which notes and
recommendations the code promises nothing until the next sync: calls that overlap, fail half-way or are cut off, hands that edit, and calls that have
saved and committed between a reconcile's first read and its lock (`Overtaken`).

`Curation` adds albums with triggers and members, tags with aliases, captions, the queue of
re-evaluations, the evaluation (`EvalLook`, `EvalCommit`) on the main queue or in
the tagging and captioning lanes, the caption job, and the duplicate scan with its two
transactions. `review` is the table of the review queue by row id, which pairs share with suggested faces (`Suggest`, `AnswerFace`) and
in which ids are given out again. A decision (`Decide`) names a row by the id a page was told, waits for the photo to be moved
(`DecideMoved`, a commit of its own), and writes the row with that id (`DecideWrite`), if there still is one; `decided` are the pairs
whose own row a decision has reached. `stale` remembers members that nothing has evaluated since what their triggers look at
changed: the code asks for an evaluation in most places, not in all. It also holds the places of an album
that was emptied while an evaluation that had read before was under way, until that is right about them.

`CacheFollows`, `TasksTrue`, `RecsTrue`, `SmartFollows`: what is derived follows what it is derived
from. `UserKept`, `ChoicesStay`: nothing computed overrides what the user wrote, put in, or decided. `UserKept` is asked of a call alone on its
note since the last sync, and of any call that writes over what it has read: the owner is looked at when the note is read, long before it is written.

Bounds: two notes, one person, two photos, three fields, two calls at a time; one album,
two tags, three rows of the review queue; fourteen worlds with two or three calls or edits each, chosen like those of
`MCModels`. The worlds of `Knowledge` and those of `Curation` are separate, except that persons and
photos change in both.

## 4. Runs

| Run | Instance | Shows |
| --- | --- | --- |
| `pipeline_calls` | one photo with 2 calls overlapping in any way, or one with 3 calls one after the other, one failure, one crash | `TypeOK`, `FaceLast`, `ScheduledOnce`, `PrereqsOver` |
| `pipeline_recovery` | 5 calls, one failure, one crash, fairness | `Recovers` |
| `pipeline_lost_signal` | one import | `NotStranded` is violated |
| `pipeline_faces_gated` | import and overlapping catch-up | `FacesGated` is violated |
| `session_pool` | 3 threads, two shared and two pooled models, pools of 1, one failure, fairness | `SessionsKept`, `BooksBalance`, `WaitJustified`, `UseEnds`; four calls for heavy models in two processes: `HeavyModelsFit`, `SecondBesideCall` |
| `two_heavy_models` | the same | `OneHeavyModel` is violated |
| `library` | two operations on three libraries, a request, a crash, a scan with its repairs; faces without photo in four worlds | `StaysInOrder`, `PhotosKept`, `RepairsConverge`, `CropsOwned` |
| `library_merge` | the same libraries without reconciliation | `MergeKeepsPhotos` is violated |
| `edits` | two requests of any kind, a failure, seven worlds | `PhotosInFrame`, `VersionsKept`, `SaveIsShown`, `CropsApart`, `ThumbsFollow`, `ResultsLand` |
| `workers` | three jobs in seven plans, fairness | `StreamCurrent`, `PoolFits`, `IsLifecycle`, `WaitsEnd`, `EndsShown` |
| `models` | the chain Models to Gallery, fairness of downloads | `ModelsUsable`, `EmbedderStays`, `PendingEnds`, `SearchTrue`, `LabelsTrue`, `ScrollsThrough` |
| `knowledge` | notes and albums, in fourteen worlds | `CacheFollows`, `TasksTrue`, `RecsTrue`, `UserKept`, `SmartFollows`, `ChoicesStay` |

Each property of a passing run has a mutant in `PROJECT.json`: a definition of the model changed the way a
plausible bug would change the code, with which TLC finds the property violated. The
mutated forms stand beside the definitions they change, under a comment "Mutant".

Deadlock checking is off: an idle backend, threads whose uses are over, and an
instance whose bounded actions are used up are legitimate final states.

Why the bounds suffice for the pipeline and the sessions: two calls are the smallest number that can overwrite
each other's registration or signal into each other; three calls in sequence
let a registration stranded by the first be hit by the second while the third
follows; five calls are what a photo needs when its import is cut by the crash,
a catch-up by the failure, and another by a lost signal. In `SessionPool`, three
threads are a holder, a loader and one who waits for both; two pooled models are the
smallest chain in which one can be held while the other is awaited, and pools of one
session make every such use wait. `MaxFailures = 1` lets one load or one
inference call fail at any moment; the proofs cover any number, and any pool size.

The violations are in `PROJECT.json` under `findings`:

- A remote job may end before its counter is registered. The comment in
  `enqueue_pipeline_steps` rules out waiting "for a signal nobody will send"; this is a
  signal that was sent too early. Only a later catch-up completes the photo,
  which `Recovers` shows it does.
- The face job is not gated on `faces_done` as its docstring says, so a catch-up
  that collected the photo before the import's face job was done adds the faces again.
- Merging a named person into a nameless one passes the name on first; the files are moved
  into the folder of that name, which is then removed as the folder of the source.
- Two captioning workers that miss at once load a heavy model each: a load unloads what there is under the locks, but loads outside of them
  and takes its slot afterwards, so neither sees the other. The docstrings of both runtimes say that exactly one is resident.

`PrereqsOver` does not hold when calls for one photo overlap: the signals of the
earlier call count down the registration of the later one. This is why it speaks of
photos outside `Overlapping` only; `FaceLast` and `ScheduledOnce` do not depend on it.

## 5. Fairness

`Pipeline!FairSpec` assumes weak fairness of each loop that the code keeps running: the
callers on the main worker, the lanes of the worker process, the status
forwarder and the background worker. Two assumptions are about the user: a
backend whose worker process died is restarted some time, and the catch-up is
run while photos are incomplete. Failures and crashes are bounded by the
instance, so the assumption behind `Recovers` is that they stop.

`SessionPool!FairSpec` (with the same conditions in `MCSessionPool!SpecBoth`) assumes that a thread which can take its next step does:
loads and inference calls return, a borrowed session is given back (`finally`,
`ExitStack`), and a notified thread gets the lock. Weak fairness is enough although
a waiting thread may find the pool taken again, because a thread makes only
finitely many uses in the instance; nothing in the code prevents a steady stream of
other uses from starving one.

`Workers!FairSpec` assumes weak fairness of `Runs`: the loops of both processes, the
jobs, which end, and the page, which reconnects by itself (`EventSource`). Enqueueing, resizing,
disconnecting, clearing, death and restart are not part of it. One condition for all
loops together is enough because between two of the user's actions the loops
have only finitely much to do, and every one of their steps uses some of it up.

`Gallery!GSpec` assumes weak fairness of `ModelRuns`: the steps of downloads and deletions that are under way,
and the answers to the page. It is used for `PendingEnds` only; no fairness is
assumed of the other steps of that run.

The runs `library`, `edits` and `knowledge` state no liveness: nothing in them is retried by the program.

## 6. Proofs

`PipelineProofs` proves, for any sets of photos, calls, steps and choices, with any
number of failures and crashes and with overlapping calls:

- `TypeCorrect`: `Spec => []TypeOK`; the counters stay natural numbers because a
  signal for an unregistered photo is dropped.
- `Invariant`: `Spec => []PipelineInv`.
- `FaceRunsLast`: `Spec => []FaceLast`. `FaceLast` alone is not inductive: when FACE is
  taken from the background queue one needs that heuristics and embedding of the
  same call have been put there before, or else they could still follow.
  `FaceComplete` says so of calls that have a FACE job, `Registrations` of calls that
  will get one from a signal, and `PuttingCalls`, `RerunCalls`, `UnstartedCalls`
  and `EarlyStages` carry that fact through the phases of a call. With it, the
  priority order (`Priority`) and the single background worker give `FaceLast`.
- `PipelineSchedulesOnce`: `Spec => ScheduledOnce`, from the same invariant: a
  registration belongs to a job that does not exist yet.

- `PrerequisitesFirst`: `Overlapping = {} => (Spec => []PrereqsOver)`. With the hypothesis no photo is
  worked on by two calls at once; for one that is, the property is false (section 4). What
  carries it is a count: a registration is at least the number of prerequisites of its
  call whose signal is still to come (`Counted`), so it is used up by the last of them only.
  For this, signals must be about jobs that are over (`SignalsOver`), each remote job must be put
  once (`PutOnce`, `JobsWanted`), and no other call for the photo may send any
  (`OneAtATime`). A registration left over by a lost signal is overwritten by the next call's,
  or used up by its signals before; both are steps of the proof (`OnwardKeeps`, `DeliveredKeeps`).

The argument has one lemma per group of actions (`Type...`, `Inv...`, `Quiet...`), and two
lemmas that do the work for all job steps: `JobMoves` (a job that moves on) and
`SignalCounts` (a signal that may schedule a job). The assumptions are the named ones
of `Pipeline` on its constants; TLC evaluates them in every run.

`SessionPoolProofs` proves all safety properties of the session manager, for any
number of threads, models, sessions, uses, failures and pool sizes, provided
that the set of threads is finite and the models of one use have different ranks:
`PoolTypes`, `SessionsInUseStay`, `PoolIsExclusive`, `NothingLeaks`, `NoLostWakeup`,
`PoolsAreBounded`. They are proved as one inductive invariant, since none of them
is inductive alone: that an eviction takes no session in use needs the holder
counts (`Accounts`), these need that a session somebody holds is the cached one
(`InUseStays`), and that `pending` stays a natural number needs that it counts the loads under way.
`ThreadShape` and `PoolShape` add what a thread holds at each place. The cardinalities
follow from `Counting` (the library's facts on finite sets) and from
`LoadersSame`, `LoadersLess`, `BorrowedFacts` and `ReturnedFacts`, which say who
enters and leaves the sets of holders and loaders; then there is one lemma per group of
actions. `BorrowedIsSafe` and `BooksAlwaysBalance` put the results together as the run checks them:
`SessionsKept` is `InUseStays` and `Exclusive`, `BooksBalance` is `Accounts` and `Bounded`.

For the models outside the pool it proves `HeavyModelsFit` (`HeavyModelsSafe`) and `SecondBesideCall` (`SecondOnlyBesideCall`) for any number of processes, threads, models
and calls, provided that threads are finitely many and each process has one thread or uses one
runtime (`RuntimeAssumption`, as the API and the worker process do). A load is four lock
regions, so the count alone is not inductive: `Shared` says that the slot of a process of
one runtime holds what some thread has or some thread has nothing, and `Single` follows the one
thread of the other kind of process through its regions. `CopiesDiffer`: a load makes a copy
that nothing else is.

`WorkersProofs` proves for any plan of jobs, any pool sizes and any number of deaths,
restarts, reconnects and resizes that the page's stream is current and pools come down to their size
(`StreamIsCurrent`, `PoolsFit`), and that the two processes implement the abstract specification
(`QueueIsLifecycle`: `Spec => IsLifecycle`, from `QueueInvariant`). The invariant `WInv` has three groups: a
waiting job stands in one place (`LocalPlaces`, `RemotePlaces`), which makes it start once;
the status of the API process and the messages on their way are behind what has
happened, in order, and never wrong about an end (`StatusRight`, `MessagesRight`, `Reported`);
the page is behind that status, and what it lacks is in its queue (`SeenBehind`, `PageFollows`). Each
step of `Workers` is then one of `JobLifecycle` or none (`Steps...`), the death of the worker
process the `Lose` of every job it had.

`GalleryProofs` (vectors, classification and the grid) and `ModelsProofs` are about the chain of `models`, in all of `Gallery`'s steps:

- `VectorInvariant` and `SearchIsTrue`: `GSpec => []SearchTrue`. Index and vectors follow the photo except
  where the ghosts of a job or a purge say so (`IndexFollows`), which needs what each job
  has read and not yet written (`TaskShape`). What a search finds is a fact about orders: likeness and id order the index, appearance
  the candidates (`NearnessOrders`, `RankingOrders`), in a strict order of a finite set what stands behind the first n has
  n before it (`PassedOver`), and of as many candidates as the page and the spare ones only the hidden are lost (`CandidatesEnough`); so what is
  left out has a full page or too many hidden ones before it (`FoundFinds`, `SearchFinds`).
- `ClassInvariant` and `LabelsStayTrue`: `GSpec => []LabelsTrue`, for any catalog, scores and thresholds. What a job
  has scored are rows of one photo and picture of which two share a category only if it took several (`Scoring`,
  `Compatible`), and it replaces all rows of the photo at once, so they are so afterwards.

- `GalleryInvariant` and `GalleryScrolls`: `GSpec => []ScrollsThrough`, for any photos, versions, filters, scores and size of a page.
  `ScrollsThrough` says nothing before the end is reached. The invariant `ScrollInv` does: what is shown are the keys of
  the first pages of what the filter finds, in the order of their first entries (`Scrolled`, `KeysUpTo`). Three things
  carry it. A page cut out of the first entries of two ordered queries is the same part of the whole list
  (`PageIsPart`), since who has fewer than so many before it has fewer in its own query too. Joining the next part keeps the keys in order without
  doubles (`KeysUpTo` from k to the next page), though a photo with several instances has several entries of one key. And
  what changes beside it leaves the list alone (`Stays`), takes away what stands at its end (`TrashScrolls`), or is
  what `disturbed` says. Lists joined page by page ask for no induction: the order of a
  finite set determines its list (`OneOrder`), and where a key is met first is a least element (`Least`).
- `ModelInvariant`, `ModelsStayUsable` and `EmbedderIsKept`: `GSpec => []ModelsUsable` and
  `GSpec => EmbedderStays`, for any manifest, size of files and number of downloads, failures, scans, deletions and restarts.
  `ModelsUsable` says nothing of a download under way. The invariant follows it (`OnTrack`): what there is of the
  file are its first pieces (`First`), as many as the job has read, so that a resumed file that has all its pieces is
  whole; the files before it have their names; and a registration finds its model complete. This needs that no
  second job and no deletion is at the model (`Sound`), which is what the ghost `mixed` excuses, and that a
  scan recognises only models of which nothing is missing or a download is under way or was cut off. Models a step does not
  touch are one lemma (`Frame`), the steps of a job another (`JobStep`). For the embedder: a scan hands the role to the
  last one it finds in the manifest (`ScannedRows`), `resolve_image_embedder` keeps the one with the greatest id
  (`HealedRows`), and a commit writes over rows that others may have changed since it read them (`WrittenRows`).

They assume that photos, persons, categories and labels are finite sets of positive ids and that the worlds hold
rows, that the versions of a world are finitely many, a page has an entry and filters are those the page offers (`IdAssumption`, `AlikeAssumption`, `NoneAssumption`, `CatalogAssumption`, `WorldAssumption`,
`PageAssumption`, `ValueAssumption`, `FilterAssumption`); that a file has a piece, that
the manifest is a sequence, and that what is registered at the start was bound in place, since the directory of the models is
empty then (`SizeAssumption`, `ManifestAssumption`, `StartAssumption`).

`CropsProofs` proves `CropsOwned` (`CropsStayOwned`: `SpecC => CropsOwned`) for any number of uploads at a time, any persons, batches,
files and rows. The first part of the property is about one step, and the proof takes it action by action (`...Order`): what is
in order before is in order after, unless a name is taken, the scan is behind or an assignment is overtaken. Each of them is about where the crop of
a face is, which `CropOf` says by a choice among its assignments; `CropIs` and `CropSame` say what of it a step can change. That a name found
free is free, and a new id new, rests on the numbers tried being one more than the files (`FreeVacant`), and on a finite set of numbers having a smallest
and a largest (`First`, by the well-foundedness of strict inclusion). The second part, that a scan leaves no
crop without a row, is about a whole scan: `Strays` says that a crop the scan is for has a row by now, or is in no row that the scan
read and still ahead of it, in a folder to be listed, in the list or in its hand. It is the invariant of `CropsInvariant`.
The assumptions: there is a folder of the unknown, an upload has a file, and the files and rows to begin
with are finitely many (`KeepersAssumption`, `BatchesAssumption`, `CropWorldsAssumption`).

`EditsProofs` is about `Comfy`, with all of `Edits` in it, for any library, sessions, operations, workflows and numbers of
requests, rendered pictures, crashes and lost answers:

- `EditsInvariant`: `Spec => [](EditInv /\ SessionsOk)`. None of the properties of run `edits` is inductive, since a request acts on what it read
  several steps ago. `EditInv` says what it can rely on. It is about names: a version's files go under one
  name of its own, whatever their format (`RowsOk`); every request under way has names of its own for what it will write
  (`Claims`, `NamesOk`), which no version has and no file until it is written (`Unused`); one that writes over a version or turns it
  holds that version's name (`Writing`, `Turning`), and it carries what the steps to come read (`Shaped`). A bulk edit claims the names of all the
  photos it has still to do. Three lemmas do the work for most actions: a request that goes away, one that goes on and
  claims no more than it did, and a new one whose names are the next (`Going`, `GoingOn`, `Coming`).
- `EditsKeepVersions`: `Spec => VersionsKept`. A version is `Whole` when it has its file, or one writer that finds what it expects. As
  names are apart, a step can touch the file of a version only as its writer or by a rename; each of the steps that can
  write is a lemma of its own (`SaveFine`, `RenderedFine`, `WrittenFine`, `OverwrittenFine`, `TurnFileFine`, `CopyTurnedFine`, `CrashFine`), the others leave
  versions aside (`Aside`, and the lemmas named after it). For the current version: what a request on the event loop has read of the current
  versions is so until it writes, or a thread has inserted one since (`ReadsOk`, by `ReadsInvariant`); with it every insertion and every
  switch leaves one, or is the exception (`CurrentStep`).
- `EditsKeepCropsApart`: `Spec => CropsApart`. The property counts crops and rows; the proof says of the same that no two rows share a crop and each
  crop has its file (`OwnCrops`, `OwnCropsCounted`).
- `EditorsInvariant`: `Spec => []EditorsOk`. An editor shows the step it is at, steps are numbered from 1 without a gap, and each has the picture the
  steps up to it make of the source (`Straight`); so does what an apply under way will store (`Applies`), and a request to save or turn recalls what was
  shown (`Recalls`). It needs that the step with so many before it is the one of that number (`Highest`), which is what makes the list
  read from the table the list of operations.
- `EditsRefreshThumbs`: `Spec => ThumbsFollow`, from `EditInv`. A thumbnail is fresh when it shows its picture or a request under way renews it
  (`Shows`, `Renews`). Three facts make the step: what a thumbnail is of stays as it is, or a request that will renew it is under way
  afterwards (`Beneath`; names are what tells whose file a request writes, and a crop found in a version has a name of two parts, which no
  face's crop has); such a request keeps at it until it has made or dropped the thumbnail (`RenewerStays`); and what it makes shows the file it was about (`VersionThumbFresh`, `CopyTurnedFresh`).
- `EditsSaveWhatIsShown`: `Spec => SaveIsShown`, from `EditorsOk`. What operations do to a picture is not used: both sides are the same
  rendering of the same source.

They assume of the library to begin with (`EditsAssumption`, `Possible`) that rows have their columns, that versions are finitely many
and have files of their own in edits folders, older than any the requests make, that faces have crops of their own in faces folders under other names than the
crops of versions, that sessions are about photos, faces and versions there are, and that an editor shows what its steps
made. Nothing is assumed of the pictures, the operations, or which instances and versions belong where; a file may be missing. `Nothing` is no number, and ids of instances are
positive. TLC evaluates the assumption on the worlds of run `edits`.

`KnowledgeProofs` proves the knowledge base for any notes, owners, persons, photos and numbers of
calls, while the albums of `Curation` go on beside it:

- `CacheInvariant`, `CacheIsFile`: the cache row of a note is that of its file, once no call is between
  writing and committing and no sync is under way. `Loaded` says that a sync has loaded the rows of notes that are not raced as they are,
  `InStep` that such a row is that of its file until a call has written it, also for a sync that has read it. `Behind` says what a call under way has read, loaded and written, and that the row is
  the one before it or, when a sync came between, the one after; `Alone` that calls on a note do not overlap
  unless it is `raced`; `Made` that what is written was made of what was read.
- `UserStays`: what the user owns in a note no call of anybody else changes, if the call is alone on its note since the last sync. That the file is then
  still what the call has read is `Made`, which is what makes the owner it asked for the one it writes over; a call among others has to
  write over what it has read for it.
- `RecommendationsTrue`: recommendations have the reasons they name unless their invalidation was lost.
- `TasksAreTrue`: tasks ask for what the row of their note lacks, one task of a kind for a note (`TInv`).

- `SmartAlbumsFollow`: `CSpec => []SmartFollows`, for any albums, tags, triggers, persons and photos. `SmartFollows` says
  nothing of places that something will still evaluate. The invariant `SInv` does, for each place (`Place`): what the main queue's
  evaluation has read of it is how things are, or it is stale, was written beside it, is in the queue, or the
  worker process has it (`MainRight`, `ReadRight`); and an album that is not smart has no smart rows but stale ones
  (`PlainEmpty`, `PlainKnown`), which is what an evaluation that leaves such albums out relies on. The evaluation of the worker
  process needs no such promise, as what overtakes it is stale by definition. A step that leaves a place alone is one
  lemma (`PlaceStays`), so an action is proved for the places it is about only.
- `ChoicesOfTheUserStay`: `CSpec => ChoicesStay`, from the types and two facts: a caption job that is to write may write (`Shape`), and
  a pair has one row, which for a pair that was decided on is resolved (`Reviewed`, `OnePerPair`): scans look for a row of a pair before they add one and purge open
  rows only, so that a row of a decided pair stays under its id, whatever becomes of the ids around it.

The assumptions are on the notes, owners and worlds (`NoteAssumption`, `WorldsAssumption`), on the types of the albums, tags and
captions at the start (`ShelvesAssumption`), and that the photos are a finite set (`PhotosAssumption`), which a list of requests for
them needs.

What the proofs changed in the models: the ghost that excuses a vector written over by a second job had to cover
an embedding that began before a purge; `Content` of `Knowledge` had two arms that overlapped; a search
filters before it orders, which the list had the other way round; and the child rows of a deleted note may stay
(section 8). `SmartFollows` was not inductive, and TLC found in a larger instance that it did not hold: an evaluation that had
read before an album was deleted fills the album that gets its id, and one that had read before a
photo changed brings back a row the user took out since. `stale` covers both now (`Emptied`, `RemoveItem`), which made
an exception for albums turned off meanwhile superfluous, and a world of run `knowledge` reaches the first. `AutoLinked` and `Scanned` are written in closed form in place of a fold over names and over the manifest, since
nothing can be proved of a fold here, and so is what the grid's store adds of a page (`With`), which was a fold over the page; the order of
entries names its ties (`Earlier`), since a list is only determined by an order that is total. TLC found the forms equal in every state of runs `knowledge` and `models`.
`CropsOwned` did not hold in larger instances, as its proof showed: a crop the scan has registered may be deleted and another one uploaded under
its name, and the scan owes that one nothing (`Forgotten`); a restart loses an assignment also when nothing is uploaded (`Overtaken` had asked for an
upload); and that a face shows its crop needs that the file is still what the scan has read (`WalkInOrder`). Run `library` has worlds for the first two.

For `Edits` the proofs asked for more. That the file of a version is written by one request at a time was a count; now it says that two of them are one (`Lone`),
which is the same for the finite sets of a run and needs no arithmetic. A bulk edit took its photos from a list sorted from a set; it takes the least
that is left, which is the same order. `ThumbsFollow` did not say of a save that replaces a file by one of another format that the thumbnail
another request makes meanwhile is of the old file (`OldPath`); the folder of the unknown person is never renamed, which `RenameFolder` had left open. That an editor
shows what its steps made was not true of an editor whose source changed between two of its steps, which `smooth` records now.
`ResultsLand` says of a picture that goes from ComfyUI's folder that the version made of it is a version of the face the run was for.

Model-checked only: `StaysInOrder`, `PhotosKept` and `RepairsConverge` of run `library`, and two properties of run `edits`. `PhotosInFrame` compares a picture turned by
a list of operations with a box turned by the same list, `ResultsLand` the pixels of a picture with those of a list of inputs, and `RepairsConverge` sums
weights over a report: facts about folds over data of any length, which take an induction the prover cannot do. `StaysInOrder` and `PhotosKept` compare, after each part of an operation, folders, files and rows of all tables at
once, and their inductive invariant would have to say what each of the operations under way has moved already: they could be proved in principle, and have not been. The liveness properties `Recovers`, `UseEnds`, `WaitsEnd`, `EndsShown` and
`PendingEnds` stay with TLC, since the prover has neither ENABLED nor fairness.

## 7. What the models leave out

Not modelled at all:

- what the inference adapters (`inference/`) compute around the models they borrow: numeric code around
  external models;
- the MCP server: its tools pass their arguments to the API endpoints behind a confirmation;
- the HTTP layer: reads and validation; what a handler changes is in the module of its component;
- the database schema and its migrations: constraints appear where they guard rows;
- the presentation of the frontend: only stores with a state of their own are modelled.

Left out of what is modelled, by module:

- `Library`, `Reconcile`: retries on locked files, EXIF dates, corrupted files, incomplete metadata,
  orphaned faces; which faces are alike is a choice. The assign endpoints run
  `materialize_assignment` in a thread and are one step here, with a possible crash.
- `HeavyModels`: free VRAM, the device and offload settings; models are compared by id.
- `Crops`: thumbnails and the face index, which follow the row; folders of persons that are renamed or merged meanwhile.
- `Edits`: Pillow's operations other than turning, cropping and converting.
- `Comfy`: bindings of prompts, resolutions and toggles, the pixels of a mask, thumbnails of generated photos,
  persons and faces deleted meanwhile, an `unlink` that fails, names ComfyUI uses again.
- `Workers`: progress figures and results, the shutdown of the worker process.
- `Models`: `snapshot_download`, component models, companion files, VRAM advice; bind and scan are one step.
- `Vectors`: the check for duplicates after an embedding, the face index, the rebuild of all but the first space.
- `Classification`: handlers are one step (plain `def` in the thread pool, one short transaction); the prompt
  template is fixed; a batch of prompts is cached whole or not at all.
- `Gallery`: facets, stacks, the view of faces, the lightbox.
- `Knowledge`: changelog rows, titles, aliases, sources, the lookup job, what the AI suggests before the user
  applies it, moving files on rename.
- `Curation`: order and covers of albums, caption overrides of a training set, statistics; the wants of triggers are read
  at once, then the rows.

## 8. Observations

Met while modelling, beside the findings of section 4. The properties name those they touch as exceptions.

Library (`media/person_folders.py`, `api/`):

- Renaming a person to the name of another one's folder, or merging named persons into one without, lets two
  persons share a folder; deleting one then removes files of the other.
- Merging, deleting or splitting fails on the unique constraint of (photo, person) when a trashed instance of the same photo
  is at the target, after the files have moved.
- A suggestion confirmed for a person deleted meanwhile leaves an id without a person; SQLite gives that id to the next one.
- `api/faces.py:618` invalidates recommendations after the only commit, so the invalidation is lost, as in
  `api/knowledge.py:613` and `:637`, against `docs/decisions/030`. The test
  `test_recommendation_invalidation_knowledge.py:82` sees it because its session flushes by itself.
- Of two imports of one content the later fails at `session.flush()` (`jobs/import_job.py:73`), before the handler at line 87 that is
  meant for it: the rest of its batch is not imported, and the file it copied stays without a row.
- Two photos of one name in an export share the text file beside them (`jobs/export_job.py`), and two exports in one second
  share a folder.

- Two uploads of one name for one person both find it free, and the second overwrites the first (`api/faces.py:388`); a face job
  overwrites an uploaded crop that has its name. The startup's scan registers a crop again that was uploaded, detected or moved after it
  read the rows (`jobs/face_folder_scan_job.py:149`); deleting one of the two rows removes the other's file.
- A face deleted while its assignment is under way leaves the moved file without a row, and if its id is taken again
  the assignment's commit changes that other face.

Editor and ComfyUI:

- A bulk turn that fails half-way is retried through the next instance and turns the first file again; a renamed person folder
  leaves `Version.path` behind.
- A generative run in the editor always ends in "Importiertes Ergebnis nicht in den Versionen gefunden":
  the importer creates a photo, the editor looks for a version (`editor.effects.ts:122`).
- Versions given as inputs of a workflow are not counted (`api/comfyui.py:387`, `:571`), though the page allows the run.
- A workflow whose only output is a preview is accepted, and its import fails.
- A duplicate found at `flush()`, a failing `read_meta`, or a crash leave a file without a row.
- An owner is left with two current versions, or none, when a bulk edit's or an upscale's thread and another request of the owner both
  read which one is current before either commits (`jobs/bulk_edit_job.py:126`, `api/edit_sessions.py:734`), against `docs/models.md:425`.
- Runs are in the background queue, though `jobs/queue.py:86` says the user's ComfyUI jobs are on the main worker; one that waits for
  ComfyUI holds up heuristics, embeddings and faces for up to half an hour.
- `put_comfyui_settings` logs that an unknown default is stored empty, and stores it (`api/comfyui.py:241`).

Jobs and worker process:

- `api/config.py:50` says tagging and captioning pools are resized live; the pools it resizes are those of the API process, while the
  jobs run in the worker process.
- The page keeps jobs of an earlier backend as running; cleared jobs come back with a snapshot; `_jobs` only grows.
- Resizing twice while pills are queued leaves fewer workers than asked for: a pool of two that is asked for one worker twice is left with none, and
  growing again does not replace a worker whose pill is queued (`jobs/queue.py:202`). `PoolFits` bounds the pool from above only.

Models, vectors, classification, gallery:

- One scan can leave two embedders enabled (autoflush is off), which `image_embedder.py:55` calls impossible.
- With an embedder of another width than the index every embedding fails with a warning only; prompts cached under another embedder make every
  classification fail until a restart.
- Purging a photo leaves its classification and tag rows, and its id is used again; a job under way may mark the new photo as embedded.
- A page of the gallery that fails is counted and skipped; deleting a shown photo shifts the following pages, so one is missed; tag facets
  count tags the user removed.

Knowledge, collections:

- A reconcile reads its first note before it holds the lock of the database (`knowledge/maintenance.py:90`, `repository.py:51`): a call that saves and commits
  in between is overwritten in the cache by what the note was, until the next sync; one that deletes the row makes the whole reconcile fail.
- A decision on a pair addresses its row by id across the wait for the trash (`api/review.py:238-243`). When a scan has purged the row meanwhile the request
  fails after the photo was moved to the trash; and as ids are given out again it may resolve the row of another pair or of a suggested face, or, told
  late, move a photo of another pair to the trash.
- A delete that overlaps another call on its note can leave child rows without their note; a job whose columns are unchanged keeps them through
  a reconcile (`knowledge/repository.py:29`, `maintenance.py:52`), and only a rebuild removes them.
- The task "missing" disappears with every second write (`knowledge/task_rules.py:26`).
- Deleting a person that two notes link leaves a dangling link; `apply_discovery` with a new source and a fact, but no text, fails after the vault
  was written.
- An evaluation that has read the triggers of an album fills the album that gets its id, when it is deleted and another one is
  created before the evaluation writes; the rows stay until something asks for that album.
- Rejecting a face, clustering, trash and restore, and removing an alias evaluate no smart album; deleting a person evaluates only its own photos.
- An evaluation in the main queue that read before the tagger's commit overwrites the tagger's, and the other way round.
- Merging tags does not carry over triggers; the tagger does not resolve aliases, so a merged tag the user rejected comes back under its alias.
- `jobs/caption_job.py:227` asks whether the user edited the caption before the model runs, and writes without asking again.

Language models (`inference/gguf_engine.py`, `generative_engine.py`):

- `docs/decisions/028` and `029` allow one heavy model at a time. Since captions run in the worker process, that process and the API
  process may each hold one, and two caption workers load a copy each (run `two_heavy_models`); an idle eviction drops a model in use from its slot only.
