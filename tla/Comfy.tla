------------------------------- MODULE Comfy -------------------------------
(***************************************************************************)
(* Runs of ComfyUI workflows: a request is checked against the workflow it  *)
(* names and becomes a job for each photo; a job sends its pictures and the *)
(* patched workflow to ComfyUI, waits for the result, imports it as a photo *)
(* or as a version of a face, and removes it from ComfyUI's folder.         *)
(*                                                                         *)
(* ComfyUI itself, with its queue, history and output folder, is external.  *)
(* An upscaled face goes the way of a version, which is why this module     *)
(* extends the editor's: files, rows and requests under way are the same.   *)
(***************************************************************************)
EXTENDS Edits

CONSTANTS
    Workflow,      \* the workflow files: key -> format, nodes, number of pictures a run makes
    Runs,          \* what the user asks for: task or workflow, inputs, mask, targets
    AllSettings    \* what the settings page may be set to

VARIABLES
    settings,      \* enabled, default workflow per task, whether the output folder is known
    comfy,         \* ComfyUI: up, prompts (images, state), output folder (name -> picture)
    generated      \* photos made by ComfyUI: original, picture, path, imported by a job or by hand
comfyVars == <<settings, comfy, generated>>

(***************************************************************************)
(* Workflows.                                                               *)
(***************************************************************************)
NodesOf(k, classes) == {i \in DOMAIN Workflow[k].nodes : Workflow[k].nodes[i].class \in classes}

Loaders == {"LoadImage", "LoadImageMask"}
Saves   == {"SaveImage", "PreviewImage"}

\* Every image loader is an input, named after its title or its class.
InputKey(k, i) == LET n == Workflow[k].nodes[i] IN IF n.title = "" THEN n.class ELSE n.title
Keys(k) == {InputKey(k, i) : i \in NodesOf(k, Loaders)}
IsMask(k, key) == \E i \in NodesOf(k, {"LoadImageMask"}) : InputKey(k, i) = key

Valid(k) == Workflow[k].api /\ NodesOf(k, Saves) # {}

\* The mask is the alpha channel of the picture that a node takes as its mask, or comes from a
\* loader of its own.
Mask(k) ==
    LET alpha  == {Workflow[k].nodes[i].mask : i \in DOMAIN Workflow[k].nodes} \cap NodesOf(k, {"LoadImage"})
        loader == NodesOf(k, {"LoadImageMask"})
    IN  IF alpha # {} THEN [mode |-> "alpha", node |-> Min(alpha)]
        ELSE IF loader # {} THEN [mode |-> "loader", node |-> Min(loader)] ELSE Nothing

\* The node whose result is imported: the one marked, or the only one there is.
OutputNode(k) ==
    LET marked == {i \in NodesOf(k, Saves) : Workflow[k].nodes[i].title = "Photofant Output"}
        only   == IF marked = {} THEN NodesOf(k, Saves) ELSE marked
    IN  IF Cardinality(only) = 1 THEN CHOOSE i \in only : TRUE ELSE Nothing

\* A node is found by its title if that is unique, by its id otherwise: it is the node the
\* input was named after.  Of two inputs with one name both get the picture.
Patched(k, sent) == [i \in {j \in NodesOf(k, Loaders) : InputKey(k, j) \in DOMAIN sent} |-> sent[InputKey(k, i)]]

(***************************************************************************)
(* Requests.  An input is a key, what it is of (photo, face, version), ids, *)
(* and whether it is a list.                                                *)
(***************************************************************************)
HasMask(k, run) == run.mask # Nothing /\ Mask(k) # Nothing

\* A masked photo takes the place of what the request says for its input.
InputsOf(k, run) ==
    LET key == InputKey(k, Mask(k).node)
    IN  IF HasMask(k, run) /\ Mask(k).mode = "alpha"
        THEN <<[key |-> key, of |-> "instance", ids |-> <<run.mask>>, batch |-> FALSE]>>
             \o SelectSeq(run.inputs, LAMBDA x : ~(x.of = "instance" /\ x.key = key))
        ELSE run.inputs

\* Versions do not count as provided.
Provided(k, run) == {x.key : x \in {y \in ToSet(run.inputs) : y.of # "version"}}
                    \cup (IF HasMask(k, run) THEN {InputKey(k, Mask(k).node)} ELSE {})

Axes(inputs) == {j \in DOMAIN inputs : inputs[j].batch}
Expandable(k, inputs) ==
    /\ Cardinality(Axes(inputs)) <= 1
    /\ \A j \in Axes(inputs) : inputs[j].of = "instance" => ~IsMask(k, inputs[j].key)

\* Mutant: every job gets the first picture of the list.
ExpandFirst(inputs) ==
    [i \in 1..(IF Axes(inputs) = {} THEN 1 ELSE Len(inputs[Min(Axes(inputs))].ids)) |->
        [j \in DOMAIN inputs |-> [key |-> inputs[j].key, of |-> inputs[j].of, id |-> inputs[j].ids[1]]]]

\* expand_batch: a job for each item of the one list there may be.
ExpandBatch(inputs) ==
    [i \in 1..(IF Axes(inputs) = {} THEN 1 ELSE Len(inputs[Min(Axes(inputs))].ids)) |->
        [j \in DOMAIN inputs |-> [key |-> inputs[j].key, of |-> inputs[j].of,
                                  id |-> inputs[j].ids[IF inputs[j].batch THEN i ELSE 1]]]]

\* Every call to ComfyUI is answered or ends in a ComfyUIError.
Reachable == comfy.up

\* Settings, ComfyUI and the inputs are checked before anything is queued.
MayRun(k, run) ==
    /\ settings.enabled /\ Reachable
    /\ k \in DOMAIN Workflow /\ Valid(k)
    /\ Keys(k) \subseteq Provided(k, run)
    /\ Expandable(k, InputsOf(k, run))

\* A job for each, with the settings as they are now.
EnqueueRuns(k, run, targets, node) ==
    LET jobs == ExpandBatch(InputsOf(k, run))
    IN  /\ count < MaxRequests /\ Cardinality(reqs) < MaxBusy /\ count' = count + 1
        /\ reqs' = reqs \cup {[kind |-> "queued", n |-> <<count + 1, i>>, flow |-> k, inputs |-> jobs[i], dir |-> settings.dir,
                               target |-> IF targets = <<>> THEN Nothing ELSE targets[i], node |-> node] : i \in DOMAIN jobs}
        /\ UNCHANGED <<db, file, thumb, session, editor, failures, comfyVars>>

RunWorkflow(run) == MayRun(run.task, run) /\ EnqueueRuns(run.task, run, <<>>, Nothing)

\* A default run has a target for each job, photos or faces.
RunDefaultWorkflow(run) ==
    LET k == settings.defaults[run.task]
    IN  /\ run.task \in DOMAIN settings.defaults /\ MayRun(k, run)
        /\ OutputNode(k) # Nothing
        /\ Cardinality({t[1] : t \in ToSet(run.targets)}) = 1
        /\ Len(run.targets) = Len(ExpandBatch(InputsOf(k, run)))
        /\ EnqueueRuns(k, run, run.targets, OutputNode(k))

PutSettings(s) ==
    /\ settings.enabled /\ s # settings
    /\ count < MaxRequests /\ count' = count + 1 /\ settings' = s
    /\ UNCHANGED <<db, file, thumb, session, editor, reqs, failures, comfy, generated>>

(***************************************************************************)
(* The job.  The background worker takes one at a time, in order.           *)
(***************************************************************************)
IsJob(r) == "flow" \in DOMAIN r
Before(m, n) == m[1] < n[1] \/ (m[1] = n[1] /\ m[2] < n[2])

PathOfInput(x) ==
    CASE x.of = "instance" -> IF LiveOf(db, x.id) = {} THEN Nothing ELSE db.inst[Max(LiveOf(db, x.id))].path
      [] x.of = "face"     -> db.crop[x.id]
      [] x.of = "version"  -> IF x.id \in DOMAIN db.version THEN db.version[x.id].path ELSE Nothing

\* The rows are read when the job starts.
RunStarts(r) ==
    /\ r.kind = "queued"
    /\ \A q \in reqs \ {r} : IsJob(q) => q.kind = "queued" /\ Before(r.n, q.n)
    /\ GoesOn(r, [kind |-> "upload", sent |-> <<>>, next |-> 1,
                   paths |-> [j \in DOMAIN r.inputs |-> PathOfInput(r.inputs[j])]])
    /\ UNCHANGED <<db, file, thumb, session, editor, count, failures, comfyVars>>

\* One picture after the other; the job ends with an error if one is gone, or ComfyUI is.
Upload(r) ==
    LET x == r.paths[r.next]
    IN  /\ r.kind = "upload" /\ r.next \in DOMAIN r.inputs
        /\ IF x \in DOMAIN file /\ Reachable
           THEN GoesOn(r, [sent |-> Put(r.sent, r.inputs[r.next].key, file[x]), next |-> r.next + 1])
           ELSE Over(r)
        /\ UNCHANGED <<db, file, thumb, session, editor, count, failures, comfyVars>>

SubmitPrompt(r) ==
    /\ r.kind = "upload" /\ r.next \notin DOMAIN r.inputs
    /\ IF Reachable
       THEN /\ comfy' = [comfy EXCEPT !.prompts = Append(@, [flow |-> r.flow, images |-> Patched(r.flow, r.sent), state |-> "queued"])]
            /\ IF r.target = Nothing THEN Over(r)
               ELSE GoesOn(r, [kind |-> "wait", prompt |-> Len(comfy.prompts) + 1])
       ELSE Over(r) /\ UNCHANGED comfy
    /\ UNCHANGED <<db, file, thumb, session, editor, count, failures, settings, generated>>

\* The history has the pictures of each node; none of a prompt that failed or is forgotten.
Listed(p, node) ==
    IF Reachable /\ comfy.prompts[p].state = "done" THEN {<<p, node, j>> : j \in 1..Workflow[comfy.prompts[p].flow].pictures} ELSE {}

\* Polling goes on until the history has exactly one picture of the node.
OutputFound(r) ==
    /\ r.kind = "wait" /\ Cardinality(Listed(r.prompt, r.node)) = 1
    /\ GoesOn(r, [kind |-> "fetch", name |-> CHOOSE q \in Listed(r.prompt, r.node) : TRUE])
    /\ UNCHANGED <<db, file, thumb, session, editor, count, failures, comfyVars>>

\* The job gives up; the result, if there will be one, stays with ComfyUI.
TimedOut(r) == /\ r.kind = "wait" /\ Over(r)
               /\ UNCHANGED <<db, file, thumb, session, editor, count, failures, comfyVars>>

\* From ComfyUI itself, or from its folder if that is known; not what a preview node made.
Readable(q, dir) == q \in DOMAIN comfy.output /\ (Reachable \/ dir)

\* An upscaled face: the file is written, then the version is added (CurrentRead, Inserted).
FetchForFace(r) ==
    /\ r.kind = "fetch" /\ r.target[1] = "face"
    /\ IF Readable(r.name, r.dir)
       THEN GoesOn(r, [kind |-> "write", by |-> "upscale", of |-> r.target, parent |-> Nothing, row |-> Nothing, was |-> Nothing,
                        pic |-> comfy.output[r.name],
                        path |-> Path(DirOf(db, r.target), "edits", r.n, "png")])
       ELSE Over(r)
    /\ UNCHANGED <<db, file, thumb, session, editor, count, failures, comfyVars>>

EditPath(a, n) == Path(DirOf(db, <<"instance", Min(LiveOf(db, a))>>), "edits", n, "png")

\* A photo: the file is written to the folder of the photo it was made from.
FetchForPhoto(r) ==
    LET a == r.target[2]
    IN  /\ r.kind = "fetch" /\ r.target[1] = "instance"
        /\ IF LiveOf(db, a) # {} /\ Readable(r.name, r.dir)
           THEN /\ file' = Put(file, EditPath(a, r.n), comfy.output[r.name])
                /\ GoesOn(r, [kind |-> "check", pic |-> comfy.output[r.name], path |-> EditPath(a, r.n)])
           ELSE Over(r) /\ UNCHANGED file
        /\ UNCHANGED <<db, thumb, session, editor, count, failures, comfyVars>>

Hashes == {db.photo[a].hash : a \in Asset} \cup {g.pic : g \in generated}
Without(x) == [z \in DOMAIN file \ {x} |-> file[z]]

\* A photo that is there already is not imported again: the job ends, its file goes.
Checked(r) ==
    /\ r.kind = "check"
    /\ IF r.pic \in Hashes THEN Over(r) /\ file' = Without(r.path)
       ELSE GoesOn(r, [kind |-> "add"]) /\ UNCHANGED file
    /\ UNCHANGED <<db, thumb, session, editor, count, failures, comfyVars>>

NewPhoto(a, pic, path, auto) ==
    /\ generated' = generated \cup {[original |-> a, pic |-> pic, path |-> path, auto |-> auto]}
    /\ db' = [db EXCEPT !.ledger = @ \cup {pic}]

\* One that has come meanwhile makes the flush fail, and the file stays.
Added(r) ==
    /\ r.kind = "add"
    /\ IF r.pic \in Hashes THEN Over(r) /\ UNCHANGED <<db, generated>>
       ELSE NewPhoto(r.target[2], r.pic, r.path, TRUE) /\ GoesOn(r, [kind |-> "clean"])
    /\ UNCHANGED <<file, thumb, session, editor, count, failures, settings, comfy>>

\* Only then does the result go from ComfyUI's folder.  A face gets its thumbnails, a photo
\* goes through the pipeline.
Cleaned(r) ==
    /\ r.kind = "clean"
    /\ comfy' = IF r.dir THEN [comfy EXCEPT !.output = [q \in DOMAIN @ \ {r.name} |-> @[q]]] ELSE comfy
    /\ IF r.target[1] = "face" THEN GoesOn(r, [kind |-> "thumb"]) ELSE Over(r)
    /\ UNCHANGED <<db, file, thumb, session, editor, count, failures, settings, generated>>

\* The results the dialog lists: those of the history, and those in the folder if it is known.
Offered == UNION {Listed(p, node) : p \in DOMAIN comfy.prompts, node \in UNION {NodesOf(k, Saves) : k \in DOMAIN Workflow}}
           \cup (IF settings.dir THEN DOMAIN comfy.output ELSE {})

\* import_comfyui_result: a result the user picks, for the photo the user is looking at.
\* Nothing is awaited, so no other request comes between.
ImportResult(a, q) ==
    /\ count < MaxRequests /\ count' = count + 1
    /\ LiveOf(db, a) # {} /\ Readable(q, settings.dir)
    /\ comfy.output[q] \notin Hashes
    /\ NewPhoto(a, comfy.output[q], EditPath(a, NewName), FALSE)
    /\ file' = Put(file, EditPath(a, NewName), comfy.output[q])
    /\ UNCHANGED <<thumb, session, editor, reqs, failures, settings, comfy>>

(***************************************************************************)
(* ComfyUI.                                                                 *)
(***************************************************************************)
\* What the workflow makes of its pictures: their pixels and a mark of its own.
Result(images, node, j) ==
    FlattenSeq([i \in DOMAIN SetToSortSeq(DOMAIN images, <) |-> images[SetToSortSeq(DOMAIN images, <)[i]]]) \o <<<<-node, -j>>>>

\* A prompt is run; what its save nodes make goes to the output folder.
Rendering(p) ==
    LET k == comfy.prompts[p].flow
        made == {p} \X NodesOf(k, {"SaveImage"}) \X (1..Workflow[k].pictures)
    IN  /\ comfy.up /\ comfy.prompts[p].state = "queued"
        /\ comfy' = [comfy EXCEPT !.prompts[p].state = "done",
                                  !.output = With([q \in made |-> Result(comfy.prompts[p].images, q[2], q[3])], @)]
        /\ UNCHANGED <<vars, settings, generated>>

\* It stops, and forgets its queue and its history.
ComfyStops ==
    /\ settings.enabled /\ comfy.up /\ failures < MaxFailures /\ failures' = failures + 1
    /\ comfy' = [comfy EXCEPT !.up = FALSE, !.prompts = [p \in DOMAIN @ |-> [@[p] EXCEPT !.state = "gone"]]]
    /\ UNCHANGED <<db, file, thumb, session, editor, reqs, count, settings, generated>>
ComfyStarts == ~comfy.up /\ comfy' = [comfy EXCEPT !.up = TRUE] /\ UNCHANGED <<vars, settings, generated>>

(***************************************************************************)
(* All together.                                                            *)
(***************************************************************************)
\* Photos made by ComfyUI are instances, and follow a renamed folder.
Renaming == \E dir \in {db.inst[i].path.dir : i \in Inst} :
    /\ RenameFolder(dir, "renamed")
    /\ generated' = {[g EXCEPT !.path = Moved(@, dir, "renamed")] : g \in generated}
    /\ UNCHANGED <<settings, comfy>>

Init == \E w \in Worlds : /\ InitIn(w) /\ settings = w.settings
                          /\ comfy = [up |-> TRUE, prompts |-> <<>>, output |-> <<>>] /\ generated = {}

ComfyRequests ==
    \/ \E run \in Runs : IF run.targets = <<>> THEN RunWorkflow(run) ELSE RunDefaultWorkflow(run)
    \/ \E s \in AllSettings : PutSettings(s)
    \/ \E a \in Asset : \E q \in Offered : ImportResult(a, q)

ComfySteps == \E r \in reqs :
    \/ RunStarts(r) \/ Upload(r) \/ SubmitPrompt(r) \/ OutputFound(r) \/ TimedOut(r)
    \/ FetchForFace(r) \/ FetchForPhoto(r) \/ Checked(r) \/ Added(r) \/ Cleaned(r)

Next ==
    /\ \/ (Requests \/ Steps \/ Crash) /\ UNCHANGED comfyVars
       \/ Renaming
       \/ ComfyRequests \/ ComfySteps
       \/ \E p \in DOMAIN comfy.prompts : Rendering(p)
       \/ ComfyStops \/ ComfyStarts
    /\ LoopKept

Spec == Init /\ [][Next]_<<vars, comfyVars>>

(***************************************************************************)
(* Properties.                                                              *)
(***************************************************************************)
PixelsOf(p) == UNION {ToSet(p[y]) : y \in DOMAIN p}

\* The picture was made from the photo or the face.
MadeFrom(pic, t) == (IF t[1] = "instance" THEN PixelsOf(db.photo[t[2]].hash) ELSE Spot[t[2]]) \subseteq PixelsOf(pic)

\* What a default run makes ends up with the photo or the face it was made from, however many
\* there are in the batch, and a result goes from ComfyUI's folder only when the library has
\* it: one whose import fails, times out or is cut short can still be imported by hand.
ResultsLand ==
    [][/\ \A g \in generated' : g.auto => MadeFrom(g.pic, <<"instance", g.original>>)
       /\ \A r \in reqs : r.kind = "insert" /\ r.by = "upscale" /\ db' # db => MadeFrom(r.pic, r.of)
       /\ \A q \in DOMAIN comfy.output \ DOMAIN comfy'.output :
             \/ \E g \in generated : g.pic = comfy.output[q]
             \/ \E r \in reqs : /\ Cleaned(r) /\ r.name = q /\ r.target[1] = "face" /\ r.pic = comfy.output[q]
                                /\ r.row \in DOMAIN db.version /\ db.version[r.row].of = r.target]_<<vars, comfyVars>>
=============================================================================
