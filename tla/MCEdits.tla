------------------------------ MODULE MCEdits ------------------------------
(* An instance of Comfy and Edits for TLC: a photo of two persons, another  *)
(* photo that is its picture turned, a version, two edit sessions; or no    *)
(* editor open and ComfyUI at hand.                                         *)
EXTENDS Comfy, TLC

CONSTANTS beach, pier, k1, k2

Photo1 == <<<<1, 2>>, <<3, 4>>, <<5, 6>>>>
OnAsset == <<beach, beach, pier>>
OnFace  == <<beach>>
Pixels  == <<{1, 2}>>
Other   == <<<<7, 8>>>>

PathOf == << [dir |-> "anna", sub |-> "photos", name |-> <<1>>, ext |-> "jpeg"],
             [dir |-> "ben",  sub |-> "photos", name |-> <<1>>, ext |-> "jpeg"],
             [dir |-> "ben",  sub |-> "photos", name |-> <<2>>, ext |-> "jpeg"] >>
CropAt == [dir |-> "anna", sub |-> "faces", name |-> <<1>>, ext |-> "jpeg"]
EditAt == [dir |-> "anna", sub |-> "edits", name |-> <<0, 0>>, ext |-> "jpeg"]

Steps1(p, ops) == [j \in DOMAIN ops |-> [op |-> ops[j], shows |-> Render(p, SubSeq(ops, 1, j))]]

Defaults(upscale) == [upscale |-> upscale, inpaint |-> "fill"]
Off    == [enabled |-> FALSE, dir |-> TRUE, defaults |-> Defaults("up")]
On     == [Off EXCEPT !.enabled = TRUE]
Others == {[On EXCEPT !.dir = FALSE], [On EXCEPT !.defaults = Defaults("two")]}

Node(class, title, mask) == [class |-> class, title |-> title, mask |-> mask]
Flow(pictures, nodes) == [api |-> TRUE, pictures |-> pictures, nodes |-> nodes]
Flows ==
    [up   |-> Flow(1, <<Node("LoadImage", "Photo", 0), Node("SaveImage", "Photofant Output", 0), Node("PreviewImage", "", 0)>>),
     fill |-> Flow(1, <<Node("LoadImage", "", 0), Node("InpaintModelConditioning", "", 1), Node("SaveImage", "", 0)>>),
     pair |-> Flow(2, <<Node("LoadImage", "Photo", 0), Node("LoadImage", "Reference", 0), Node("SaveImage", "", 0)>>),
     two  |-> Flow(1, <<Node("LoadImage", "Photo", 0), Node("SaveImage", "", 0), Node("SaveImage", "", 0)>>)]

Of(key, of, ids) == [key |-> key, of |-> of, ids |-> ids, batch |-> FALSE]
List(key, of, ids) == [Of(key, of, ids) EXCEPT !.batch = TRUE]
Asked(task, inputs, mask, targets) == [task |-> task, inputs |-> inputs, mask |-> mask, targets |-> targets]
SomeRuns ==
    {Asked("upscale", <<List("Photo", "instance", <<beach, pier>>)>>, Nothing, <<<<"instance", beach>>, <<"instance", pier>>>>),
     Asked("upscale", <<List("Photo", "face", <<1>>)>>, Nothing, <<<<"face", 1>>>>),
     Asked("inpaint", <<Of("LoadImage", "instance", <<beach>>)>>, beach, <<<<"instance", beach>>>>),
     Asked("pair", <<List("Photo", "instance", <<pier>>), Of("Reference", "face", <<1>>)>>, Nothing, <<>>)}

World(other, ops1, ops2) ==
    LET files == (PathOf[1] :> Photo1) @@ (PathOf[2] :> Photo1) @@ (PathOf[3] :> other)
                @@ (CropAt :> <<<<1, 2>>>>) @@ (EditAt :> Applied(Photo1, "crop"))
        rows == [photo   |-> (beach :> [hash |-> Photo1, size |-> Size(Photo1)]) @@ (pier :> [hash |-> other, size |-> Size(other)]),
               inst    |-> [i \in Inst |-> [path |-> PathOf[i], live |-> TRUE]],
               box     |-> <<<<0, 0, 2, 1>>>>,
               crop    |-> <<CropAt>>,
               version |-> <<[of |-> <<"instance", 1>>, parent |-> Nothing, path |-> EditAt, current |-> TRUE,
                              shows |-> Applied(Photo1, "crop")]>>,
               ledger  |-> {Photo1, other},
               derived |-> {}]
        S(t, ops) == [target |-> t, source |-> Source(rows, t), steps |-> Steps1(files[Source(rows, t)], ops)]
        open == (k1 :> S(<<"instance", beach>>, ops1)) @@ (k2 :> S(<<"version", 1>>, ops2))
        E(k) == LET s == open[k]
                IN  [seq |-> Len(s.steps), shows |-> IF s.steps = <<>> THEN Nothing ELSE s.steps[Len(s.steps)].shows,
                     basis |-> files[s.source], smooth |-> TRUE]
    IN  [db |-> rows, file |-> files, session |-> open, editor |-> [k \in {k1, k2} |-> E(k)], settings |-> Off]

\* With ComfyUI at hand, and no editor.
Generating(w) == [w EXCEPT !.session = <<>>, !.editor = <<>>, !.settings = On]

\* The second instance of the first photo is in the trash.
Trashed(w) ==
    LET x == PathOf[2]
        y == [x EXCEPT !.sub = "trash"]
    IN  [w EXCEPT !.db.inst[2] = [path |-> y, live |-> FALSE],
                  !.file = (y :> @[x]) @@ [z \in DOMAIN @ \ {x} |-> @[z]]]

SomeWorlds ==
    {World(Other, ops1, ops2) : ops1 \in {<<"cw">>, <<"crop", "cw", "png">>}, ops2 \in {<<"h">>, <<"png">>}}
    \cup {World(Applied(Photo1, "cw"), <<"cw">>, <<"crop", "jpeg">>),
           Trashed(World(Other, <<"cw">>, <<"h">>)), Generating(World(Other, <<"cw">>, <<"h">>))}
=============================================================================
