----------------------------- MODULE MCLibrary -----------------------------
(* Instances of Library, Reconcile and Crops for TLC.                       *)
EXTENDS Reconcile, Crops

CONSTANTS beach, wedding, collage, f1, f2, f3

OnPhoto   == (f1 :> beach) @@ (f2 :> beach) @@ (f3 :> wedding)
BestFaces == (beach :> f1) @@ (wedding :> f3) @@ (collage :> f1)

Empty == [db   |-> [name |-> (Unknown :> NoName), assets |-> {}, inst |-> <<>>, face |-> <<>>, hint |-> <<>>],
          disk |-> [file |-> <<>>, crop |-> <<>>, dirs |-> {}], ok |-> TRUE]

\* The steps that lead to the worlds.
WithPerson(s, nm) == LET n == NewId(s.db.name) IN Ensure([s EXCEPT !.db.name = (n :> nm) @@ @], n)
WithPhoto(s, a, p) ==
    LET x == In(Folder(s.db, p), "photos", <<a>>)
    IN  Add(Ensure([s EXCEPT !.disk.file = (x :> a) @@ @], p), a, p, x, FALSE)
WithFace(s, f) == [s EXCEPT !.db.face = (f :> [person |-> Unknown, crop |-> <<"_unknown">>]) @@ @,
                            !.disk.crop = (f :> <<"_unknown">>) @@ @]

Fresh == WithPhoto(WithPerson(WithPerson(Empty, "anna"), NoName), beach, Unknown)
Album == WithFace(WithFace(WithFace(
            WithPhoto(WithPhoto(WithPerson(WithPerson(Empty, "anna"), NoName), beach, Unknown), wedding, Unknown),
            f1), f2), f3)
Sorted == MaterializeAll([Album EXCEPT !.db.face[f1].person = 2, !.db.face[f2].person = 3, !.db.face[f3].person = 3])

SomeWorlds == {Fresh, Album, Sorted}

\* Crops without a photo: in anna's folder and among the unknown. img1 is the name that
\* uploading img twice gives, and what the face job calls a crop of a photo.
Anna == 2
Keep == {Unknown, Anna}
Pic(nm, pic) == [name |-> nm, pic |-> pic]
Uploads  == {<<Pic(<<"img">>, "me"), Pic(<<"7_0">>, "you")>>, <<Pic(<<"found">>, "you")>>}
Detection == Pic(<<"7_0">>, "seen")

NoCrops  == [file |-> <<>>, row |-> <<>>, uses |-> <<>>, walk |-> "off"]
\* A crop with its row and one put into the folder by hand, before the startup's scan.
Placed   == LET x == CropPath(Anna, <<"img">>)  y == CropPath(Anna, <<"found">>)
            IN  [file |-> (x :> "old") @@ (y :> "new"),
                 row  |-> (1 :> [path |-> x, person |-> Anna, pic |-> "old"]),
                 uses |-> ("uploads" :> 1) @@ ("assigns" :> 1) @@ ("deletes" :> 1),
                 walk |-> "start"]
\* Nothing yet: two uploads at a time, or one beside the face job, and the backend may die.
Crowded  == [NoCrops EXCEPT !.uses = ("uploads" :> 2) @@ ("assigns" :> 1) @@ ("deletes" :> 1)]
Dying    == [NoCrops EXCEPT !.uses = ("uploads" :> 1) @@ ("detects" :> 1) @@ ("restarts" :> 1)]
\* An assignment is under way when the backend dies.
Moving   == [Placed EXCEPT !.uses = ("assigns" :> 1) @@ ("restarts" :> 1)]
TwoCalls == {1, 2}
SomeCrops == {NoCrops, Placed, Crowded, Dying, Moving}

InitB ==
    /\ InitR /\ InitC
    /\ uses = <<>> \/ db = Fresh.db

\* Photos and crops without one have nothing in common but the rules of moving files.
NextB ==
    \/ uses = <<>> /\ NextR /\ UNCHANGED cvars
    \/ NextC /\ UNCHANGED rvars

SpecB == InitB /\ [][NextB]_<<rvars, cvars>>

\* Without reconciliation and crops.
InitL == InitB /\ uses = <<>>
SpecL == InitL /\ [][Next /\ UNCHANGED <<seen, report, scans, cvars>>]_<<rvars, cvars>>
=============================================================================
