---------------------------- MODULE MCKnowledge ----------------------------
(* Instances of Knowledge for TLC.                                          *)
EXTENDS Curation

CONSTANTS n1, n2, p1, a1, a2, f1, f2, f3, al

TitleLikeName == {<<n1, p1>>}
Note(owner, filled, links) ==
    [owner |-> owner, attrs |-> [f \in Fields |-> IF f \in filled THEN owner ELSE Unset], rels |-> {},
     links |-> links, text |-> FALSE]
Files(x, y) == n1 :> x @@ n2 :> y

Make(note, by, arg, text) == [op |-> "create", what |-> "links", note |-> note, by |-> by, arg |-> arg, text |-> text, job |-> FALSE]
Put(what, note, by, arg, text, job) == [op |-> "put", what |-> what, note |-> note, by |-> by, arg |-> arg, text |-> text, job |-> job]
Change(op, what, note, by, arg) == [op |-> op, what |-> what, note |-> note, by |-> by, arg |-> arg, text |-> FALSE, job |-> FALSE]

Uses(calls, syncs, edits, crashes, persons, faces, computes, closes) ==
    [calls |-> calls, syncs |-> syncs, edits |-> edits, crashes |-> crashes, persons |-> persons,
     faces |-> faces, computes |-> computes, closes |-> closes,
     albums |-> 0, tags |-> 0, captions |-> 0, lanes |-> 0, trash |-> 0, scans |-> 0, resolves |-> 0]

Texts == {Put("text", n1, by, {}, TRUE, j) : by \in {User, Inferred}, j \in BOOLEAN}
Discovery == {Change("facts", what, n1, Web, fs) : what \in {"none", "source", "text"}, fs \in {{}, {f1}}}
               \ {Change("facts", "none", n1, Web, {})}
Relations == {Change(op, "rels", n1, User, {n2}) : op \in {"add", "drop"}}
               \cup {Change("suggest", "rels", n1, Web, {n2}), Put("rels", n1, User, {n2}, FALSE, FALSE), Put("rels", n1, User, {n2}, FALSE, TRUE)}
Links == {Change(op, "links", n, User, {t}) : op \in {"add", "drop"}, n \in Notes, t \in {p1, a1}}
               \cup {Put("links", n1, User, {a1}, FALSE, j) : j \in BOOLEAN}
LinkJob == {Put("links", n1, Inferred, {a1}, FALSE, TRUE)}
Ends == {Change("delete", "links", n1, User, {})}
Makes == {Make(n1, by, links, text) : by \in {User, Inferred}, links \in {{}, {p1}}, text \in BOOLEAN}

World(notes, shown, inPrivate, calls, uses) ==
    [file |-> notes, people |-> {p1}, shows |-> [a \in Photos |-> shown], private |-> inPrivate, calls |-> calls, left |-> uses]

Found(filled) == Files(Note(Inferred, filled, {}), None)
Linked == Files(Note(Manual, {}, {p1}), Note(User, {f1}, {p1}))

RelationWorld == {World(Linked, {p1}, {}, Relations, Uses(2, 0, 0, 0, 0, 0, 2, 0))}

\* Worlds of albums and duplicates: nothing is called but what changes the persons of photos.
Curates(uses) ==
    World(Files(None, None), {p1}, {}, {}, [u \in DOMAIN Uses(0, 0, 0, 0, 0, 0, 0, 0) |->
        IF u \in DOMAIN uses THEN uses[u] ELSE 0])

Tag1(kind, negate) == [type |-> "tag", arg |-> "sea", negate |-> negate]
Said(negate)   == [type |-> "caption", arg |-> "sunset", negate |-> negate]
Seen1(negate)  == [type |-> "person", arg |-> p1, negate |-> negate]
Shelf(kind, mode, triggers, put, sea) ==
    [album |-> [x \in Albums |-> [kind |-> kind, mode |-> mode, triggers |-> triggers]], put |-> put,
     tag |-> [x \in Photos |-> [t \in Tags |-> IF t = "sea" THEN sea ELSE "no"]],
     caption |-> [x \in Photos |-> [text |-> "", edited |-> FALSE]]]

SomeShelves ==
    { Shelf("smart", "all", {Tag1("sea", FALSE), Seen1(TRUE)}, {}, "manual"),
      Shelf("smart", "any", {Tag1("sea", FALSE), Said(TRUE)}, {}, "auto"),
      Shelf("smart", "any", {Said(FALSE), Seen1(FALSE)}, Albums \X {a1}, "rejected"),
      Shelf("plain", "any", {Seen1(FALSE)}, Albums \X {a1}, "no") }

SomeWorlds == RelationWorld \cup
    { Curates([albums |-> 3]), Curates([albums |-> 1, tags |-> 1, lanes |-> 1]), Curates([captions |-> 1, lanes |-> 2]),
      Curates([tags |-> 2, crashes |-> 1]), Curates([persons |-> 1, faces |-> 1, albums |-> 1]),
      Curates([scans |-> 4, resolves |-> 1, trash |-> 1]), Curates([scans |-> 3, resolves |-> 2, crashes |-> 1]),
      \* calls that overlap, are cut off, are synced
      World(Found({f1}), {}, {}, Texts \cup LinkJob \cup {Change("facts", "source", n1, Web, {f1})} \cup Ends, Uses(2, 1, 1, 1, 0, 0, 0, 0)),
      \* several calls of one page
      World(Found({}), {}, {}, Discovery \cup {Put("text", n1, User, {}, TRUE, FALSE)}, Uses(3, 0, 0, 0, 0, 0, 0, 1)),
      \* notes and persons that come and go
      World(Files(None, None), {}, {n1}, Makes \cup Ends, Uses(2, 0, 0, 0, 1, 0, 0, 1)),
      World(Files(Note(Manual, {}, {p1}), None), {p1}, {n1}, {Change("drop", "links", n1, User, {p1})} \cup Ends, Uses(2, 0, 0, 0, 2, 0, 1, 0)),
      \* recommendations
      World(Linked, {p1}, {}, Links \cup Ends, Uses(1, 1, 0, 0, 0, 1, 2, 0)),
      World(Linked, {p1}, {}, Links, Uses(1, 0, 0, 0, 1, 0, 2, 0)) }
=============================================================================
