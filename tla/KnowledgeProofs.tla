-------------------------- MODULE KnowledgeProofs --------------------------
(***************************************************************************)
(* Proofs about Knowledge, in the system that Curation makes of it: that the *)
(* cache follows the files, that what the user has written stays, and that   *)
(* stored recommendations and open tasks tell the truth; and about Curation: *)
(* that the user's choices stay and smart albums follow their triggers.      *)
(***************************************************************************)
EXTENDS Curation, TLAPS, FiniteSetTheorems

(***************************************************************************)
(* Types                                                                    *)
(***************************************************************************)
Rows == [here : BOOLEAN, owner : Owners, attrs : [Fields -> Owners], rels : SUBSET Things, links : SUBSET Things]
MaybeNote == NoteSet \cup {None}
UnderWay == [phase : {"read", "saved"}, c : CallSet, read : MaybeNote, loaded : Rows, new : MaybeNote,
             after : SUBSET Callers]
Syncs == [mode : {"rebuild", "reconcile"}, files : [Notes -> MaybeNote], loaded : [Notes -> Rows],
          todo : SUBSET Notes]
Openings == [note : Notes, content : MaybeNote, looked : BOOLEAN, loaded : Rows]

\* A call that is under way is typed in full; the record of one that is not has its phase only.
KType ==
    /\ file \in [Notes -> MaybeNote]
    /\ row \in [Notes -> Rows]
    /\ call \in [Callers -> UnderWay \cup {NoCall}]
    /\ sync = None \/ sync \in Syncs
    /\ opening = None \/ opening \in Openings
    /\ mayCall \subseteq CallSet

\* What a note gets for its row has the type of a row.
LEMMA RowTyped == ASSUME NEW note \in MaybeNote PROVE RowOf(note) \in Rows
BY DEF MaybeNote, NoteSet, RowOf, NoRow, Blank, Rows, Owners, Unset, User

\* A record of a note's fields is a note.
LEMMA NoteMade ==
    ASSUME NEW o \in Owners, NEW as \in [Fields -> Owners], NEW rs \in SUBSET Things, NEW ls \in SUBSET Things,
           NEW t \in BOOLEAN
    PROVE  [owner |-> o, attrs |-> as, rels |-> rs, links |-> ls, text |-> t] \in NoteSet
BY DEF NoteSet

\* A note is the record of its fields.
LEMMA NoteFields ==
    ASSUME NEW note \in NoteSet
    PROVE  /\ note = [owner |-> note.owner, attrs |-> note.attrs, rels |-> note.rels, links |-> note.links,
                      text |-> note.text]
           /\ note.owner \in Owners /\ note.attrs \in [Fields -> Owners]
           /\ note.rels \in SUBSET Things /\ note.links \in SUBSET Things /\ note.text \in BOOLEAN
BY DEF NoteSet

\* What a call makes of a note's set of relationships or links.
LEMMA NewSetTyped ==
    ASSUME NEW c \in CallSet, NEW old \in SUBSET Things
    PROVE  NewSet(c, old) \in SUBSET Things
<1>1. c.arg \in SUBSET Things BY DEF CallSet
<1>2. NewSet(c, old) \in {c.arg, old \cup c.arg, old \ c.arg}
  <2>1. CASE c.op = "put" BY <2>1 DEF NewSet
  <2>2. CASE c.op \in {"add", "suggest"} BY <2>2 DEF NewSet
  <2>3. CASE c.op \notin {"put", "add", "suggest"} BY <2>3 DEF NewSet
  <2>. QED BY <2>1, <2>2, <2>3
<1>. QED BY <1>1, <1>2

\* What discovery makes of a note's text and owner.
LEMMA UpdatedTyped ==
    ASSUME NEW c \in CallSet, NEW note \in NoteSet
    PROVE  /\ Updated(c, note) \in NoteSet
           /\ Updated(c, note).attrs = note.attrs
           /\ Updated(c, note).rels = note.rels /\ Updated(c, note).links = note.links
           /\ note.owner = User => Updated(c, note) = note
<1>1. CASE ~(c.what \in {"text", "source"} /\ CanOverwrite(Web, note.owner))
  BY <1>1 DEF Updated
<1>2. CASE c.what \in {"text", "source"} /\ CanOverwrite(Web, note.owner)
  <2>1. PICK t \in BOOLEAN : t = (note.text \/ c.what = "text") OBVIOUS
  <2>2. Updated(c, note) = [note EXCEPT !.owner = Web, !.text = t] BY <1>2, <2>1 DEF Updated
  <2>3. Updated(c, note) = [owner |-> Web, attrs |-> note.attrs, rels |-> note.rels, links |-> note.links, text |-> t]
    BY <2>2, NoteFields
  <2>4. Web \in Owners BY DEF Web, Owners, Unset, User
  <2>5. Updated(c, note) \in NoteSet BY <2>3, <2>4, NoteFields, NoteMade
  <2>6. note.owner # User BY <1>2 DEF CanOverwrite, Web, User
  <2>. QED BY <2>3, <2>5, <2>6
<1>. QED BY <1>1, <1>2

\* What discovery makes of a note's fields: those of the user's stay.
LEMMA FactsTyped ==
    ASSUME NEW c \in CallSet, NEW note \in NoteSet
    PROVE  /\ WithFacts(c, note) \in NoteSet
           /\ WithFacts(c, note) = [note EXCEPT !.attrs = WithFacts(c, note).attrs]
           /\ \A f \in Fields : note.attrs[f] = User => WithFacts(c, note).attrs[f] = User
<1> DEFINE new == [f \in Fields |-> IF f \in c.arg /\ CanOverwrite(Web, note.attrs[f]) THEN Web ELSE note.attrs[f]]
<1>1. WithFacts(c, note) = [note EXCEPT !.attrs = new] BY DEF WithFacts
<1>2. WithFacts(c, note) = [owner |-> note.owner, attrs |-> new, rels |-> note.rels, links |-> note.links, text |-> note.text]
  BY <1>1, NoteFields
<1>3. Web \in Owners BY DEF Web, Owners, Unset, User
<1>4. new \in [Fields -> Owners] BY <1>3, NoteFields
<1>5. \A f \in Fields : note.attrs[f] = User => new[f] = User BY DEF CanOverwrite, Web, User
<1> HIDE DEF new
<1>6. WithFacts(c, note) \in NoteSet BY <1>2, <1>4, NoteFields, NoteMade
<1>. QED BY <1>1, <1>2, <1>5, <1>6

\* What a call that rewrites text, relationships or links leaves.
LEMMA RewrittenTyped ==
    ASSUME NEW c \in CallSet, NEW note \in NoteSet
    PROVE  /\ Rewritten(c, note) \in NoteSet
           /\ Rewritten(c, note).owner = c.by /\ Rewritten(c, note).attrs = note.attrs
           /\ Rewritten(c, note).rels = IF c.what = "rels" THEN NewSet(c, note.rels) ELSE note.rels
           /\ Rewritten(c, note).links =
                  IF c.what \in {"text", "rels"} THEN note.links ELSE NewSet(c, note.links)
<1>a. c.by \in Owners /\ c.text \in BOOLEAN BY DEF CallSet, Owners, Unset, User, Inferred
<1>b. NewSet(c, note.rels) \in SUBSET Things /\ NewSet(c, note.links) \in SUBSET Things
  BY NewSetTyped, NoteFields
<1>1. CASE c.what = "text"
  <2>0. Rewritten(c, note) = [note EXCEPT !.owner = c.by, !.text = c.text] BY <1>1, Zenon DEF Rewritten
  <2>1. Rewritten(c, note) = [owner |-> c.by, attrs |-> note.attrs, rels |-> note.rels, links |-> note.links, text |-> c.text]
    BY <2>0, NoteFields
  <2>2. Rewritten(c, note) \in NoteSet BY <2>1, <1>a, NoteFields, NoteMade
  <2>. QED BY <2>1, <2>2, <1>1
<1>2. CASE c.what = "rels"
  <2>0. Rewritten(c, note) = [note EXCEPT !.owner = c.by, !.rels = NewSet(c, note.rels)]
    BY <1>2, Zenon DEF Rewritten
  <2>1. Rewritten(c, note) = [owner |-> c.by, attrs |-> note.attrs, rels |-> NewSet(c, note.rels), links |-> note.links, text |-> note.text]
    BY <2>0, NoteFields
  <2>2. Rewritten(c, note) \in NoteSet BY <2>1, <1>a, <1>b, NoteFields, NoteMade
  <2>. QED BY <2>1, <2>2, <1>2
<1>3. CASE c.what \notin {"text", "rels"}
  <2>0. Rewritten(c, note) = [note EXCEPT !.owner = c.by, !.links = NewSet(c, note.links)]
    BY <1>3, Zenon DEF Rewritten
  <2>1. Rewritten(c, note) = [owner |-> c.by, attrs |-> note.attrs, rels |-> note.rels, links |-> NewSet(c, note.links), text |-> note.text]
    BY <2>0, NoteFields
  <2>2. Rewritten(c, note) \in NoteSet BY <2>1, <1>a, <1>b, NoteFields, NoteMade
  <2>. QED BY <2>1, <2>2, <1>3
<1>. QED BY <1>1, <1>2, <1>3

\* The cases of a call, one by one.
LEMMA ContentCases ==
    ASSUME NEW c \in CallSet, NEW note
    PROVE  /\ c.op = "create" =>
                Content(c, note) = [owner |-> c.by, attrs |-> Blank, rels |-> {}, links |-> c.arg, text |-> c.text]
           /\ c.op = "delete" => Content(c, note) = None
           /\ c.op = "facts" => Content(c, note) = WithFacts(c, Updated(c, note))
           /\ c.op \notin {"create", "delete", "facts"} => Content(c, note) = Rewritten(c, note)
<1>1. ASSUME c.op = "create"
      PROVE  Content(c, note) = [owner |-> c.by, attrs |-> Blank, rels |-> {}, links |-> c.arg, text |-> c.text]
  BY <1>1, Zenon DEF Content
<1>2. ASSUME c.op = "delete" PROVE Content(c, note) = None BY <1>2, Zenon DEF Content
<1>3. ASSUME c.op = "facts" PROVE Content(c, note) = WithFacts(c, Updated(c, note)) BY <1>3, Zenon DEF Content
<1>4. ASSUME c.op \notin {"create", "delete", "facts"} PROVE Content(c, note) = Rewritten(c, note)
  BY <1>4, Zenon DEF Content
<1>. QED BY <1>1, <1>2, <1>3, <1>4, Zenon

\* A call leaves a note, or None for the note it deletes.
LEMMA ContentTyped ==
    ASSUME NEW c \in CallSet, NEW note \in MaybeNote, c.op = "create" \/ note # None
    PROVE  /\ Content(c, note) \in MaybeNote
           /\ Content(c, note) = None <=> c.op = "delete"
<1>0. None \notin NoteSet BY NoteAssumption DEF NoteAssumption
<1>a. c.by \in Owners /\ c.arg \in SUBSET Things /\ c.text \in BOOLEAN
  BY DEF CallSet, Owners, Unset, User, Inferred
<1>1. CASE c.op = "create"
  <2>1. Content(c, note) = [owner |-> c.by, attrs |-> Blank, rels |-> {}, links |-> c.arg, text |-> c.text]
    BY <1>1, ContentCases
  <2>2. Blank \in [Fields -> Owners] BY DEF Blank, Owners, Unset, User
  <2>3. {} \in SUBSET Things OBVIOUS
  <2>4. Content(c, note) \in NoteSet BY <2>1, <2>2, <2>3, <1>a, NoteMade
  <2>. QED BY <2>4, <1>0, <1>1 DEF MaybeNote
<1>2. CASE c.op = "delete"
  BY <1>2, ContentCases DEF MaybeNote
<1>3. CASE c.op \notin {"create", "delete"}
  <2>1. note \in NoteSet BY <1>3 DEF MaybeNote
  <2>2. CASE c.op = "facts"
    <3>1. Content(c, note) \in NoteSet BY <2>2, <2>1, UpdatedTyped, FactsTyped, ContentCases
    <3>. QED BY <3>1, <1>0, <1>3 DEF MaybeNote
  <2>3. CASE c.op # "facts"
    <3>1. Content(c, note) \in NoteSet BY <2>3, <1>3, <2>1, RewrittenTyped, ContentCases
    <3>. QED BY <3>1, <1>0, <1>3 DEF MaybeNote
  <2>. QED BY <2>2, <2>3
<1>. QED BY <1>1, <1>2, <1>3

\* What a call stores over the row it has loaded, or over the row of what it has written, which a
\* sync has put there before it, is the row of what it has written.
LEMMA StoredIsNew ==
    ASSUME NEW read \in MaybeNote, NEW new \in NoteSet, NEW now \in {RowOf(read), RowOf(new)}
    PROVE  Stored(RowOf(read), new, now) = RowOf(new)
<1>0. None \notin NoteSet BY NoteAssumption DEF NoteAssumption
<1>1. RowOf(new) = [here |-> TRUE, owner |-> new.owner, attrs |-> new.attrs, rels |-> new.rels, links |-> new.links]
  BY <1>0 DEF RowOf
<1>2. CASE read = None
  <2>1. RowOf(read).here = FALSE BY <1>2 DEF RowOf, NoRow
  <2>2. Stored(RowOf(read), new, now) =
          [here |-> TRUE, owner |-> new.owner, attrs |-> new.attrs, rels |-> new.rels, links |-> new.links]
    BY <2>1 DEF Stored
  <2>. QED BY <2>2, <1>1
<1>3. CASE read # None
  <2>1. RowOf(read) = [here |-> TRUE, owner |-> read.owner, attrs |-> read.attrs, rels |-> read.rels, links |-> read.links]
    BY <1>3 DEF RowOf
  <2>2. now.here = TRUE BY <2>1, <1>1
  <2>3. new.owner = RowOf(read).owner => now.owner = new.owner BY <2>1, <1>1
  <2>4. new.attrs = RowOf(read).attrs => now.attrs = new.attrs BY <2>1, <1>1
  <2>5. Stored(RowOf(read), new, now) =
          [here |-> TRUE, owner |-> new.owner, attrs |-> new.attrs, rels |-> new.rels, links |-> new.links]
    BY <2>2, <2>3, <2>4, <2>1 DEF Stored
  <2>. QED BY <2>5, <1>1
<1>. QED BY <1>2, <1>3

\* What is stored has the type of a row whatever there was.
LEMMA StoredTyped ==
    ASSUME NEW loaded \in Rows, NEW new \in NoteSet, NEW now \in Rows
    PROVE  Stored(loaded, new, now) \in Rows
BY DEF Stored, Rows, NoteSet

(***************************************************************************)
(* The cache and the calls under way                                        *)
(***************************************************************************)
SavedOn(n) == {id \in Busy(n) : call[id].phase = "saved"}

\* A note that is not raced has one call at a time.
Alone == \A n \in Notes \ raced : \A i, j \in Busy(n) : i = j

\* Its row is that of its file until a call has written the file, during a sync as well.
InStep ==
    \A n \in Notes \ raced : SavedOn(n) = {} =>
        /\ row[n] = RowOf(file[n])
        /\ sync # None /\ n \notin sync.todo => sync.files[n] = file[n]

\* What a sync has loaded of its row is what is there, as it has the lock.
Loaded == sync # None => \A n \in Notes \ raced : sync.loaded[n] = row[n]

\* What its call has read and loaded is what was there, and what it has written is there now: the row
\* is the one before, or the one after if a sync has come between; what a sync leaves of a note that is
\* deleted meanwhile goes with the deletion.
Behind ==
    \A id \in Callers : call[id].phase # "none" /\ call[id].c.note \notin raced =>
        /\ call[id].loaded = RowOf(call[id].read)
        /\ call[id].phase = "read" => call[id].read = file[call[id].c.note]
        /\ call[id].phase = "saved" =>
              /\ file[call[id].c.note] = call[id].new
              /\ call[id].c.op # "delete" => row[call[id].c.note] \in {RowOf(call[id].read), RowOf(call[id].new)}
              /\ call[id].c.op = "delete" => row[call[id].c.note].links \subseteq RowOf(call[id].read).links
              /\ sync # None /\ call[id].c.note \notin sync.todo =>
                    sync.files[call[id].c.note] \in {call[id].read, call[id].new}

\* What a call writes is what it makes of what it has read, as its owner may.
Made ==
    \A id \in Callers : call[id].phase # "none" =>
        /\ call[id].c.op = "create" => call[id].read = None
        /\ call[id].c.op # "create" =>
              /\ call[id].read # None
              /\ call[id].new = Content(call[id].c, call[id].read)
              /\ Allowed(call[id].c, call[id].read)
        /\ call[id].new = None <=> call[id].c.op = "delete"

KInv == KType /\ Alone /\ InStep /\ Loaded /\ Behind /\ Made

\* The records of calls that are under way and of those that are not.
LEMMA Typed ==
    ASSUME KType, NEW id \in Callers
    PROVE  /\ call[id].phase # "none" => call[id] \in UnderWay
           /\ call[id].phase = "none" => call[id] = NoCall
BY DEF KType, UnderWay, NoCall

\* A call that reads a note nobody else has under way finds its row and its file in step.
LEMMA ReadKeeps ==
    ASSUME KInv, NEW id \in Callers, NEW c \in CallSet, Read(id, c), UNCHANGED <<file, row, syncing, mayCall>>
    PROVE  KInv'
<1> DEFINE n == c.note
           k == [phase |-> "read", c |-> c, read |-> IF c.op = "create" THEN None ELSE file[n],
                 loaded |-> row[n], new |-> Content(c, file[n]), after |-> {}]
<1>0. n \in Notes BY DEF CallSet
<1>1. call' = [call EXCEPT ![id] = k] /\ call[id].phase = "none" BY DEF Read, Idle
<1>2. file[n] \in MaybeNote /\ row[n] \in Rows BY <1>0 DEF KInv, KType
<1>3. c.op = "create" \/ file[n] # None BY DEF Read
<1>4. /\ Content(c, file[n]) \in MaybeNote
      /\ Content(c, file[n]) = None <=> c.op = "delete"
  BY <1>2, <1>3, ContentTyped
<1>5. k \in UnderWay
  <2>1. (IF c.op = "create" THEN None ELSE file[n]) \in MaybeNote BY <1>2 DEF MaybeNote
  <2>. QED BY <2>1, <1>2, <1>4 DEF UnderWay
<1>6. k.phase = "read" /\ k.c = c /\ k.loaded = row[n] /\ k.new = Content(c, file[n])
      /\ k.read = IF c.op = "create" THEN None ELSE file[n]
  OBVIOUS
<1>7. raced \subseteq raced' /\ (n \in raced' \/ (Busy(n) = {} /\ raced' = raced))
  <2>1. raced' = IF Busy(n) = {} THEN raced ELSE raced \cup {n} BY DEF Read
  <2>2. CASE Busy(n) = {} BY <2>1, <2>2
  <2>3. CASE Busy(n) # {}
    <3>1. raced' = raced \cup {n} BY <2>1, <2>3
    <3>. QED BY <3>1
  <2>. QED BY <2>2, <2>3
<1>8. c.op = "create" => ~row[n].here BY DEF Read
<1>9. Allowed(c, file[n]) BY DEF Read
<1> HIDE DEF k
<1>10. call'[id] = k /\ (\A o \in Callers : o # id => call'[o] = call[o]) BY <1>1 DEF KInv, KType
<1>11. KType' BY <1>1, <1>5 DEF KInv, KType, syncing
<1>12. Alone'
  <2> SUFFICES ASSUME NEW m \in Notes \ raced', NEW i \in Busy(m)', NEW j \in Busy(m)' PROVE i = j
    BY DEF Alone
  <2>1. i # id => i \in Busy(m) BY <1>10 DEF Busy
  <2>2. j # id => j \in Busy(m) BY <1>10 DEF Busy
  <2>3. id \in Busy(m)' => m = n BY <1>10, <1>6 DEF Busy
  <2>4. m \notin raced BY <1>7
  <2>. QED BY <2>1, <2>2, <2>3, <2>4, <1>7 DEF KInv, Alone
<1>13. InStep'
  <2> SUFFICES ASSUME NEW m \in Notes \ raced', SavedOn(m)' = {}
               PROVE  row[m] = RowOf(file[m]) /\ (sync # None /\ m \notin sync.todo => sync.files[m] = file[m])
    BY DEF InStep, syncing
  <2>1. SavedOn(m) = {} BY <1>10, <1>1 DEF SavedOn, Busy
  <2>. QED BY <2>1, <1>7 DEF KInv, InStep
<1>14. n \notin raced' => k.loaded = RowOf(k.read) /\ k.read = file[n]
  <2> SUFFICES ASSUME n \notin raced' PROVE k.loaded = RowOf(k.read) /\ k.read = file[n]
    OBVIOUS
  <2>1. SavedOn(n) = {} BY <1>7 DEF SavedOn
  <2>2. row[n] = RowOf(file[n]) BY <2>1, <1>7, <1>0 DEF KInv, InStep
  <2>3. c.op = "create" => file[n] = None BY <2>2, <1>8 DEF RowOf
  <2>. QED BY <2>2, <2>3, <1>6
<1>15. Behind'
  <2> SUFFICES ASSUME NEW o \in Callers, call'[o].phase # "none", call'[o].c.note \notin raced'
               PROVE  /\ call'[o].loaded = RowOf(call'[o].read)
                      /\ call'[o].phase = "read" => call'[o].read = file[call'[o].c.note]
                      /\ call'[o].phase = "saved" =>
                            /\ file[call'[o].c.note] = call'[o].new
                            /\ call'[o].c.op # "delete" => row[call'[o].c.note] \in {RowOf(call'[o].read), RowOf(call'[o].new)}
                            /\ call'[o].c.op = "delete" => row[call'[o].c.note].links \subseteq RowOf(call'[o].read).links
                            /\ sync # None /\ call'[o].c.note \notin sync.todo => sync.files[call'[o].c.note] \in {call'[o].read, call'[o].new}
    BY DEF Behind, syncing
  <2>1. CASE o = id BY <2>1, <1>10, <1>6, <1>14
  <2>2. CASE o # id BY <2>2, <1>10, <1>7 DEF KInv, Behind
  <2>. QED BY <2>1, <2>2
<1>16. Made'
  <2> SUFFICES ASSUME NEW o \in Callers, call'[o].phase # "none"
               PROVE  /\ call'[o].c.op = "create" => call'[o].read = None
                      /\ call'[o].c.op # "create" =>
                            /\ call'[o].read # None
                            /\ call'[o].new = Content(call'[o].c, call'[o].read)
                            /\ Allowed(call'[o].c, call'[o].read)
                      /\ call'[o].new = None <=> call'[o].c.op = "delete"
    BY DEF Made
  <2>1. CASE o = id BY <2>1, <1>10, <1>6, <1>3, <1>4, <1>9
  <2>2. CASE o # id BY <2>2, <1>10 DEF KInv, Made
  <2>. QED BY <2>1, <2>2
<1>17. Loaded' BY <1>7 DEF KInv, Loaded, syncing
<1>. QED BY <1>11, <1>12, <1>13, <1>15, <1>16, <1>17 DEF KInv

\* A call that writes its file: the row stays behind.
LEMMA SaveKeeps == ASSUME KInv, NEW id \in Callers, Save(id), UNCHANGED mayCall PROVE KInv'
<1> DEFINE k == call[id]
           n == k.c.note
<1>1. k.phase = "read" /\ file' = [file EXCEPT ![n] = k.new]
      /\ call' = [call EXCEPT ![id].phase = "saved", ![id].after = {o \in Callers : Api(o) /\ call[o].phase = "saved"}]
      /\ UNCHANGED <<row, syncing, raced>>
  BY DEF Save, ghosts
<1>2. k \in UnderWay BY <1>1, Typed DEF KInv
<1>3. n \in Notes /\ k.new \in MaybeNote BY <1>2 DEF UnderWay, CallSet
<1>4. call'[id].phase = "saved" /\ call'[id].c = k.c /\ call'[id].read = k.read /\ call'[id].loaded = k.loaded
      /\ call'[id].new = k.new /\ call'[id] \in UnderWay
  BY <1>1, <1>2 DEF KInv, KType, UnderWay
<1>5. \A o \in Callers : o # id => call'[o] = call[o] BY <1>1 DEF KInv, KType
<1>6. file'[n] = k.new /\ \A m \in Notes : m # n => file'[m] = file[m] BY <1>1, <1>3 DEF KInv, KType
<1>7. \A m \in Notes : Busy(m)' = Busy(m) BY <1>4, <1>5, <1>1 DEF Busy
<1>8. id \in Busy(n) BY <1>1 DEF Busy
<1>9. n \notin raced => \A o \in Callers : o # id /\ call[o].phase # "none" => call[o].c.note # n
  BY <1>8, <1>3 DEF KInv, Alone, Busy
<1>10. KType' BY <1>1, <1>3, <1>4, <1>5 DEF KInv, KType, syncing
<1>11. Alone' BY <1>7, <1>1 DEF KInv, Alone
<1>12. InStep'
  <2> SUFFICES ASSUME NEW m \in Notes \ raced, SavedOn(m)' = {}
               PROVE  row[m] = RowOf(file'[m]) /\ (sync # None /\ m \notin sync.todo => sync.files[m] = file'[m])
    BY <1>1 DEF InStep, syncing
  <2>1. \A o \in Busy(m) : call'[o].phase # "saved" BY <1>7 DEF SavedOn
  <2>2. m # n BY <2>1, <1>8, <1>4
  <2>3. \A o \in Busy(m) : call[o].phase # "saved"
    <3>1. \A o \in Busy(m) : o \in Callers BY DEF Busy
    <3>2. k.phase # "saved" BY <1>1
    <3>. QED BY <3>1, <3>2, <2>1, <1>5
  <2>4. SavedOn(m) = {} BY <2>3 DEF SavedOn
  <2>. QED BY <2>2, <2>4, <1>6 DEF KInv, InStep
<1>13. n \notin raced => /\ k.loaded = RowOf(k.read) /\ k.read = file[n]
                         /\ row[n] = RowOf(file[n]) /\ (sync # None /\ n \notin sync.todo => sync.files[n] = file[n])
  <2> SUFFICES ASSUME n \notin raced
               PROVE  /\ k.loaded = RowOf(k.read) /\ k.read = file[n]
                      /\ row[n] = RowOf(file[n]) /\ (sync # None /\ n \notin sync.todo => sync.files[n] = file[n])
    OBVIOUS
  <2>1. SavedOn(n) = {} BY <1>9, <1>1 DEF SavedOn, Busy
  <2>2. row[n] = RowOf(file[n]) /\ (sync # None /\ n \notin sync.todo => sync.files[n] = file[n]) BY <2>1, <1>3 DEF KInv, InStep
  <2>. QED BY <2>2, <1>1 DEF KInv, Behind
<1>14. Behind'
  <2> SUFFICES ASSUME NEW o \in Callers, call'[o].phase # "none", call'[o].c.note \notin raced
               PROVE  /\ call'[o].loaded = RowOf(call'[o].read)
                      /\ call'[o].phase = "read" => call'[o].read = file'[call'[o].c.note]
                      /\ call'[o].phase = "saved" =>
                            /\ file'[call'[o].c.note] = call'[o].new
                            /\ call'[o].c.op # "delete" => row[call'[o].c.note] \in {RowOf(call'[o].read), RowOf(call'[o].new)}
                            /\ call'[o].c.op = "delete" => row[call'[o].c.note].links \subseteq RowOf(call'[o].read).links
                            /\ sync # None /\ call'[o].c.note \notin sync.todo => sync.files[call'[o].c.note] \in {call'[o].read, call'[o].new}
    BY <1>1 DEF Behind, syncing
  <2>1. CASE o = id BY <2>1, <1>4, <1>6, <1>13
  <2>2. CASE o # id
    <3>1. call'[o] = call[o] /\ call[o].c.note # n BY <2>2, <1>5, <1>9
    <3>2. call[o] \in UnderWay BY <3>1, Typed DEF KInv
    <3>3. call[o].c.note \in Notes BY <3>2 DEF UnderWay, CallSet
    <3>. QED BY <3>1, <3>3, <1>6 DEF KInv, Behind
  <2>. QED BY <2>1, <2>2
<1>15. Made'
  <2> SUFFICES ASSUME NEW o \in Callers, call'[o].phase # "none"
               PROVE  /\ call'[o].c.op = "create" => call'[o].read = None
                      /\ call'[o].c.op # "create" =>
                            /\ call'[o].read # None
                            /\ call'[o].new = Content(call'[o].c, call'[o].read)
                            /\ Allowed(call'[o].c, call'[o].read)
                      /\ call'[o].new = None <=> call'[o].c.op = "delete"
    BY DEF Made
  <2>1. call'[o].c = call[o].c /\ call'[o].read = call[o].read /\ call'[o].new = call[o].new /\ call[o].phase # "none"
    BY <1>4, <1>5, <1>1
  <2>. QED BY <2>1 DEF KInv, Made
<1>16. Loaded' BY <1>1 DEF KInv, Loaded, syncing
<1>. QED BY <1>10, <1>11, <1>12, <1>14, <1>15, <1>16 DEF KInv

\* What a call leaves in the row is that of what it has written, unless calls on the note overlapped.
LEMMA CommitRow ==
    ASSUME KInv, NEW id \in Callers, call[id].phase = "saved", call[id].c.note \notin raced
    PROVE  (IF call[id].c.op = "delete" THEN NoRow
            ELSE Stored(call[id].loaded, call[id].new, row[call[id].c.note])) = RowOf(call[id].new)
<1>1. call[id] \in UnderWay BY Typed DEF KInv
<1>2. call[id].read \in MaybeNote /\ call[id].new \in MaybeNote BY <1>1 DEF UnderWay
<1>3. call[id].new = None <=> call[id].c.op = "delete" BY DEF KInv, Made
<1>4. CASE call[id].c.op = "delete" BY <1>4, <1>3 DEF RowOf
<1>5. CASE call[id].c.op # "delete"
  <2>1. call[id].new \in NoteSet BY <1>5, <1>3, <1>2 DEF MaybeNote
  <2>2. call[id].loaded = RowOf(call[id].read) /\ row[call[id].c.note] \in {RowOf(call[id].read), RowOf(call[id].new)}
    BY <1>5 DEF KInv, Behind
  <2>. QED BY <1>5, <2>1, <2>2, <1>2, StoredIsNew
<1>. QED BY <1>4, <1>5

\* A call that commits brings its row in step.
LEMMA CommitKeeps == ASSUME KInv, NEW id \in Callers, Commit(id), UNCHANGED mayCall PROVE KInv'
<1> DEFINE k == call[id]
           n == k.c.note
           r == IF k.c.op = "delete" THEN NoRow ELSE Stored(k.loaded, k.new, row[n])
<1>1. k.phase = "saved" /\ sync = None /\ row' = [row EXCEPT ![n] = r] /\ call' = [call EXCEPT ![id] = NoCall]
      /\ UNCHANGED <<file, syncing, raced>>
  BY DEF Commit
<1>2. k \in UnderWay BY <1>1, Typed DEF KInv
<1>3. n \in Notes /\ k.new \in MaybeNote /\ k.loaded \in Rows /\ k.read \in MaybeNote BY <1>2 DEF UnderWay, CallSet
<1>4. r \in Rows
  <2>1. CASE k.c.op = "delete"
    BY <2>1 DEF NoRow, Blank, Rows, Owners, Unset, User
  <2>2. CASE k.c.op # "delete"
    <3>1. k.new \in NoteSet BY <2>2, <1>1, <1>3 DEF KInv, Made, MaybeNote
    <3>2. row[n] \in Rows BY <1>3 DEF KInv, KType
    <3>. QED BY <3>1, <3>2, <1>3, <2>2, StoredTyped
  <2>. QED BY <2>1, <2>2
<1>5. n \notin raced => r = RowOf(file[n])
  BY <1>1, CommitRow DEF KInv, Behind
<1> HIDE DEF r
<1>6. row'[n] = r /\ \A m \in Notes : m # n => row'[m] = row[m] BY <1>1, <1>3 DEF KInv, KType
<1>7. call'[id] = NoCall /\ \A o \in Callers : o # id => call'[o] = call[o] BY <1>1 DEF KInv, KType
<1>8. \A m \in Notes : Busy(m)' = Busy(m) \ {id} BY <1>7 DEF Busy, NoCall
<1>9. id \in Busy(n) BY <1>1 DEF Busy
<1>10. n \notin raced => \A o \in Callers : o # id /\ call[o].phase # "none" => call[o].c.note # n
  BY <1>9, <1>3 DEF KInv, Alone, Busy
<1>11. KType' BY <1>1, <1>4, <1>3 DEF KInv, KType, syncing
<1>12. Alone' BY <1>8, <1>1 DEF KInv, Alone
<1>13. InStep'
  <2> SUFFICES ASSUME NEW m \in Notes \ raced, SavedOn(m)' = {} PROVE row'[m] = RowOf(file[m])
    BY <1>1 DEF InStep, syncing
  <2>1. CASE m = n BY <2>1, <1>5, <1>6
  <2>2. CASE m # n
    <3>1. SavedOn(m) = {} BY <2>2, <1>8, <1>7 DEF SavedOn, Busy
    <3>. QED BY <3>1, <2>2, <1>6 DEF KInv, InStep
  <2>. QED BY <2>1, <2>2
<1>14. Behind'
  <2> SUFFICES ASSUME NEW o \in Callers, call'[o].phase # "none", call'[o].c.note \notin raced
               PROVE  /\ call'[o].loaded = RowOf(call'[o].read)
                      /\ call'[o].phase = "read" => call'[o].read = file[call'[o].c.note]
                      /\ call'[o].phase = "saved" =>
                            /\ file[call'[o].c.note] = call'[o].new
                            /\ call'[o].c.op # "delete" => row'[call'[o].c.note] \in {RowOf(call'[o].read), RowOf(call'[o].new)}
                            /\ call'[o].c.op = "delete" => row'[call'[o].c.note].links \subseteq RowOf(call'[o].read).links
    BY <1>1 DEF Behind, syncing
  <2>1. o # id BY <1>7 DEF NoCall
  <2>2. call'[o] = call[o] /\ call[o].c.note # n BY <2>1, <1>7, <1>10
  <2>3. call[o] \in UnderWay BY <2>2, Typed DEF KInv
  <2>4. call[o].c.note \in Notes BY <2>3 DEF UnderWay, CallSet
  <2>. QED BY <2>2, <2>4, <1>6 DEF KInv, Behind
<1>15. Made' BY <1>7 DEF KInv, Made, NoCall
<1>16. Loaded' BY <1>1 DEF Loaded, syncing
<1>. QED BY <1>11, <1>12, <1>13, <1>14, <1>15, <1>16 DEF KInv

\* A step that takes calls away, and counts the notes of those that had written their files as raced.
LEMMA EndKeeps ==
    ASSUME KInv, call' \in [Callers -> UnderWay \cup {NoCall}], UNCHANGED <<file, row, mayCall>>,
           sync' = sync \/ sync' = None, opening' = opening \/ opening' = None,
           raced \subseteq raced',
           \A o \in Callers : call'[o] = call[o] \/
              (call'[o] = NoCall /\ (call[o].phase = "saved" => call[o].c.note \in raced'))
    PROVE  KInv'
<1>1. \A m \in Notes : Busy(m)' \subseteq Busy(m) BY DEF Busy, NoCall
<1>2. KType' BY DEF KInv, KType
<1>3. Alone' BY <1>1 DEF KInv, Alone
<1>4. InStep'
  <2> SUFFICES ASSUME NEW m \in Notes \ raced', SavedOn(m)' = {}
               PROVE  row[m] = RowOf(file[m]) /\ (sync' # None /\ m \notin sync'.todo => sync'.files[m] = file[m])
    BY DEF InStep
  <2>1. \A o \in Busy(m) : call[o].phase # "saved"
    <3> SUFFICES ASSUME NEW o \in Busy(m), call[o].phase = "saved" PROVE FALSE
      OBVIOUS
    <3>1. o \in Callers /\ call[o].c.note = m BY DEF Busy
    <3>2. call'[o] = call[o] BY <3>1
    <3>3. o \in Busy(m)' BY <3>1, <3>2 DEF Busy
    <3>. QED BY <3>2, <3>3 DEF SavedOn
  <2>2. SavedOn(m) = {} BY <2>1 DEF SavedOn
  <2>. QED BY <2>2 DEF KInv, InStep
<1>5. Behind'
  <2> SUFFICES ASSUME NEW o \in Callers, call'[o].phase # "none", call'[o].c.note \notin raced'
               PROVE  /\ call'[o].loaded = RowOf(call'[o].read)
                      /\ call'[o].phase = "read" => call'[o].read = file[call'[o].c.note]
                      /\ call'[o].phase = "saved" =>
                            /\ file[call'[o].c.note] = call'[o].new
                            /\ call'[o].c.op # "delete" => row[call'[o].c.note] \in {RowOf(call'[o].read), RowOf(call'[o].new)}
                            /\ call'[o].c.op = "delete" => row[call'[o].c.note].links \subseteq RowOf(call'[o].read).links
                            /\ sync' # None /\ call'[o].c.note \notin sync'.todo => sync'.files[call'[o].c.note] \in {call'[o].read, call'[o].new}
    BY DEF Behind
  <2>1. call'[o] = call[o] BY DEF NoCall
  <2>. QED BY <2>1 DEF KInv, Behind
<1>6. Made' BY DEF KInv, Made, NoCall
<1>7. Loaded' BY DEF KInv, Loaded
<1>. QED BY <1>2, <1>3, <1>4, <1>5, <1>6, <1>7 DEF KInv

\* A call that the database refuses leaves its note raced.
LEMMA RefusedKeeps == ASSUME KInv, NEW id \in Callers, Refused(id), UNCHANGED mayCall PROVE KInv'
<1>1. call' = [call EXCEPT ![id] = NoCall] /\ raced' = raced \cup {call[id].c.note} /\ UNCHANGED <<file, row, syncing>>
  BY DEF Refused
<1>2. call' \in [Callers -> UnderWay \cup {NoCall}] BY <1>1 DEF KInv, KType
<1>3. \A o \in Callers : call'[o] = call[o] \/
         (call'[o] = NoCall /\ (call[o].phase = "saved" => call[o].c.note \in raced'))
  BY <1>1 DEF KInv, KType
<1>. QED BY <1>1, <1>2, <1>3, EndKeeps DEF syncing

\* A crash ends every call and every sync.
LEMMA CrashKeeps == ASSUME KInv, Crash, UNCHANGED mayCall PROVE KInv'
<1>1. call' = [id \in Callers |-> NoCall] /\ sync' = None /\ opening' = None /\ UNCHANGED <<file, row>>
      /\ raced' = raced \cup {call[id].c.note : id \in {i \in Callers : call[i].phase = "saved"}}
  BY DEF Crash
<1>. QED BY <1>1, EndKeeps

\* What a sync has of a note that is not raced, when it has the lock: a rebuild nothing yet, and a
\* reconcile its first note as the file is, or as the call under way has read it.
LEMMA StartsInStep ==
    ASSUME KInv, NEW mode \in {"rebuild", "reconcile"}, SyncStart(mode), NEW m \in Notes, m \notin raced'
    PROVE  /\ sync'.loaded[m] = row[m]
           /\ m \notin sync'.todo => \/ sync'.files[m] = file[m]
                                     \/ \E id \in Busy(m) : sync'.files[m] = call[id].read
<1>1. CASE sync' = [mode |-> mode, files |-> [n \in Notes |-> None], loaded |-> row, todo |-> Notes]
  BY <1>1
<1>2. CASE /\ opening # None
           /\ sync' = [mode |-> mode, files |-> [i \in Notes |-> IF i = opening.note THEN opening.content ELSE None],
                       loaded |-> [row EXCEPT ![opening.note] = opening.loaded], todo |-> Notes \ {opening.note}]
           /\ raced' = raced \cup IF Overtaken(opening) THEN {opening.note} ELSE {}
  <2>1. opening \in Openings BY <1>2 DEF KInv, KType
  <2>2. CASE m = opening.note
    <3>1. ~Overtaken(opening) BY <1>2, <2>2
    <3>2. row[m] = opening.loaded /\ (opening.content = file[m] \/ \E id \in Busy(m) : call[id].read = opening.content)
      BY <3>1, <2>2 DEF Overtaken
    <3>3. sync'.loaded[m] = opening.loaded BY <1>2, <2>2 DEF KInv, KType
    <3>4. sync'.files[m] = opening.content BY <1>2, <2>2
    <3>. QED BY <3>2, <3>3, <3>4
  <2>3. CASE m # opening.note
    <3>1. sync'.loaded[m] = row[m] BY <1>2, <2>3 DEF KInv, KType
    <3>2. m \in sync'.todo BY <1>2, <2>3
    <3>. QED BY <3>1, <3>2
  <2>. QED BY <2>2, <2>3
<1>. QED BY <1>1, <1>2 DEF SyncStart, Locked

\* A sync takes the lock with what it has read by then.
LEMMA SyncStartKeeps ==
    ASSUME KInv, NEW mode \in {"rebuild", "reconcile"}, SyncStart(mode), UNCHANGED mayCall
    PROVE  KInv'
<1>1. sync = None /\ UNCHANGED <<file, row, call>> BY DEF SyncStart
<1>2. raced \subseteq raced' BY DEF SyncStart
<1>3. sync' \in Syncs /\ (opening' = None \/ opening' \in Openings)
  <2>1. CASE /\ sync' = [mode |-> mode, files |-> [n \in Notes |-> None], loaded |-> row, todo |-> Notes]
             /\ UNCHANGED opening
    BY <2>1 DEF KInv, KType, Syncs, MaybeNote
  <2>2. CASE /\ opening # None /\ opening' = None
             /\ sync' = [mode |-> mode, files |-> [i \in Notes |-> IF i = opening.note THEN opening.content ELSE None],
                         loaded |-> [row EXCEPT ![opening.note] = opening.loaded], todo |-> Notes \ {opening.note}]
    <3>1. opening \in Openings BY <2>2 DEF KInv, KType
    <3>2. [i \in Notes |-> IF i = opening.note THEN opening.content ELSE None] \in [Notes -> MaybeNote]
      BY <3>1 DEF Openings, MaybeNote
    <3>3. [row EXCEPT ![opening.note] = opening.loaded] \in [Notes -> Rows]
      BY <3>1 DEF Openings, KInv, KType
    <3>. QED BY <2>2, <3>2, <3>3 DEF Syncs
  <2>. QED BY <2>1, <2>2 DEF SyncStart, Locked
<1>4. KType' BY <1>1, <1>3 DEF KInv, KType
<1>5. \A m \in Notes : Busy(m)' = Busy(m) /\ SavedOn(m)' = SavedOn(m) BY <1>1 DEF Busy, SavedOn
<1>6. Alone' BY <1>5, <1>2 DEF KInv, Alone
<1>7. Loaded' BY <1>1, StartsInStep DEF Loaded
<1>8. \A m \in Notes \ raced' : \A o \in Busy(m) :
         m \notin sync'.todo => sync'.files[m] = file[m] \/ sync'.files[m] = call[o].read
  <2> SUFFICES ASSUME NEW m \in Notes \ raced', NEW o \in Busy(m), m \notin sync'.todo
               PROVE  sync'.files[m] = file[m] \/ sync'.files[m] = call[o].read
    OBVIOUS
  <2>1. \A i \in Busy(m) : i = o BY <1>2 DEF KInv, Alone
  <2>. QED BY <2>1, StartsInStep
<1>9. InStep'
  <2> SUFFICES ASSUME NEW m \in Notes \ raced', SavedOn(m) = {}
               PROVE  row[m] = RowOf(file[m]) /\ (m \notin sync'.todo => sync'.files[m] = file[m])
    BY <1>1, <1>5 DEF InStep
  <2>1. row[m] = RowOf(file[m]) BY <1>2 DEF KInv, InStep
  <2>2. ASSUME NEW o \in Busy(m) PROVE call[o].read = file[m]
    <3>1. o \in Callers /\ call[o].phase # "none" /\ call[o].c.note = m BY DEF Busy
    <3>2. call[o].phase # "saved" BY DEF SavedOn
    <3>3. call[o].phase = "read" BY <3>1, <3>2, Typed DEF KInv, UnderWay
    <3>. QED BY <3>1, <3>3, <1>2 DEF KInv, Behind
  <2>. QED BY <2>1, <2>2, StartsInStep
<1>10. Behind'
  <2> SUFFICES ASSUME NEW o \in Callers, call[o].phase # "none", call[o].c.note \notin raced'
               PROVE  /\ call[o].loaded = RowOf(call[o].read)
                      /\ call[o].phase = "read" => call[o].read = file[call[o].c.note]
                      /\ call[o].phase = "saved" =>
                            /\ file[call[o].c.note] = call[o].new
                            /\ call[o].c.op # "delete" => row[call[o].c.note] \in {RowOf(call[o].read), RowOf(call[o].new)}
                            /\ call[o].c.op = "delete" => row[call[o].c.note].links \subseteq RowOf(call[o].read).links
                            /\ call[o].c.note \notin sync'.todo => sync'.files[call[o].c.note] \in {call[o].read, call[o].new}
    BY <1>1 DEF Behind
  <2>1. call[o] \in UnderWay BY Typed DEF KInv
  <2>2. call[o].c.note \in Notes BY <2>1 DEF UnderWay, CallSet
  <2>3. o \in Busy(call[o].c.note) BY DEF Busy
  <2>. QED BY <2>2, <2>3, <1>2, <1>8 DEF KInv, Behind
<1>11. Made' BY <1>1 DEF KInv, Made
<1>. QED BY <1>4, <1>6, <1>7, <1>9, <1>10, <1>11 DEF KInv

\* A sync reads a file as it is.
LEMMA SyncReadKeeps == ASSUME KInv, NEW n \in Notes, SyncRead(n), UNCHANGED mayCall PROVE KInv'
<1>1. sync # None /\ sync' = [sync EXCEPT !.files[n] = file[n], !.todo = @ \ {n}]
      /\ UNCHANGED <<file, row, call, opening, raced>>
  BY DEF SyncRead, ghosts
<1>2. sync \in Syncs BY <1>1 DEF KInv, KType
<1>3. /\ sync' \in Syncs /\ sync'.loaded = sync.loaded
      /\ sync'.files[n] = file[n] /\ sync'.todo = sync.todo \ {n}
      /\ \A m \in Notes : m # n => sync'.files[m] = sync.files[m]
  BY <1>1, <1>2 DEF Syncs, KInv, KType
<1>4. KType' BY <1>1, <1>3 DEF KInv, KType
<1>5. \A m \in Notes : Busy(m)' = Busy(m) /\ SavedOn(m)' = SavedOn(m) BY <1>1 DEF Busy, SavedOn
<1>6. Alone' BY <1>5, <1>1 DEF KInv, Alone
<1>7. InStep'
  <2> SUFFICES ASSUME NEW m \in Notes \ raced, SavedOn(m) = {}
               PROVE  row[m] = RowOf(file[m]) /\ (m \notin sync'.todo => sync'.files[m] = file[m])
    BY <1>1, <1>5 DEF InStep
  <2>. QED BY <1>1, <1>3 DEF KInv, InStep
<1>8. Loaded' BY <1>1, <1>3 DEF KInv, Loaded
<1>9. Behind'
  <2> SUFFICES ASSUME NEW o \in Callers, call[o].phase # "none", call[o].c.note \notin raced
               PROVE  /\ call[o].loaded = RowOf(call[o].read)
                      /\ call[o].phase = "read" => call[o].read = file[call[o].c.note]
                      /\ call[o].phase = "saved" =>
                            /\ file[call[o].c.note] = call[o].new
                            /\ call[o].c.op # "delete" => row[call[o].c.note] \in {RowOf(call[o].read), RowOf(call[o].new)}
                            /\ call[o].c.op = "delete" => row[call[o].c.note].links \subseteq RowOf(call[o].read).links
                            /\ call[o].c.note \notin sync'.todo => sync'.files[call[o].c.note] \in {call[o].read, call[o].new}
    BY <1>1 DEF Behind
  <2>1. call[o] \in UnderWay BY Typed DEF KInv
  <2>2. call[o].c.note \in Notes BY <2>1 DEF UnderWay, CallSet
  <2>. QED BY <2>2, <1>1, <1>3 DEF KInv, Behind
<1>10. Made' BY <1>1 DEF KInv, Made
<1>. QED BY <1>4, <1>6, <1>7, <1>8, <1>9, <1>10 DEF KInv

\* A sync that fails leaves everything as it was.
LEMMA SyncFailsKeeps == ASSUME KInv, SyncFails, UNCHANGED mayCall PROVE KInv'
<1>1. sync' = None /\ UNCHANGED <<file, row, call, opening, raced>> BY DEF SyncFails, ghosts
<1>2. call' \in [Callers -> UnderWay \cup {NoCall}] BY <1>1 DEF KInv, KType
<1>. QED BY <1>1, <1>2, EndKeeps

\* What is stored over the row that was loaded is the row of the content.
LEMMA StoredAfresh ==
    ASSUME NEW r \in Rows, NEW note \in NoteSet
    PROVE  Stored(r, note, r) = RowOf(note)
<1>1. None \notin NoteSet BY NoteAssumption DEF NoteAssumption
<1>2. RowOf(note) = [here |-> TRUE, owner |-> note.owner, attrs |-> note.attrs, rels |-> note.rels, links |-> note.links]
  BY <1>1 DEF RowOf
<1>3. r.here \in BOOLEAN BY DEF Rows
<1>4. (IF r.here /\ note.owner = r.owner THEN r.owner ELSE note.owner) = note.owner OBVIOUS
<1>5. (IF r.here /\ note.attrs = r.attrs THEN r.attrs ELSE note.attrs) = note.attrs OBVIOUS
<1>6. (r.here \/ ~r.here) = TRUE BY <1>3
<1>. QED BY <1>2, <1>4, <1>5, <1>6 DEF Stored

\* Child rows without an entity, or with one.
LEMMA BareRow ==
    ASSUME NEW r \in Rows, NEW rs \in SUBSET Things, NEW ls \in SUBSET Things
    PROVE  [r EXCEPT !.rels = rs, !.links = ls] \in Rows
BY DEF Rows

\* What a sync leaves of a note's row: what it has read of it, if the row is as it has loaded it; of a
\* note it has found no file of, nothing or the row as it was.
LEMMA SyncedRow ==
    ASSUME KType, sync # None, NEW n \in Notes
    PROVE  /\ Synced(sync)[n] \in Rows
           /\ sync.files[n] # None /\ sync.loaded[n] = row[n] /\ file[n] # None =>
                 Synced(sync)[n] = RowOf(sync.files[n])
           /\ sync.files[n] # None => Synced(sync)[n].links = sync.files[n].links
           /\ sync.files[n] = None => Synced(sync)[n] \in {NoRow, row[n]}
           /\ sync.files[n] = None /\ file[n] = None /\ ~Orphaned(Synced(sync)[n]) => Synced(sync)[n] = NoRow
<1> DEFINE now == IF sync.mode = "rebuild" \/ Gone(n) THEN NoRow ELSE row[n]
           old == IF sync.mode = "rebuild" THEN NoRow ELSE sync.loaded[n]
           bare == [NoRow EXCEPT !.rels = sync.files[n].rels, !.links = sync.files[n].links]
<1>1. sync \in Syncs /\ sync.files[n] \in MaybeNote /\ file[n] \in MaybeNote /\ row[n] \in Rows
      /\ sync.loaded[n] \in Rows
  BY DEF KType, Syncs
<1>2. NoRow \in Rows /\ NoRow.here = FALSE BY DEF NoRow, Blank, Rows, Owners, Unset, User
<1>3. now \in Rows /\ old \in Rows BY <1>1, <1>2
<1>4. Synced(sync)[n] = IF sync.files[n] = None THEN now
                        ELSE IF old.here /\ ~now.here THEN bare ELSE Stored(old, sync.files[n], now)
  BY DEF Synced
<1>5. CASE sync.files[n] = None
  <2>1. Synced(sync)[n] = now BY <1>4, <1>5
  <2>2. file[n] = None /\ ~Orphaned(now) => now = NoRow BY <1>2 DEF Gone, Orphaned
  <2>. QED BY <2>1, <2>2, <1>3, <1>5
<1>6. CASE sync.files[n] # None
  <2>1. sync.files[n] \in NoteSet BY <1>6, <1>1 DEF MaybeNote
  <2>2. CASE old.here /\ ~now.here
    <3>1. Synced(sync)[n] = bare BY <1>6, <2>2, <1>4
    <3>2. bare \in Rows
      <4>1. sync.files[n].rels \in SUBSET Things /\ sync.files[n].links \in SUBSET Things BY <2>1, NoteFields
      <4>. QED BY <4>1, <1>2, BareRow
    <3>3. sync.loaded[n] = row[n] /\ file[n] # None => old = now BY <1>2 DEF Gone
    <3>4. bare.links = sync.files[n].links BY DEF NoRow
    <3>. QED BY <3>1, <3>2, <3>3, <3>4, <2>2, <1>6
  <2>3. CASE ~(old.here /\ ~now.here)
    <3>1. Synced(sync)[n] = Stored(old, sync.files[n], now) BY <1>6, <2>3, <1>4
    <3>2. Synced(sync)[n] \in Rows BY <3>1, <2>1, <1>3, StoredTyped
    <3>3. sync.loaded[n] = row[n] /\ file[n] # None => old = now BY <1>2 DEF Gone
    <3>4. Stored(now, sync.files[n], now) = RowOf(sync.files[n]) BY <2>1, <1>3, StoredAfresh
    <3>5. Stored(old, sync.files[n], now).links = sync.files[n].links BY DEF Stored
    <3>. QED BY <3>1, <3>2, <3>3, <3>4, <3>5, <1>6
  <2>. QED BY <2>2, <2>3
<1>. QED BY <1>5, <1>6

\* A sync that ends leaves every row in step, but for those of notes a call has written since.
LEMMA SyncEndKeeps == ASSUME KInv, SyncEnd, UNCHANGED mayCall PROVE KInv'
<1>1. sync # None /\ sync.todo = {} /\ row' = Synced(sync) /\ sync' = None /\ UNCHANGED <<file, call, opening>>
      /\ raced' = {n \in raced : \/ Busy(n) # {} \/ Orphaned(row'[n])
                                 \/ sync.files[n] # file[n] \/ sync.loaded[n] # row[n]}
  BY DEF SyncEnd
<1>2. \A m \in Notes : Busy(m)' = Busy(m) /\ SavedOn(m)' = SavedOn(m) BY <1>1 DEF Busy, SavedOn
<1>3. KType'
  <2>1. DOMAIN Synced(sync) = Notes /\ Synced(sync) = [n \in Notes |-> Synced(sync)[n]] BY DEF Synced
  <2>2. row' \in [Notes -> Rows] BY <1>1, <2>1, SyncedRow DEF KInv
  <2>. QED BY <2>2, <1>1 DEF KInv, KType
<1>4. Alone'
  <2> SUFFICES ASSUME NEW m \in Notes, m \notin raced', NEW i \in Busy(m), NEW j \in Busy(m) PROVE i = j
    BY <1>1, <1>2 DEF Alone
  <2>1. m \notin raced BY <1>1
  <2>. QED BY <2>1 DEF KInv, Alone
<1>5. RowOf(None) = NoRow /\ ~Orphaned(NoRow) BY DEF RowOf, Orphaned
<1>6. InStep'
  <2> SUFFICES ASSUME NEW m \in Notes, m \notin raced', SavedOn(m) = {} PROVE row'[m] = RowOf(file[m])
    BY <1>1, <1>2 DEF InStep
  <2>1. sync.files[m] = file[m] /\ sync.loaded[m] = row[m] /\ (~Orphaned(row'[m]) \/ row[m] = RowOf(file[m]))
    <3>1. CASE m \in raced BY <3>1, <1>1
    <3>2. CASE m \notin raced BY <3>2, <1>1 DEF KInv, InStep, Loaded
    <3>. QED BY <3>1, <3>2
  <2>2. CASE file[m] # None BY <2>1, <2>2, <1>1, SyncedRow DEF KInv
  <2>3. CASE file[m] = None BY <2>1, <2>3, <1>1, <1>5, SyncedRow DEF KInv
  <2>. QED BY <2>2, <2>3
<1>7. Behind'
  <2> SUFFICES ASSUME NEW o \in Callers, call[o].phase # "none", call[o].c.note \notin raced'
               PROVE  /\ call[o].loaded = RowOf(call[o].read)
                      /\ call[o].phase = "read" => call[o].read = file[call[o].c.note]
                      /\ call[o].phase = "saved" =>
                            /\ file[call[o].c.note] = call[o].new
                            /\ call[o].c.op # "delete" => row'[call[o].c.note] \in {RowOf(call[o].read), RowOf(call[o].new)}
                            /\ call[o].c.op = "delete" => row'[call[o].c.note].links \subseteq RowOf(call[o].read).links
    BY <1>1 DEF Behind
  <2> DEFINE m == call[o].c.note
  <2>1. call[o] \in UnderWay BY Typed DEF KInv
  <2>2. m \in Notes BY <2>1 DEF UnderWay, CallSet
  <2>3. o \in Busy(m) BY DEF Busy
  <2>4. m \notin raced BY <1>1, <2>3
  <2>5. sync.loaded[m] = row[m] BY <1>1, <2>2, <2>4 DEF KInv, Loaded
  <2>6. ASSUME call[o].phase = "saved", call[o].c.op # "delete"
        PROVE  row'[m] \in {RowOf(call[o].read), RowOf(call[o].new)}
    <3>1. call[o].new # None BY <2>6 DEF KInv, Made
    <3>2. /\ file[m] = call[o].new /\ row[m] \in {RowOf(call[o].read), RowOf(call[o].new)}
          /\ sync.files[m] \in {call[o].read, call[o].new}
      BY <2>6, <2>4, <1>1 DEF KInv, Behind
    <3>3. CASE sync.files[m] # None BY <3>1, <3>2, <3>3, <2>2, <2>5, <1>1, SyncedRow DEF KInv
    <3>4. CASE sync.files[m] = None
      <4>1. call[o].read = None BY <3>4, <3>2, <3>1
      <4>2. row'[m] \in {NoRow, row[m]} BY <3>4, <2>2, <1>1, SyncedRow DEF KInv
      <4>. QED BY <4>1, <4>2, <3>2, <1>5
    <3>. QED BY <3>3, <3>4
  <2>7. ASSUME call[o].phase = "saved", call[o].c.op = "delete"
        PROVE  row'[m].links \subseteq RowOf(call[o].read).links
    <3>1. row[m].links \subseteq RowOf(call[o].read).links /\ sync.files[m] \in {call[o].read, call[o].new}
      BY <2>7, <2>4, <1>1 DEF KInv, Behind
    <3>2. call[o].new = None BY <2>7 DEF KInv, Made
    <3>3. CASE sync.files[m] # None
      <4>1. row'[m].links = call[o].read.links BY <3>1, <3>2, <3>3, <2>2, <1>1, SyncedRow DEF KInv
      <4>. QED BY <4>1, <3>1, <3>2, <3>3 DEF RowOf
    <3>4. CASE sync.files[m] = None
      <4>1. row'[m] \in {NoRow, row[m]} BY <3>4, <2>2, <1>1, SyncedRow DEF KInv
      <4>2. NoRow.links = {} BY DEF NoRow
      <4>. QED BY <4>1, <4>2, <3>1
    <3>. QED BY <3>3, <3>4
  <2>. QED BY <2>4, <2>6, <2>7 DEF KInv, Behind
<1>8. Made' BY <1>1 DEF KInv, Made
<1>9. Loaded' BY <1>1 DEF Loaded
<1>. QED BY <1>3, <1>4, <1>6, <1>7, <1>8, <1>9 DEF KInv

\* A file that is edited by hand makes its note raced.
LEMMA HandEditKeeps == ASSUME KInv, NEW n \in Notes, HandEdit(n), UNCHANGED mayCall PROVE KInv'
<1>1. PICK note \in HandMade \cup {None} : file' = [file EXCEPT ![n] = note] BY DEF HandEdit
<1>2. raced' = raced \cup {n} /\ UNCHANGED <<row, call, syncing>> BY DEF HandEdit
<1>3. note \in MaybeNote
  <2>1. CASE note \in HandMade
    <3>1. /\ note = [owner |-> note.owner, attrs |-> Blank, rels |-> {}, links |-> {}, text |-> TRUE]
          /\ note.owner \in {Manual, User}
      BY <2>1 DEF HandMade
    <3>2. note.owner \in Owners /\ Blank \in [Fields -> Owners]
      BY <3>1 DEF Owners, Blank, Unset, Manual, User
    <3>3. {} \in SUBSET Things OBVIOUS
    <3>4. note \in NoteSet BY <3>1, <3>2, <3>3, NoteMade
    <3>. QED BY <3>4 DEF MaybeNote
  <2>. QED BY <2>1 DEF MaybeNote
<1>4. \A m \in Notes : m # n => file'[m] = file[m] BY <1>1 DEF KInv, KType
<1>5. \A m \in Notes : Busy(m)' = Busy(m) /\ SavedOn(m)' = SavedOn(m) BY <1>2 DEF Busy, SavedOn
<1>6. KType' BY <1>1, <1>2, <1>3 DEF KInv, KType, syncing
<1>7. Alone' BY <1>5, <1>2 DEF KInv, Alone
<1>8. InStep' BY <1>2, <1>4, <1>5 DEF KInv, InStep, syncing
<1>9. Behind'
  <2> SUFFICES ASSUME NEW o \in Callers, call[o].phase # "none", call[o].c.note \notin raced'
               PROVE  /\ call[o].loaded = RowOf(call[o].read)
                      /\ call[o].phase = "read" => call[o].read = file'[call[o].c.note]
                      /\ call[o].phase = "saved" =>
                            /\ file'[call[o].c.note] = call[o].new
                            /\ call[o].c.op # "delete" => row[call[o].c.note] \in {RowOf(call[o].read), RowOf(call[o].new)}
                            /\ call[o].c.op = "delete" => row[call[o].c.note].links \subseteq RowOf(call[o].read).links
                            /\ sync # None /\ call[o].c.note \notin sync.todo => sync.files[call[o].c.note] \in {call[o].read, call[o].new}
    BY <1>2 DEF Behind, syncing
  <2>1. call[o] \in UnderWay BY Typed DEF KInv
  <2>2. call[o].c.note \in Notes BY <2>1 DEF UnderWay, CallSet
  <2>. QED BY <2>2, <1>2, <1>4 DEF KInv, Behind
<1>10. Made' BY <1>2 DEF KInv, Made
<1>11. Loaded' BY <1>2 DEF KInv, Loaded, syncing
<1>. QED BY <1>6, <1>7, <1>8, <1>9, <1>10, <1>11 DEF KInv

\* Steps that leave notes, rows and calls alone.
LEMMA FrameKeeps ==
    ASSUME KInv, UNCHANGED <<file, row, call, sync, raced, mayCall>>, opening' = None \/ opening' \in Openings
    PROVE  KInv'
<1>1. \A m \in Notes : Busy(m)' = Busy(m) /\ SavedOn(m)' = SavedOn(m) BY DEF Busy, SavedOn
<1>2. KType' BY DEF KInv, KType
<1>3. Alone' BY <1>1 DEF KInv, Alone
<1>4. InStep' BY <1>1 DEF KInv, InStep
<1>5. Behind' BY DEF KInv, Behind
<1>6. Made' BY DEF KInv, Made
<1>7. Loaded' BY DEF KInv, Loaded
<1>. QED BY <1>2, <1>3, <1>4, <1>5, <1>6, <1>7 DEF KInv

\* A reconcile that reads its first note, and then the row of it.
LEMMA OpenKeeps == ASSUME KInv, (\E n \in Notes : Open(n)) \/ Look, UNCHANGED mayCall PROVE KInv'
<1>1. UNCHANGED <<file, row, call, sync, raced>> BY DEF Open, Look, ghosts
<1>2. opening' \in Openings
  <2>1. ASSUME NEW n \in Notes, Open(n) PROVE opening' \in Openings
    <3>1. NoRow \in Rows BY DEF NoRow, Blank, Rows, Owners, Unset, User
    <3>2. file[n] \in MaybeNote BY DEF KInv, KType
    <3>3. opening' = [note |-> n, content |-> file[n], looked |-> FALSE, loaded |-> NoRow] BY <2>1 DEF Open
    <3>. QED BY <3>1, <3>2, <3>3 DEF Openings
  <2>2. CASE Look
    <3>1. opening \in Openings BY <2>2 DEF Look, KInv, KType
    <3>2. row[opening.note] \in Rows BY <3>1 DEF Openings, KInv, KType
    <3>3. opening' = [opening EXCEPT !.looked = TRUE, !.loaded = row[opening.note]] BY <2>2 DEF Look
    <3>. QED BY <3>1, <3>2, <3>3 DEF Openings
  <2>. QED BY <2>1, <2>2
<1>. QED BY <1>1, <1>2, FrameKeeps

\* At the start every row is that of its file, and nothing is under way.
LEMMA InitKInv == Init => KInv
<1> SUFFICES ASSUME Init PROVE KInv
  OBVIOUS
<1>1. PICK w \in Worlds : /\ file = w.file /\ row = [n \in Notes |-> RowOf(w.file[n])] /\ mayCall = w.calls
                          /\ call = [id \in Callers |-> NoCall] /\ sync = None /\ opening = None
  BY DEF Init
<1>2. file \in [Notes -> MaybeNote] /\ mayCall \subseteq CallSet
  BY <1>1, WorldsAssumption DEF WorldsAssumption, MaybeNote
<1>3. row \in [Notes -> Rows] BY <1>1, <1>2, RowTyped
<1>4. KType BY <1>1, <1>2, <1>3 DEF KType
<1>5. \A m \in Notes : Busy(m) = {} BY <1>1 DEF Busy, NoCall
<1>6. Alone BY <1>5 DEF Alone
<1>7. InStep BY <1>1 DEF InStep
<1>8. Behind BY <1>1 DEF Behind, NoCall
<1>9. Made BY <1>1 DEF Made, NoCall
<1>10. Loaded BY <1>1 DEF Loaded
<1>. QED BY <1>4, <1>6, <1>7, <1>8, <1>9, <1>10 DEF KInv

\* The call that takes a deleted person out of a note.
LEMMA OrphanCall ==
    ASSUME NEW n \in Notes, NEW p \in People
    PROVE  [op |-> "orphan", what |-> "links", note |-> n, by |-> User, arg |-> {p}, text |-> FALSE, job |-> FALSE]
              \in CallSet
BY DEF CallSet, Things, User, Inferred

\* A step of the knowledge base, whoever takes it.
LEMMA NextKInv == ASSUME KInv, [Next]_base PROVE KInv'
<1>1. CASE UNCHANGED base
  BY <1>1, FrameKeeps DEF base, fixed, ghosts, syncing, KInv, KType
<1>2. CASE Next
  <2>0. UNCHANGED mayCall
    BY <1>2 DEF Next, Step, Crash, Call, Save, Commit, Refused, SyncStart, SyncRead, SyncEnd, SyncFails, Open, Look,
                HandEdit, NamePerson,
                PersonGone, DeletePerson, Reassign, Compute, Store, CloseTask, fixed
  <2>1. ASSUME NEW id \in Callers, Call(id) PROVE KInv'
    <3>1. PICK c \in mayCall : Read(id, c) BY <2>1 DEF Call
    <3>2. c \in CallSet BY DEF KInv, KType
    <3>3. UNCHANGED <<file, row, syncing>> BY <2>1 DEF Call
    <3>. QED BY <3>1, <3>2, <3>3, <2>0, ReadKeeps
  <2>2. ASSUME NEW id \in Callers, Save(id) PROVE KInv' BY <2>2, <2>0, SaveKeeps
  <2>3. ASSUME NEW id \in Callers, Commit(id) PROVE KInv' BY <2>3, <2>0, CommitKeeps
  <2>4. ASSUME NEW id \in Callers, Refused(id) PROVE KInv' BY <2>4, <2>0, RefusedKeeps
  <2>5. ASSUME NEW mode \in {"rebuild", "reconcile"}, SyncStart(mode) PROVE KInv'
    BY <2>5, <2>0, SyncStartKeeps
  <2>6. ASSUME SyncEnd PROVE KInv' BY <2>6, <2>0, SyncEndKeeps
  <2>7. ASSUME NEW n \in Notes, HandEdit(n) PROVE KInv' BY <2>7, <2>0, HandEditKeeps
  <2>8. ASSUME NEW p \in People, NEW id \in Callers, DeletePerson(id, p) PROVE KInv'
    <3>1. UNCHANGED <<file, row, syncing>> BY <2>8 DEF DeletePerson
    <3>2. CASE UNCHANGED <<call, raced, unread>> BY <3>1, <3>2, <2>0, FrameKeeps DEF syncing, KInv, KType
    <3>3. CASE \E n \in Notes : Read(id, [op |-> "orphan", what |-> "links", note |-> n, by |-> User,
                                          arg |-> {p}, text |-> FALSE, job |-> FALSE])
      BY <3>1, <3>3, <2>0, OrphanCall, ReadKeeps
    <3>. QED BY <2>8, <3>2, <3>3 DEF DeletePerson
  <2>9. ASSUME UNCHANGED <<file, row, call, syncing, raced>> PROVE KInv'
    BY <2>9, <2>0, FrameKeeps DEF syncing, KInv, KType
  <2>10. ASSUME NEW p \in People, NamePerson(p) \/ PersonGone(p) PROVE KInv'
    BY <2>10, <2>9 DEF NamePerson, PersonGone, ghosts
  <2>11. ASSUME NEW a \in Photos, Reassign(a) \/ Compute(a) \/ Store(a) PROVE KInv'
    BY <2>11, <2>9 DEF Reassign, Compute, Store, ghosts
  <2>12. ASSUME NEW t \in tasks, CloseTask(t) PROVE KInv' BY <2>12, <2>9 DEF CloseTask
  <2>13. CASE Crash BY <2>13, <2>0, CrashKeeps
  <2>14. ASSUME NEW n \in Notes, SyncRead(n) PROVE KInv' BY <2>14, <2>0, SyncReadKeeps
  <2>15. CASE SyncFails BY <2>15, <2>0, SyncFailsKeeps
  <2>16. CASE (\E n \in Notes : Open(n)) \/ Look BY <2>16, <2>0, OpenKeeps
  <2>. QED BY <1>2, <2>1, <2>2, <2>3, <2>4, <2>5, <2>6, <2>7, <2>8, <2>10, <2>11, <2>12, <2>13, <2>14, <2>15,
              <2>16 DEF Next, Step
<1>. QED BY <1>1, <1>2

\* Every step with albums and duplicates is a step of the knowledge base or leaves it alone.
LEMMA CNextIsNext == ASSUME [CNext]_<<vars, curated>> PROVE [Next]_base
BY DEF CNext, Next, vars, curated

\* Cache and calls are typed, and every row that is not its file's has a call, a sync or a mishap of
\* its note to account for it (service.py, repository.py, maintenance.py).
THEOREM CacheInvariant == CSpec => []KInv
<1>1. CInit => KInv BY InitKInv DEF CInit
<1>2. KInv /\ [CNext]_<<vars, curated>> => KInv' BY CNextIsNext, NextKInv
<1>. QED BY <1>1, <1>2, PTL DEF CSpec

\* The cache of a note says what its file says, but for notes of overlapping, failed or cut off calls,
\* edits by hand and notes a reconcile has read before a call wrote them, until they are synced.
THEOREM CacheIsFile == CSpec => []CacheFollows
<1>1. KInv => CacheFollows
  <2> SUFFICES ASSUME KInv, NEW n \in Notes, n \notin raced, Busy(n) = {} PROVE row[n] = RowOf(file[n])
    BY DEF CacheFollows
  <2>1. SavedOn(n) = {} BY DEF SavedOn
  <2>. QED BY <2>1 DEF KInv, InStep
<1>. QED BY <1>1, CacheInvariant, PTL

(***************************************************************************)
(* What the user has written                                                *)
(***************************************************************************)
\* A call of a lower owner that is allowed leaves owner, text, relationships and links of the user's
\* note, and the user's fields of any.
LEMMA ContentKeepsUser ==
    ASSUME NEW c \in CallSet, NEW note \in NoteSet, c.by # User, c.op # "create", Allowed(c, note)
    PROVE  /\ note.owner = User => Content(c, note) = [note EXCEPT !.attrs = Content(c, note).attrs]
           /\ \A f \in Fields : note.attrs[f] = User => Content(c, note).attrs[f] = User
<1>1. c.op # "delete" BY DEF CallSet
<1>2. c.by \in Inferred..User BY DEF CallSet
<1>3. CASE c.op = "facts"
  <2>1. Content(c, note) = WithFacts(c, Updated(c, note)) BY <1>3, ContentCases
  <2>2. Updated(c, note) \in NoteSet /\ Updated(c, note).attrs = note.attrs BY UpdatedTyped
  <2>3. \A f \in Fields : note.attrs[f] = User => Content(c, note).attrs[f] = User BY <2>1, <2>2, FactsTyped
  <2>4. note.owner = User => Updated(c, note) = note BY UpdatedTyped
  <2>5. note.owner = User => Content(c, note) = [note EXCEPT !.attrs = Content(c, note).attrs]
    BY <2>1, <2>4, FactsTyped
  <2>. QED BY <2>3, <2>5
<1>4. CASE c.op # "facts"
  <2>1. Content(c, note) = Rewritten(c, note) BY <1>4, <1>1, ContentCases
  <2>2. Content(c, note).attrs = note.attrs BY <2>1, RewrittenTyped
  <2>3. CanOverwrite(c.by, note.owner)
    BY <1>4, <1>1 DEF Allowed
  <2>4. note.owner # User BY <2>3, <1>2 DEF CanOverwrite, User, Inferred
  <2>. QED BY <2>2, <2>4
<1>. QED BY <1>3, <1>4

\* Only the write of its file brings a call from reading to having saved.
LEMMA OnlySaves ==
    ASSUME KType, Next, NEW id \in Callers, call[id].phase = "read", call'[id].phase = "saved"
    PROVE  Save(id)
<1>1. ASSUME NEW o \in Callers, NEW c, Read(o, c) PROVE FALSE
  <2>1. /\ call[o].phase = "none"
        /\ call' = [call EXCEPT ![o] =
              [phase |-> "read", c |-> c, read |-> IF c.op = "create" THEN None ELSE file[c.note],
               loaded |-> row[c.note], new |-> Content(c, file[c.note]), after |-> {}]]
    BY <1>1 DEF Read, Idle
  <2>2. o # id BY <2>1
  <2>. QED BY <2>1, <2>2 DEF KType
<1>2. ASSUME NEW o \in Callers, call' = [call EXCEPT ![o] = NoCall] PROVE FALSE BY <1>2 DEF KType, NoCall
<1>3. ASSUME NEW o \in Callers, Save(o), o # id PROVE FALSE BY <1>3 DEF Save, KType
<1>4. ASSUME UNCHANGED call PROVE FALSE BY <1>4
<1>5. ASSUME NEW o \in Callers, Call(o) PROVE FALSE BY <1>5, <1>1 DEF Call
<1>6. ASSUME NEW o \in Callers, Commit(o) \/ Refused(o) PROVE FALSE BY <1>6, <1>2 DEF Commit, Refused
<1>7. ASSUME NEW p \in People, NEW o \in Callers, DeletePerson(o, p) PROVE FALSE
  BY <1>7, <1>1, <1>4 DEF DeletePerson
<1>8. ASSUME Crash PROVE FALSE BY <1>8 DEF Crash, NoCall
<1>9. ASSUME \/ \E mode \in {"rebuild", "reconcile"} : SyncStart(mode)
             \/ Look \/ SyncEnd \/ SyncFails
             \/ \E n \in Notes : Open(n) \/ SyncRead(n) \/ HandEdit(n)
             \/ \E p \in People : NamePerson(p) \/ PersonGone(p)
             \/ \E a \in Photos : Reassign(a) \/ Compute(a) \/ Store(a)
             \/ \E t \in tasks : CloseTask(t)
      PROVE  FALSE
  BY <1>9, <1>4 DEF SyncStart, SyncRead, SyncEnd, SyncFails, Open, Look, HandEdit, NamePerson, PersonGone, Reassign,
                    Compute, Store, CloseTask
<1>. QED BY <1>3, <1>5, <1>6, <1>7, <1>8, <1>9 DEF Next, Step

\* No call of a lower owner takes from a note what the user has written (schema.py): neither one that
\* is alone on its note, as what it has read is then what the file still says, nor one that overlaps
\* with others and happens to write over what it has read.
THEOREM UserStays == CSpec => UserKept
<1> DEFINE Kept(id) ==
             /\ call[id].phase = "read" /\ call'[id].phase = "saved" /\ call[id].c.by # User
             /\ file[call[id].c.note] # None /\ (call[id].c.note \notin raced \/ call[id].read = file[call[id].c.note])
             => /\ file[call[id].c.note].owner = User =>
                      file'[call[id].c.note] = [file[call[id].c.note] EXCEPT !.attrs = file'[call[id].c.note].attrs]
                /\ \A f \in Fields : file[call[id].c.note].attrs[f] = User => file'[call[id].c.note].attrs[f] = User
<1>1. ASSUME KInv, [Next]_base, NEW id \in Callers PROVE Kept(id)
  <2> SUFFICES ASSUME call[id].phase = "read", call'[id].phase = "saved", call[id].c.by # User,
                      file[call[id].c.note] # None,
                      call[id].c.note \notin raced \/ call[id].read = file[call[id].c.note]
               PROVE  /\ file[call[id].c.note].owner = User =>
                           file'[call[id].c.note] =
                              [file[call[id].c.note] EXCEPT !.attrs = file'[call[id].c.note].attrs]
                      /\ \A f \in Fields :
                           file[call[id].c.note].attrs[f] = User => file'[call[id].c.note].attrs[f] = User
    OBVIOUS
  <2>1. Next BY <1>1 DEF base
  <2>2. Save(id) BY <1>1, <2>1, OnlySaves DEF KInv
  <2>3. call[id] \in UnderWay BY <1>1, Typed DEF KInv
  <2>4. call[id].c \in CallSet /\ call[id].c.note \in Notes BY <2>3 DEF UnderWay, CallSet
  <2>5. file'[call[id].c.note] = call[id].new BY <1>1, <2>2, <2>4 DEF Save, KInv, KType
  <2>8. call[id].read = file[call[id].c.note] BY <1>1 DEF KInv, Behind
  <2>6. call[id].read \in NoteSet BY <2>3, <2>8 DEF UnderWay, MaybeNote
  <2>7. /\ call[id].c.op # "create" /\ call[id].new = Content(call[id].c, call[id].read)
        /\ Allowed(call[id].c, call[id].read)
    BY <1>1, <2>8 DEF KInv, Made
  <2>. QED BY <2>4, <2>5, <2>6, <2>7, <2>8, ContentKeepsUser
<1>2. KInv /\ [CNext]_<<vars, curated>> =>
         [\A id \in Callers : Kept(id)]_vars
  BY <1>1, CNextIsNext
<1>3. UserKept <=> [][\A id \in Callers : Kept(id)]_vars BY PTL DEF UserKept
<1>. QED BY <1>2, <1>3, CacheInvariant, PTL DEF CSpec

(***************************************************************************)
(* Recommendations                                                          *)
(***************************************************************************)
Recs == [src : Photos, dst : Photos, why : SUBSET {"person", "role", "film"}]

RType ==
    /\ people \subseteq People
    /\ shows \in [Photos -> SUBSET People]
    /\ rec \subseteq Recs
    /\ found \in [Photos -> (SUBSET Recs) \cup {None}]

RInv == RType /\ RecsTrue

\* A note counts for photo a after a step as it did before.
Counts(n, a) == row[n].links \cap ({a} \cup shows[a]) # {}

\* The reasons for a recommendation look at the persons of its photos, and at the notes that count.
LEMMA WhyStays ==
    ASSUME NEW a, NEW b, shows'[a] = shows[a], shows'[b] = shows[b],
           \A n \in Notes : \A p \in {a, b} :
              /\ Counts(n, p)' <=> Counts(n, p)
              /\ Counts(n, p) => row'[n].rels = row[n].rels
    PROVE  Why(a, b)' = Why(a, b)
<1>1. \A p \in {a, b} : RolesOf(p) = {n \in Notes : Counts(n, p)} BY DEF RolesOf, Counts
<1>2. RolesOf(a)' = {n \in Notes : Counts(n, a)'} BY DEF RolesOf, Counts
<1>3. RolesOf(b)' = {n \in Notes : Counts(n, b)'} BY DEF RolesOf, Counts
<1>4. RolesOf(a)' = RolesOf(a) BY <1>1, <1>2
<1>5. RolesOf(b)' = RolesOf(b) BY <1>1, <1>3
<1>6. FilmsOf(a)' = FilmsOf(a)
  <2>1. FilmsOf(a)' = UNION {row'[n].rels : n \in RolesOf(a)} BY <1>4 DEF FilmsOf
  <2>2. \A n \in RolesOf(a) : row'[n].rels = row[n].rels BY <1>1
  <2>3. {row'[n].rels : n \in RolesOf(a)} = {row[n].rels : n \in RolesOf(a)} BY <2>2
  <2>. QED BY <2>1, <2>3 DEF FilmsOf
<1>7. FilmsOf(b)' = FilmsOf(b)
  <2>1. FilmsOf(b)' = UNION {row'[n].rels : n \in RolesOf(b)} BY <1>5 DEF FilmsOf
  <2>2. \A n \in RolesOf(b) : row'[n].rels = row[n].rels BY <1>1
  <2>3. {row'[n].rels : n \in RolesOf(b)} = {row[n].rels : n \in RolesOf(b)} BY <2>2
  <2>. QED BY <2>1, <2>3 DEF FilmsOf
<1>. QED BY <1>4, <1>5, <1>6, <1>7 DEF Why

\* A photo that links do not lead to does not count for them.
LEMMA NotOf ==
    ASSUME NEW a \in Photos, NEW links, a \notin PhotosOf(links)
    PROVE  links \cap ({a} \cup shows[a]) = {}
BY DEF PhotosOf

\* What is computed tells the truth about the moment.
LEMMA ComputedTrue ==
    ASSUME NEW a \in Photos
    PROVE  /\ Computed(a) \subseteq Recs
           /\ \A r \in Computed(a) : r.src = a /\ r.why = Why(r.src, r.dst)
<1>1. \A b : Why(a, b) \subseteq {"person", "role", "film"} BY DEF Why
<1>2. ASSUME NEW r \in Computed(a)
      PROVE  \E b \in Photos : r = [src |-> a, dst |-> b, why |-> Why(a, b)]
  BY DEF Computed
<1>3. ASSUME NEW r \in Computed(a) PROVE r \in Recs /\ r.src = a /\ r.why = Why(r.src, r.dst)
  <2>1. PICK b \in Photos : r = [src |-> a, dst |-> b, why |-> Why(a, b)] BY <1>2
  <2>2. r.src = a /\ r.dst = b /\ r.why = Why(a, b) BY <2>1
  <2>3. r \in Recs BY <2>1, <1>1 DEF Recs
  <2>. QED BY <2>2, <2>3
<1>. QED BY <1>3

\* A step that leaves the reasons of the recommendations it keeps and does not give up.
LEMMA RecsStay ==
    ASSUME RInv, RType', rec' \subseteq rec,
           \A r \in rec' : r \notin leak' => r \notin leak /\ Why(r.src, r.dst)' = Why(r.src, r.dst)
    PROVE  RInv'
BY DEF RInv, RecsTrue

\* The links and relationships a note of a single call has before and after it, for a photo that the
\* call does not ask to forget.
LEMMA CallForgets ==
    ASSUME KInv, NEW id \in Callers, call[id].phase = "saved", call[id].c.note \notin raced,
           NEW tx, ~Leaking(call[id].c, tx), NEW a \in Photos,
           a \notin Invalidated(call[id].c, call[id].loaded, call[id].new, tx),
           NEW r, r = RowOf(call[id].new)
    PROVE  /\ r.links \cap ({a} \cup shows[a]) # {} <=> row[call[id].c.note].links \cap ({a} \cup shows[a]) # {}
           /\ row[call[id].c.note].links \cap ({a} \cup shows[a]) # {} => r.rels = row[call[id].c.note].rels
<1> DEFINE k == call[id]
           c == k.c
           n == c.note
           X == {a} \cup shows[a]
<1>1. k \in UnderWay BY Typed DEF KInv
<1>2. c \in CallSet /\ n \in Notes /\ k.read \in MaybeNote /\ k.new \in MaybeNote BY <1>1 DEF UnderWay, CallSet
<1>3. /\ k.loaded = RowOf(k.read)
      /\ c.op # "delete" => row[n] \in {RowOf(k.read), RowOf(k.new)}
      /\ c.op = "delete" => row[n].links \subseteq RowOf(k.read).links
  BY DEF KInv, Behind
<1>4. c.op # "create" /\ c.op # "suggest" /\ c.op # "orphan" BY DEF Leaking
<1>5. k.read # None /\ k.new = Content(c, k.read) /\ k.read \in NoteSet
      /\ (k.new = None <=> c.op = "delete")
  BY <1>4, <1>2 DEF KInv, Made, MaybeNote
<1>6. k.loaded.links = k.read.links /\ k.loaded.rels = k.read.rels BY <1>3, <1>5 DEF RowOf
<1>7. c.op # "delete" => r.links = k.new.links /\ r.rels = k.new.rels BY <1>5 DEF RowOf
<1>8. CASE c.op = "delete"
  <2>1. Invalidated(c, k.loaded, k.new, tx) = PhotosOf(k.loaded.links) BY <1>8, Zenon DEF Invalidated
  <2>2. k.loaded.links \cap X = {} BY <2>1, NotOf
  <2>3. r.links = {} BY <1>8, <1>5 DEF RowOf, NoRow
  <2>4. row[n].links \cap X = {} BY <2>2, <1>3, <1>8
  <2>. QED BY <2>3, <2>4
<1>9. CASE c.op = "facts"
  <2>1. k.new = WithFacts(c, Updated(c, k.read)) BY <1>9, <1>5, <1>2, ContentCases
  <2>2. Updated(c, k.read) \in NoteSet /\ Updated(c, k.read).rels = k.read.rels
        /\ Updated(c, k.read).links = k.read.links
    BY <1>2, <1>5, UpdatedTyped
  <2>3. k.new = [Updated(c, k.read) EXCEPT !.attrs = k.new.attrs] BY <2>1, <2>2, <1>2, FactsTyped
  <2>4. k.new.rels = k.read.rels /\ k.new.links = k.read.links BY <2>2, <2>3 DEF NoteSet
  <2>. QED BY <2>4, <1>3, <1>6, <1>7, <1>9
<1>10. CASE c.op \in {"put", "add", "drop"}
  <2>1. k.new = Rewritten(c, k.read) BY <1>10, <1>5, <1>2, ContentCases
  <2>2. /\ k.new.rels = IF c.what = "rels" THEN NewSet(c, k.read.rels) ELSE k.read.rels
        /\ k.new.links = IF c.what \in {"text", "rels"} THEN k.read.links ELSE NewSet(c, k.read.links)
    <3>1. c \in CallSet /\ k.read \in NoteSet BY <1>2, <1>5
    <3> HIDE DEF k, c
    <3>2. /\ Rewritten(c, k.read).rels = IF c.what = "rels" THEN NewSet(c, k.read.rels) ELSE k.read.rels
          /\ Rewritten(c, k.read).links =
                IF c.what \in {"text", "rels"} THEN k.read.links ELSE NewSet(c, k.read.links)
      BY <3>1, RewrittenTyped, Zenon
    <3>. QED BY <2>1, <3>2, Zenon
  <2>3. CASE c.op = "put" /\ c.what = "text"
    BY <2>2, <2>3, <1>3, <1>6, <1>7
  <2>4. CASE c.op = "put" /\ c.what # "text"
    <3>1. c.job \/ tx.flushed BY <2>4 DEF Leaking
    <3>2. Invalidated(c, k.loaded, k.new, tx) =
             PhotosOf(k.loaded.links \cup (IF c.job \/ tx.flushed THEN k.new.links ELSE {}))
      BY <2>4, Zenon DEF Invalidated
    <3>3. (k.loaded.links \cup k.new.links) \cap X = {} BY <3>1, <3>2, NotOf
    <3>. QED BY <3>3, <1>3, <1>7, <2>4
  <2>5. CASE c.op \in {"add", "drop"}
    <3>1. c.what = "links" BY <2>5, <1>2 DEF Leaking, CallSet
    <3>2. Invalidated(c, k.loaded, k.new, tx) = PhotosOf(c.arg) BY <2>5, <3>1, Zenon DEF Invalidated
    <3>3. c.arg \cap X = {} BY <3>2, NotOf
    <3>4. k.new.rels = k.read.rels /\ k.new.links = NewSet(c, k.read.links) BY <2>2, <3>1
    <3>5. NewSet(c, k.read.links) \in {k.read.links \cup c.arg, k.read.links \ c.arg}
      <4>1. CASE c.op = "add" BY <4>1 DEF NewSet
      <4>2. CASE c.op = "drop" BY <4>2 DEF NewSet
      <4>. QED BY <4>1, <4>2, <2>5
    <3>6. k.new.links \cap X = k.read.links \cap X BY <3>3, <3>4, <3>5
    <3>. QED BY <3>4, <3>6, <1>3, <1>6, <1>7, <2>5
  <2>. QED BY <2>3, <2>4, <2>5, <1>10
<1>. QED BY <1>8, <1>9, <1>10, <1>4, <1>2 DEF CallSet

\* A call that commits removes the recommendations it changes the reasons of, or gives them up.
LEMMA CommitRecs == ASSUME KInv, RInv, NEW id \in Callers, Commit(id) PROVE RInv'
<1> DEFINE k == call[id]
           n == k.c.note
           tx == TasksAfter(k.c, k.read, k.new)
           gone == Invalidated(k.c, k.loaded, k.new, tx)
           of == PhotosOf(row[n].links \cup RowOf(k.new).links)
           r == IF k.c.op = "delete" THEN NoRow ELSE Stored(k.loaded, k.new, row[n])
<1>1. /\ k.phase = "saved" /\ row' = [row EXCEPT ![n] = r] /\ rec' = rec \ Touching(gone)
      /\ leak' = (IF n \in raced \/ Leaking(k.c, tx) THEN leak \cup Touching(of) ELSE leak) \ Touching(gone)
      /\ UNCHANGED <<people, shows, found>>
  BY DEF Commit
<1>2. k \in UnderWay BY <1>1, Typed DEF KInv
<1>3. n \in Notes /\ k.new \in MaybeNote BY <1>2 DEF UnderWay, CallSet
<1>4. n \notin raced => r = RowOf(k.new) BY <1>1, CommitRow
<1>5. r.links \subseteq RowOf(k.new).links
  <2>1. CASE k.c.op = "delete" BY <2>1 DEF NoRow
  <2>2. CASE k.c.op # "delete"
    <3>1. k.new # None BY <2>2, <1>1 DEF KInv, Made
    <3>. QED BY <3>1, <2>2 DEF Stored, RowOf
  <2>. QED BY <2>1, <2>2
<1> HIDE DEF r, tx, gone, of
<1>6. row'[n] = r /\ \A m \in Notes : m # n => row'[m] = row[m] BY <1>1, <1>3 DEF KInv, KType
<1>7. RType' BY <1>1 DEF RInv, RType
<1>8. ASSUME NEW x \in rec', x \notin leak' PROVE x \notin leak /\ Why(x.src, x.dst)' = Why(x.src, x.dst)
  <2>1. x \in rec /\ x \notin Touching(gone) BY <1>8, <1>1
  <2>2. x \in Recs BY <2>1 DEF RInv, RType
  <2>3. x.src \in Photos /\ x.dst \in Photos BY <2>2 DEF Recs
  <2>4. x.src \notin gone /\ x.dst \notin gone BY <2>1 DEF Touching
  <2>5. x \notin leak /\ (n \in raced \/ Leaking(k.c, tx) => x \notin Touching(of)) BY <1>8, <2>1, <1>1
  <2>6. ASSUME NEW a \in {x.src, x.dst}
        PROVE  /\ r.links \cap ({a} \cup shows[a]) # {} <=> Counts(n, a)
               /\ Counts(n, a) => r.rels = row[n].rels
    <3>1. a \in Photos /\ a \notin gone BY <2>3, <2>4
    <3>2. CASE n \in raced \/ Leaking(k.c, tx)
      <4>1. a \notin of BY <3>2, <2>1, <2>5 DEF Touching
      <4>2. (row[n].links \cup RowOf(k.new).links) \cap ({a} \cup shows[a]) = {} BY <4>1, <3>1, NotOf DEF of
      <4>. QED BY <4>2, <1>5 DEF Counts
    <3>3. CASE ~(n \in raced \/ Leaking(k.c, tx))
      <4>1. r = RowOf(k.new) BY <3>3, <1>4
      <4>. QED BY <4>1, <3>1, <3>3, <1>1, CallForgets DEF gone, Counts
    <3>. QED BY <3>2, <3>3
  <2>7. \A m \in Notes : \A p \in {x.src, x.dst} :
           /\ Counts(m, p)' <=> Counts(m, p)
           /\ Counts(m, p) => row'[m].rels = row[m].rels
    <3> SUFFICES ASSUME NEW m \in Notes, NEW p \in {x.src, x.dst}
                 PROVE  /\ Counts(m, p)' <=> Counts(m, p)
                        /\ Counts(m, p) => row'[m].rels = row[m].rels
      OBVIOUS
    <3>1. shows' = shows BY <1>1
    <3>2. CASE m = n BY <3>1, <3>2, <1>6, <2>6 DEF Counts
    <3>3. CASE m # n BY <3>1, <3>3, <1>6 DEF Counts
    <3>. QED BY <3>2, <3>3
  <2>8. shows'[x.src] = shows[x.src] /\ shows'[x.dst] = shows[x.dst] BY <1>1
  <2>. QED BY <2>5, <2>7, <2>8, WhyStays
<1>9. rec' \subseteq rec BY <1>1
<1>. QED BY <1>7, <1>8, <1>9, RecsStay

\* A sync gives up the recommendations of the notes whose rows it changes.
LEMMA SyncEndRecs == ASSUME KInv, RInv, SyncEnd PROVE RInv'
<1>1. /\ UNCHANGED <<people, shows, rec, found>>
      /\ leak' = leak \cup Touching(UNION {PhotosOf(row[n].links \cup row'[n].links) : n \in {m \in Notes : row'[m] # row[m]}})
  BY DEF SyncEnd
<1>2. RType' BY <1>1 DEF RInv, RType
<1>3. ASSUME NEW x \in rec', x \notin leak' PROVE x \notin leak /\ Why(x.src, x.dst)' = Why(x.src, x.dst)
  <2>1. x \in rec /\ x \notin leak BY <1>3, <1>1
  <2>2. x \in Recs BY <2>1 DEF RInv, RType
  <2>3. x.src \in Photos /\ x.dst \in Photos BY <2>2 DEF Recs
  <2>4. ASSUME NEW m \in Notes, row'[m] # row[m], NEW p \in {x.src, x.dst}
        PROVE  (row[m].links \cup row'[m].links) \cap ({p} \cup shows[p]) = {}
    <3>1. p \notin PhotosOf(row[m].links \cup row'[m].links)
      <4>1. p \notin UNION {PhotosOf(row[n].links \cup row'[n].links) : n \in {i \in Notes : row'[i] # row[i]}}
        BY <1>1, <1>3, <2>1 DEF Touching
      <4>. QED BY <4>1, <2>4
    <3>. QED BY <3>1, <2>3, NotOf
  <2>5. \A m \in Notes : \A p \in {x.src, x.dst} :
           /\ Counts(m, p)' <=> Counts(m, p)
           /\ Counts(m, p) => row'[m].rels = row[m].rels
    <3> SUFFICES ASSUME NEW m \in Notes, NEW p \in {x.src, x.dst}
                 PROVE  /\ Counts(m, p)' <=> Counts(m, p)
                        /\ Counts(m, p) => row'[m].rels = row[m].rels
      OBVIOUS
    <3>1. shows' = shows BY <1>1
    <3>2. CASE row'[m] = row[m] BY <3>1, <3>2 DEF Counts
    <3>3. CASE row'[m] # row[m] BY <3>1, <3>3, <2>4 DEF Counts
    <3>. QED BY <3>2, <3>3
  <2>6. shows'[x.src] = shows[x.src] /\ shows'[x.dst] = shows[x.dst] BY <1>1
  <2>. QED BY <2>1, <2>5, <2>6, WhyStays
<1>4. rec' \subseteq rec BY <1>1
<1>. QED BY <1>2, <1>3, <1>4, RecsStay

\* A person who goes, and a photo that is given to others, take their recommendations with them.
LEMMA ShownRecs ==
    ASSUME KInv, RInv, UNCHANGED <<row, found>>, people' \subseteq People, shows' \in [Photos -> SUBSET People],
           NEW photos, \A a \in Photos \ photos : shows'[a] = shows[a],
           rec' = rec \ Touching(photos), leak' = leak \cap rec'
    PROVE  RInv'
<1>1. RType' BY DEF RInv, RType
<1>2. ASSUME NEW x \in rec', x \notin leak' PROVE x \notin leak /\ Why(x.src, x.dst)' = Why(x.src, x.dst)
  <2>1. x \in rec /\ x \notin leak /\ x \notin Touching(photos) BY <1>2
  <2>2. x \in Recs BY <2>1 DEF RInv, RType
  <2>3. shows'[x.src] = shows[x.src] /\ shows'[x.dst] = shows[x.dst] BY <2>1, <2>2 DEF Recs, Touching
  <2>4. \A m \in Notes : \A p \in {x.src, x.dst} :
           /\ Counts(m, p)' <=> Counts(m, p)
           /\ Counts(m, p) => row'[m].rels = row[m].rels
    BY <2>3 DEF Counts
  <2>. QED BY <2>1, <2>3, <2>4, WhyStays
<1>. QED BY <1>1, <1>2, RecsStay

\* What a job stores is the truth, or is given up because rows or persons have changed since.
LEMMA StoreRecs == ASSUME RInv, NEW a \in Photos, Store(a) PROVE RInv'
<1>1. /\ found[a] # None /\ rec' = {r \in rec : r.src # a} \cup found[a]
      /\ leak' = (leak \cap rec') \cup (IF found[a] = Computed(a) THEN {} ELSE found[a])
      /\ found' = [found EXCEPT ![a] = None] /\ UNCHANGED <<row, people, shows>>
  BY DEF Store
<1>2. found[a] \subseteq Recs BY <1>1 DEF RInv, RType
<1>3. RType' BY <1>1, <1>2 DEF RInv, RType
<1>4. \A x, y : Why(x, y)' = Why(x, y) BY <1>1 DEF Why, RolesOf, FilmsOf
<1>5. ASSUME NEW x \in rec', x \notin leak' PROVE x.why = Why(x.src, x.dst)
  <2>1. CASE x \in found[a]
    <3>1. found[a] = Computed(a) BY <2>1, <1>1, <1>5
    <3>. QED BY <3>1, <2>1, ComputedTrue
  <2>2. CASE x \notin found[a]
    <3>1. x \in rec /\ x \notin leak BY <2>2, <1>1, <1>5
    <3>. QED BY <3>1 DEF RInv, RecsTrue
  <2>. QED BY <2>1, <2>2
<1>. QED BY <1>3, <1>4, <1>5 DEF RInv, RecsTrue

\* Steps that leave rows, photos and stored recommendations alone.
LEMMA FrameRecs == ASSUME RInv, UNCHANGED <<row, shows, rec, leak>>, RType' PROVE RInv'
<1>1. \A x, y : Why(x, y)' = Why(x, y) BY DEF Why, RolesOf, FilmsOf
<1>. QED BY <1>1 DEF RInv, RecsTrue

\* A step of the knowledge base, whoever takes it.
LEMMA NextRInv == ASSUME KInv, RInv, [Next]_base PROVE RInv'
<1>0. ASSUME UNCHANGED <<row, shows, rec, leak, people, found>> PROVE RInv'
  BY <1>0, FrameRecs DEF RInv, RType
<1>1. CASE UNCHANGED base BY <1>1, <1>0 DEF base, ghosts
<1>2. CASE Next
  <2>1. ASSUME NEW id \in Callers, Call(id) \/ Save(id) \/ Refused(id) PROVE RInv'
    BY <2>1, <1>0 DEF Call, Save, Refused, ghosts
  <2>2. ASSUME NEW id \in Callers, Commit(id) PROVE RInv' BY <2>2, CommitRecs
  <2>3. ASSUME NEW mode \in {"rebuild", "reconcile"}, SyncStart(mode) PROVE RInv'
    BY <2>3, <1>0 DEF SyncStart
  <2>4. ASSUME SyncEnd PROVE RInv' BY <2>4, SyncEndRecs
  <2>5. ASSUME NEW n \in Notes, HandEdit(n) PROVE RInv' BY <2>5, <1>0 DEF HandEdit
  <2>6. ASSUME NEW p \in People, NamePerson(p) PROVE RInv'
    <3>1. people' \subseteq People /\ UNCHANGED <<row, shows, rec, leak, found>>
      BY <2>6 DEF NamePerson, ghosts, RInv, RType
    <3>2. RType' BY <3>1 DEF RInv, RType
    <3>. QED BY <3>1, <3>2, FrameRecs
  <2>7. ASSUME NEW p \in People, PersonGone(p) PROVE RInv'
    <3>1. /\ people' = people \ {p} /\ shows' = [a \in Photos |-> shows[a] \ {p}] /\ UNCHANGED <<row, found>>
          /\ rec' = rec \ Touching({a \in Photos : p \in shows[a]}) /\ leak' = leak \cap rec'
      BY <2>7 DEF PersonGone
    <3>2. people' \subseteq People /\ shows' \in [Photos -> SUBSET People] BY <3>1 DEF RInv, RType
    <3>3. \A a \in Photos \ {b \in Photos : p \in shows[b]} : shows'[a] = shows[a] BY <3>1
    <3>. QED BY <3>1, <3>2, <3>3, ShownRecs
  <2>8. ASSUME NEW p \in People, NEW id \in Callers, DeletePerson(id, p) PROVE RInv'
    BY <2>8, <1>0 DEF DeletePerson
  <2>9. ASSUME NEW a \in Photos, Reassign(a) PROVE RInv'
    <3>1. PICK ps \in SUBSET people : shows' = [shows EXCEPT ![a] = ps] BY <2>9 DEF Reassign
    <3>2. /\ UNCHANGED <<row, found, people>> /\ rec' = rec \ Touching({a}) /\ leak' = leak \cap rec'
      BY <2>9 DEF Reassign
    <3>3. people' \subseteq People /\ shows' \in [Photos -> SUBSET People] BY <3>1, <3>2 DEF RInv, RType
    <3>4. \A b \in Photos \ {a} : shows'[b] = shows[b] BY <3>1 DEF RInv, RType
    <3>. QED BY <3>2, <3>3, <3>4, ShownRecs
  <2>10. ASSUME NEW a \in Photos, Compute(a) PROVE RInv'
    <3>1. found' = [found EXCEPT ![a] = Computed(a)] /\ UNCHANGED <<row, people, shows, rec, leak>>
      BY <2>10 DEF Compute, ghosts
    <3>2. RType' BY <3>1, ComputedTrue DEF RInv, RType
    <3>. QED BY <3>1, <3>2, FrameRecs
  <2>11. ASSUME NEW a \in Photos, Store(a) PROVE RInv' BY <2>11, StoreRecs
  <2>12. ASSUME NEW t \in tasks, CloseTask(t) PROVE RInv' BY <2>12, <1>0 DEF CloseTask
  <2>13. CASE Crash
    <3>1. found' = [a \in Photos |-> None] /\ UNCHANGED <<row, people, shows, rec, leak>> BY <2>13 DEF Crash
    <3>2. RType' BY <3>1 DEF RInv, RType
    <3>. QED BY <3>1, <3>2, FrameRecs
  <2>14. ASSUME NEW n \in Notes, Open(n) \/ SyncRead(n) PROVE RInv' BY <2>14, <1>0 DEF Open, SyncRead, ghosts
  <2>15. CASE Look \/ SyncFails BY <2>15, <1>0 DEF Look, SyncFails, ghosts
  <2>. QED BY <1>2, <2>1, <2>2, <2>3, <2>4, <2>5, <2>6, <2>7, <2>8, <2>9, <2>10, <2>11, <2>12, <2>13, <2>14, <2>15
           DEF Next, Step
<1>. QED BY <1>1, <1>2

\* Every stored recommendation gives the reasons that hold now, unless one of the calls that invalidate
\* nothing, an overlap, a sync, or a job overtaken while it computed has given it up
\* (recommendation/, service.py, recommendation_job.py).
THEOREM RecommendationsTrue == CSpec => []RecsTrue
<1>1. CInit => RInv
  <2> SUFFICES ASSUME Init PROVE RInv
    BY DEF CInit
  <2>1. PICK w \in Worlds : people = w.people /\ shows = w.shows BY DEF Init
  <2>2. rec = {} /\ found = [a \in Photos |-> None] BY DEF Init
  <2>3. RType BY <2>1, <2>2, WorldsAssumption DEF WorldsAssumption, RType
  <2>. QED BY <2>2, <2>3 DEF RInv, RecsTrue
<1>2. KInv /\ RInv /\ [CNext]_<<vars, curated>> => RInv' BY CNextIsNext, NextRInv
<1>3. RInv => RecsTrue BY DEF RInv
<1>. QED BY <1>1, <1>2, <1>3, CacheInvariant, PTL DEF CSpec

(***************************************************************************)
(* Tasks                                                                    *)
(***************************************************************************)
Listing == {"missing", "low"}
Mine(t, n) == t.kind \in Listing /\ t.note = n
MissingTask(n, attrs) == [kind |-> "missing", note |-> n, about |-> Missing(attrs)]
LowTask(n, attrs) == [kind |-> "low", note |-> n, about |-> 1..Cardinality(Fields \ Missing(attrs))]

\* A session is a record of its four parts.
IsTx(tx) == \E o, d, f, e : tx = [open |-> o, done |-> d, flushed |-> f, fails |-> e]

\* A session opened on a set of tasks.
LEMMA TxFresh == ASSUME NEW s PROVE IsTx(Fresh(s)) /\ Standing(Fresh(s)) = s
BY DEF IsTx, Fresh, Standing

\* A flush leaves what is going to stand.
LEMMA TxFlushed ==
    ASSUME NEW tx, IsTx(tx)
    PROVE  /\ IsTx(Flushed(tx)) /\ Flushed(tx).done = {} /\ Flushed(tx).open = Standing(tx)
           /\ Standing(Flushed(tx)) = Standing(tx)
<1>1. PICK to, td, tf, te : tx = [open |-> to, done |-> td, flushed |-> tf, fails |-> te] BY DEF IsTx
<1>2. Flushed(tx) = [tx EXCEPT !.open = to \ td, !.done = {}, !.flushed = TRUE] BY <1>1 DEF Flushed
<1>3. ASSUME NEW o, NEW d, NEW b, NEW new, new = [tx EXCEPT !.open = o, !.done = d, !.flushed = b]
      PROVE  new = [open |-> o, done |-> d, flushed |-> b, fails |-> te]
  BY <1>1, <1>3
<1>4. Flushed(tx) = [open |-> to \ td, done |-> {}, flushed |-> TRUE, fails |-> te] BY <1>2, <1>3
<1>5. IsTx(Flushed(tx)) BY <1>4, Zenon DEF IsTx
<1>6. Flushed(tx).done = {} /\ Flushed(tx).open = to \ td BY <1>4
<1>. QED BY <1>1, <1>5, <1>6 DEF Standing

\* A resolved task stands no longer.
LEMMA TxResolved ==
    ASSUME NEW tx, IsTx(tx), NEW kind, NEW n
    PROVE  /\ IsTx(Resolved(tx, kind, n))
           /\ Standing(Resolved(tx, kind, n)) = {t \in Standing(tx) : ~(t.kind = kind /\ t.note = n)}
<1> DEFINE old == {t \in tx.open : t.kind = kind /\ t.note = n}
           d == tx.done \cup old
           f == tx.fails \/ old \cap tx.done # {}
<1>1. Resolved(tx, kind, n) = [tx EXCEPT !.done = d, !.fails = f] BY DEF Resolved
<1>2. Standing(tx) \ old = {t \in Standing(tx) : ~(t.kind = kind /\ t.note = n)} BY DEF Standing
<1>3. tx.open \ d = Standing(tx) \ old BY DEF Standing
<1> HIDE DEF f, d, old
<1>4. /\ IsTx(Resolved(tx, kind, n)) /\ Resolved(tx, kind, n).open = tx.open
      /\ Resolved(tx, kind, n).done = d
  <2>1. PICK to, td, tf, te : tx = [open |-> to, done |-> td, flushed |-> tf, fails |-> te] BY DEF IsTx
  <2>2. Resolved(tx, kind, n) = [open |-> to, done |-> d, flushed |-> tf, fails |-> f] BY <1>1, <2>1
  <2>3. IsTx(Resolved(tx, kind, n)) BY <2>2, Zenon DEF IsTx
  <2>. QED BY <2>1, <2>2, <2>3
<1>. QED BY <1>2, <1>3, <1>4 DEF Standing

\* A task that is created is the only new one.
LEMMA TxCreated ==
    ASSUME NEW tx, IsTx(tx), NEW kind, NEW n, NEW about
    PROVE  /\ IsTx(Created(tx, kind, n, about))
           /\ Standing(Created(tx, kind, n, about)) \subseteq
                 Standing(tx) \cup {[kind |-> kind, note |-> n, about |-> about]}
<1> DEFINE task == [kind |-> kind, note |-> n, about |-> about]
           fl == Flushed(tx)
<1>1. CASE task \in tx.open BY <1>1 DEF Created
<1>2. CASE task \notin tx.open
  <2>1. IsTx(fl) /\ fl.done = {} /\ fl.open = Standing(tx) BY TxFlushed
  <2>2. Created(tx, kind, n, about) = [fl EXCEPT !.open = @ \cup {task}] BY <1>2 DEF Created
  <2> HIDE DEF fl, task
  <2>3. PICK to, td, tf, te : fl = [open |-> to, done |-> td, flushed |-> tf, fails |-> te] BY <2>1 DEF IsTx
  <2>4. Created(tx, kind, n, about) = [open |-> to \cup {task}, done |-> td, flushed |-> tf, fails |-> te]
    BY <2>2, <2>3
  <2>5. to = Standing(tx) /\ td = {} BY <2>1, <2>3
  <2>6. Standing(Created(tx, kind, n, about)) \subseteq Standing(tx) \cup {task} BY <2>4, <2>5 DEF Standing
  <2>. QED BY <2>4, <2>6 DEF task, IsTx
<1>. QED BY <1>1, <1>2

\* A refresh leaves of the note's listing tasks those it has made, and of the others no more than before.
LEMMA TxRefreshed ==
    ASSUME NEW tx, IsTx(tx), NEW n, NEW attrs
    PROVE  /\ IsTx(Refreshed(tx, n, attrs))
           /\ \A t \in Standing(Refreshed(tx, n, attrs)) :
                 (t \in Standing(tx) /\ ~Mine(t, n)) \/ t = MissingTask(n, attrs) \/ t = LowTask(n, attrs)
<1> DEFINE missing == Resolved(tx, "missing", n)
           lacking == IF Missing(attrs) = {} THEN missing ELSE Created(missing, "missing", n, Missing(attrs))
           low     == Resolved(lacking, "low", n)
           end     == IF Low(attrs) THEN Created(low, "low", n, 1..Cardinality(Fields \ Missing(attrs))) ELSE low
<1>1. Refreshed(tx, n, attrs) = end BY DEF Refreshed
<1>2. IsTx(missing) /\ \A t \in Standing(missing) : t \in Standing(tx) /\ ~(t.kind = "missing" /\ t.note = n)
  BY TxResolved
<1> HIDE DEF missing
<1>3. IsTx(lacking) /\ \A t \in Standing(lacking) : t \in Standing(missing) \/ t = MissingTask(n, attrs)
  <2>1. CASE Missing(attrs) = {} BY <2>1, <1>2
  <2>2. CASE Missing(attrs) # {}
    <3>1. lacking = Created(missing, "missing", n, Missing(attrs)) BY <2>2
    <3>. QED BY <3>1, <1>2, TxCreated DEF MissingTask
  <2>. QED BY <2>1, <2>2
<1> HIDE DEF lacking
<1>4. IsTx(low) /\ \A t \in Standing(low) : t \in Standing(lacking) /\ ~(t.kind = "low" /\ t.note = n)
  BY <1>3, TxResolved
<1> HIDE DEF low
<1>5. IsTx(end) /\ \A t \in Standing(end) : t \in Standing(low) \/ t = LowTask(n, attrs)
  <2>1. CASE ~Low(attrs) BY <2>1, <1>4
  <2>2. CASE Low(attrs)
    <3>1. end = Created(low, "low", n, 1..Cardinality(Fields \ Missing(attrs))) BY <2>2
    <3>. QED BY <3>1, <1>4, TxCreated DEF LowTask
  <2>. QED BY <2>1, <2>2
<1> HIDE DEF end
<1>. QED BY <1>1, <1>2, <1>3, <1>4, <1>5 DEF Mine, Listing

\* Linking makes and resolves tasks of its own kind.
LEMMA TxLinked ==
    ASSUME NEW tx, IsTx(tx), NEW rows, NEW named
    PROVE  \A t \in Standing(AutoLinked(tx, rows, named)) : t \in Standing(tx) \/ t.kind = "link"
<1> DEFINE alone   == {n \in private : rows[n].here /\ rows[n].links \cap People = {}}
           free    == {p \in named : \A n \in Notes : p \notin rows[n].links}
           Best(n) == {p \in free : <<n, p>> \in Alike}
           old     == {t \in tx.open : t.kind = "link" /\ t.note \in alone}
           new     == {[kind |-> "link", note |-> n, about |-> {CHOOSE p \in Best(n) : TRUE}] :
                          n \in {m \in alone : Best(m) # {}}}
           d       == tx.done \cup old
           f       == tx.fails \/ old \cap tx.done # {}
<1>1. AutoLinked(tx, rows, named) = [tx EXCEPT !.open = @ \cup new, !.done = @ \cup old, !.fails = @ \/ old \cap tx.done # {}]
  BY DEF AutoLinked
<1>2. \A t \in new : t.kind = "link" OBVIOUS
<1>3. AutoLinked(tx, rows, named) = [tx EXCEPT !.open = tx.open \cup new, !.done = d, !.fails = f] BY <1>1
<1>4. tx.done \subseteq d OBVIOUS
<1> HIDE DEF new, d, f
<1>5. AutoLinked(tx, rows, named).open = tx.open \cup new /\ AutoLinked(tx, rows, named).done = d
  <2>1. PICK to, td, tf, te : tx = [open |-> to, done |-> td, flushed |-> tf, fails |-> te] BY DEF IsTx
  <2>2. AutoLinked(tx, rows, named) = [open |-> tx.open \cup new, done |-> d, flushed |-> tf, fails |-> f]
    BY <1>3, <2>1
  <2>. QED BY <2>2
<1>. QED BY <1>2, <1>4, <1>5 DEF Standing

\* What discovery leaves: of the note's own tasks the last refresh's.
LEMMA TxFacts ==
    ASSUME NEW c, NEW read, NEW new
    PROVE  \A t \in Standing(FactTasks(c, read, new)) :
              \/ t \in tasks /\ ~Mine(t, c.note)
              \/ t = MissingTask(c.note, new.attrs) \/ t = LowTask(c.note, new.attrs)
<1> DEFINE n       == c.note
           updates == c.what # "none" /\ CanOverwrite(Web, read.owner)
           first   == Refreshed(Session, n, read.attrs)
           text    == IF updates THEN FlushedIf(c.what = "text", first) ELSE Session
           written == \E f \in c.arg : CanOverwrite(Web, read.attrs[f])
           second  == Refreshed(text, n, new.attrs)
           fields  == IF c.arg = {} THEN text ELSE FlushedIf(written, second)
           Others(tx) == IsTx(tx) /\ \A t \in Standing(tx) : t \in tasks \/ Mine(t, n)
<1>1. FactTasks(c, read, new) = Refreshed(fields, n, new.attrs) BY DEF FactTasks
<1>2. Others(Session) BY TxFresh DEF Session
<1>3. ASSUME NEW tx, Others(tx), NEW attrs PROVE Others(Refreshed(tx, n, attrs))
  <2>1. Mine(MissingTask(n, attrs), n) /\ Mine(LowTask(n, attrs), n) BY DEF Mine, MissingTask, LowTask, Listing
  <2>. QED BY <1>3, <2>1, TxRefreshed
<1>4. ASSUME NEW tx, Others(tx), NEW cond PROVE Others(FlushedIf(cond, tx))
  <2>1. FlushedIf(cond, tx) \in {tx, Flushed(tx)} BY DEF FlushedIf
  <2>. QED BY <1>4, <2>1, TxFlushed
<1> HIDE DEF Others
<1>5. Others(first) BY <1>2, <1>3
<1> HIDE DEF first
<1>6. Others(text)
  <2>1. CASE updates
    <3>1. text = FlushedIf(c.what = "text", first) BY <2>1
    <3>. QED BY <3>1, <1>5, <1>4
  <2>2. CASE ~updates
    <3>1. text = Session BY <2>2
    <3>. QED BY <3>1, <1>2
  <2>. QED BY <2>1, <2>2
<1> HIDE DEF text
<1>7. Others(second) BY <1>6, <1>3
<1> HIDE DEF second, written
<1>8. Others(fields)
  <2>1. CASE c.arg = {}
    <3>1. fields = text BY <2>1
    <3>. QED BY <3>1, <1>6
  <2>2. CASE c.arg # {}
    <3>1. fields = FlushedIf(written, second) BY <2>2
    <3>. QED BY <3>1, <1>7, <1>4
  <2>. QED BY <2>1, <2>2
<1> HIDE DEF fields
<1>9. IsTx(fields) /\ \A t \in Standing(fields) : t \in tasks \/ Mine(t, n) BY <1>8 DEF Others
<1>. QED BY <1>1, <1>9, TxRefreshed

Refreshes(c) == c.op \in {"create", "put", "facts", "suggest"}

\* What a call leaves of listing tasks: a refresh those it has made of its note, and every call no more
\* than there were of other notes, or of its own if it does not refresh.
LEMMA TxAfter ==
    ASSUME NEW c \in CallSet, NEW read, NEW new, NEW t \in Standing(TasksAfter(c, read, new)), t.kind \in Listing
    PROVE  \/ t \in tasks /\ (t.note = c.note => ~Refreshes(c))
           \/ Refreshes(c) /\ (t = MissingTask(c.note, new.attrs) \/ t = LowTask(c.note, new.attrs))
<1> DEFINE n  == c.note
           tx == CASE c.op = "create"          -> Refreshed(Flagged(Session, n, new), n, new.attrs)
                   [] c.op \in {"put", "suggest"} -> Refreshed(Session, n, new.attrs)
                   [] c.op = "facts"           -> FactTasks(c, read, new)
                   [] OTHER                    -> Session
           links == c.op = "create" \/ (c.op = "drop" /\ c.arg \cap People # {})
           Fine(x) == x.kind \in Listing =>
                         \/ x \in tasks /\ (x.note = n => ~Refreshes(c))
                         \/ Refreshes(c) /\ (x = MissingTask(n, new.attrs) \/ x = LowTask(n, new.attrs))
<1>1. TasksAfter(c, read, new) = IF links THEN AutoLinked(tx, Seen(tx, n, new), people) ELSE tx BY DEF TasksAfter
<1>2. IsTx(Session) /\ Standing(Session) = tasks BY TxFresh DEF Session
<1>3. \A x \in Standing(tx) : Fine(x)
  <2>1. CASE c.op = "create"
    <3>1. tx = Refreshed(Flagged(Session, n, new), n, new.attrs) BY <2>1, Zenon
    <3>2. IsTx(Flagged(Session, n, new))
          /\ \A x \in Standing(Flagged(Session, n, new)) : x \in tasks \/ x.kind \notin Listing
      <4>1. CASE new.text \/ new.rels # {} BY <4>1, <1>2 DEF Flagged
      <4>2. CASE ~(new.text \/ new.rels # {})
        <5>1. Flagged(Session, n, new) = Created(Session, "incomplete", n, {}) BY <4>2 DEF Flagged
        <5>2. [kind |-> "incomplete", note |-> n, about |-> {}].kind \notin Listing BY DEF Listing
        <5>. QED BY <5>1, <5>2, <1>2, TxCreated
      <4>. QED BY <4>1, <4>2
    <3> HIDE DEF tx
    <3>. QED BY <3>1, <3>2, <2>1, TxRefreshed DEF Mine, Refreshes
  <2>2. CASE c.op \in {"put", "suggest"}
    <3>1. tx = Refreshed(Session, n, new.attrs) BY <2>2, Zenon
    <3> HIDE DEF tx
    <3>. QED BY <3>1, <2>2, <1>2, TxRefreshed DEF Mine, Refreshes
  <2>3. CASE c.op = "facts"
    <3>1. tx = FactTasks(c, read, new) BY <2>3, Zenon
    <3> HIDE DEF tx
    <3>. QED BY <3>1, <2>3, TxFacts DEF Mine, Refreshes
  <2>4. CASE ~Refreshes(c)
    <3>1. c.op # "create" /\ c.op \notin {"put", "suggest"} /\ c.op # "facts" BY <2>4 DEF Refreshes
    <3>2. tx = Session BY <3>1, Zenon
    <3> HIDE DEF tx
    <3>. QED BY <3>2, <2>4, <1>2
  <2>. QED BY <2>1, <2>2, <2>3, <2>4 DEF Refreshes
<1>4. IsTx(tx) \/ ~links
  <2>1. CASE c.op = "create"
    <3>1. tx = Refreshed(Flagged(Session, n, new), n, new.attrs) BY <2>1, Zenon
    <3>2. IsTx(Flagged(Session, n, new)) BY <1>2, TxCreated DEF Flagged
    <3> HIDE DEF tx
    <3>. QED BY <3>1, <3>2, TxRefreshed
  <2>2. CASE c.op = "drop"
    <3>1. tx = Session BY <2>2, Zenon
    <3> HIDE DEF tx
    <3>. QED BY <3>1, <1>2
  <2>. QED BY <2>1, <2>2
<1> HIDE DEF tx
<1>5. Fine(t)
  <2>1. CASE links
    <3>1. t \in Standing(AutoLinked(tx, Seen(tx, n, new), people)) BY <2>1, <1>1
    <3>2. t \in Standing(tx) \/ t.kind = "link" BY <3>1, <2>1, <1>4, TxLinked
    <3>. QED BY <3>2, <1>3 DEF Listing
  <2>2. CASE ~links BY <2>2, <1>1, <1>3
  <2>. QED BY <2>1, <2>2
<1>. QED BY <1>5

\* The listing tasks of notes that nothing has put in doubt: one of a kind for a note, and what they
\* list is what the row of the note lacks, while a call has the note under way as well.
Sure(s) == s.kind \in Listing /\ s.note \notin unread /\ row[s.note].here
TInv ==
    /\ raced \subseteq unread
    /\ \A s \in tasks : s.kind \in Listing => s.note \in Notes
    /\ \A s \in tasks : Sure(s) =>
          /\ \A t \in tasks : s.kind = t.kind /\ s.note = t.note => s = t
          /\ s.kind = "missing" => s.about = Missing(row[s.note].attrs)

\* Steps that change no row without putting its note in doubt, and make no listing task.
LEMMA TasksStay ==
    ASSUME TInv, raced' \subseteq unread', unread \subseteq unread',
           \A n \in Notes : n \in unread' \/ row'[n] = row[n],
           \A t \in tasks' : t.kind \in Listing => t \in tasks
    PROVE  TInv'
<1>1. \A s \in tasks' : s.kind \in Listing => s.note \in Notes BY DEF TInv
<1>2. ASSUME NEW s \in tasks', s.kind \in Listing, s.note \notin unread', row'[s.note].here
      PROVE  /\ \A t \in tasks' : s.kind = t.kind /\ s.note = t.note => s = t
             /\ s.kind = "missing" => s.about = Missing(row'[s.note].attrs)
  <2>1. s \in tasks /\ s.note \in Notes BY <1>2 DEF TInv
  <2>2. row'[s.note] = row[s.note] BY <1>2, <2>1
  <2>3. Sure(s) BY <1>2, <2>2 DEF Sure
  <2>4. \A t \in tasks' : s.kind = t.kind => t \in tasks BY <1>2
  <2>. QED BY <2>1, <2>2, <2>3, <2>4 DEF TInv
<1>. QED BY <1>1, <1>2 DEF TInv, Sure

\* A call that commits.
LEMMA CommitTasks == ASSUME KInv, TInv, NEW id \in Callers, Commit(id) PROVE TInv'
<1> DEFINE k == call[id]
           c == k.c
           n == c.note
           tx == TasksAfter(c, k.read, k.new)
           r == IF c.op = "delete" THEN NoRow ELSE Stored(k.loaded, k.new, row[n])
<1>1. /\ k.phase = "saved" /\ row' = [row EXCEPT ![n] = r] /\ tasks' = Standing(tx) /\ raced' = raced
      /\ unread' = IF Refreshes(c) /\ n \notin raced THEN unread \ {n} ELSE unread
  BY DEF Commit, Refreshes
<1>2. k \in UnderWay BY <1>1, Typed DEF KInv
<1>3. n \in Notes /\ c \in CallSet BY <1>2 DEF UnderWay, CallSet
<1>4. n \notin raced => r = RowOf(k.new) BY <1>1, CommitRow
<1>5. \A t \in tasks' : t.kind \in Listing =>
         \/ t \in tasks /\ (t.note = n => ~Refreshes(c))
         \/ Refreshes(c) /\ (t = MissingTask(n, k.new.attrs) \/ t = LowTask(n, k.new.attrs))
  BY <1>1, <1>3, TxAfter
<1> HIDE DEF r, tx, c
<1>6. row'[n] = r /\ \A m \in Notes : m # n => row'[m] = row[m] BY <1>1, <1>3 DEF KInv, KType
<1>7. raced' \subseteq unread' BY <1>1 DEF TInv
<1>8. \A s \in tasks' : s.kind \in Listing => s.note \in Notes
  BY <1>5, <1>3 DEF TInv, MissingTask, LowTask
<1>9. ASSUME NEW s \in tasks', s.kind \in Listing, s.note \notin unread', row'[s.note].here
      PROVE  /\ \A t \in tasks' : s.kind = t.kind /\ s.note = t.note => s = t
             /\ s.kind = "missing" => s.about = Missing(row'[s.note].attrs)
  <2>1. CASE s.note # n
    <3>1. \A t \in tasks' : t.kind \in Listing /\ t.note # n => t \in tasks
      BY <1>5 DEF MissingTask, LowTask
    <3>2. s \in tasks /\ s.note \notin unread /\ s.note \in Notes BY <3>1, <2>1, <1>9, <1>1, <1>8
    <3>3. row'[s.note] = row[s.note] BY <3>2, <2>1, <1>6
    <3>4. Sure(s) BY <3>2, <3>3, <1>9 DEF Sure
    <3>5. \A t \in tasks' : s.kind = t.kind /\ s.note = t.note => t \in tasks BY <3>1, <2>1, <1>9
    <3>. QED BY <3>2, <3>3, <3>4, <3>5 DEF TInv
  <2>2. CASE s.note = n /\ Refreshes(c)
    <3>1. \A t \in tasks' : t.kind \in Listing /\ t.note = n =>
             t = MissingTask(n, k.new.attrs) \/ t = LowTask(n, k.new.attrs)
      BY <2>2, <1>5
    <3>2. n \notin raced BY <2>2, <1>9, <1>7, <1>1
    <3>3. k.new # None
      <4>1. c.op # "delete" BY <2>2 DEF Refreshes
      <4>. QED BY <4>1, <1>1 DEF KInv, Made, c
    <3>4. row'[n].attrs = k.new.attrs BY <3>2, <3>3, <1>4, <1>6 DEF RowOf
    <3>5. s = MissingTask(n, k.new.attrs) \/ s = LowTask(n, k.new.attrs) BY <3>1, <2>2, <1>9
    <3>6. \A t \in tasks' : s.kind = t.kind /\ s.note = t.note => s = t
      BY <3>1, <3>5, <1>9, <2>2 DEF MissingTask, LowTask
    <3>7. s.kind = "missing" => s.about = Missing(row'[s.note].attrs)
      BY <3>4, <3>5, <2>2 DEF MissingTask, LowTask
    <3>. QED BY <3>6, <3>7
  <2>3. CASE s.note = n /\ ~Refreshes(c)
    <3>1. \A t \in tasks' : t.kind \in Listing /\ t.note = n => t \in tasks BY <2>3, <1>5
    <3>2. n \notin unread /\ n \notin raced BY <2>3, <1>9, <1>1 DEF TInv
    <3>3. row'[n] = RowOf(k.new) BY <3>2, <1>4, <1>6
    <3>4. k.new # None BY <3>3, <2>3, <1>9 DEF RowOf, NoRow
    <3>5. c.op # "delete" /\ c.op # "create" /\ c.op # "facts"
      BY <3>4, <2>3, <1>1 DEF KInv, Made, Refreshes, c
    <3>6. k.read # None /\ k.new = Content(c, k.read) /\ k.read \in NoteSet
      BY <3>5, <1>1, <1>2 DEF KInv, Made, UnderWay, MaybeNote, c
    <3>7. k.new = Rewritten(c, k.read) BY <3>5, <3>6, <1>3, ContentCases
    <3>8. k.new.attrs = k.read.attrs BY <3>7, <3>6, <1>3, RewrittenTyped
    <3>9. row[n] \in {RowOf(k.read), RowOf(k.new)} BY <3>2, <3>5, <1>1 DEF KInv, Behind, c
    <3>10. row[n].here /\ row[n].attrs = row'[n].attrs BY <3>3, <3>4, <3>6, <3>8, <3>9 DEF RowOf
    <3>11. s \in tasks /\ Sure(s) BY <3>1, <3>2, <3>10, <2>3, <1>9 DEF Sure
    <3>12. \A t \in tasks' : s.kind = t.kind /\ s.note = t.note => t \in tasks BY <3>1, <2>3, <1>9
    <3>. QED BY <3>10, <3>11, <3>12, <2>3 DEF TInv
  <2>. QED BY <2>1, <2>2, <2>3
<1>. QED BY <1>7, <1>8, <1>9 DEF TInv, Sure

\* A step of the knowledge base, whoever takes it.
LEMMA NextTInv == ASSUME KInv, TInv, [Next]_base PROVE TInv'
<1>0. ASSUME UNCHANGED <<row, tasks>>, raced' \subseteq unread', unread \subseteq unread' PROVE TInv'
  BY <1>0, TasksStay
<1>00. raced \subseteq unread BY DEF TInv
<1>1. CASE UNCHANGED base BY <1>1, <1>0, <1>00 DEF base, ghosts
<1>2. CASE Next
  <2>0. ASSUME NEW id, NEW c, Read(id, c) PROVE raced' \subseteq unread' /\ unread \subseteq unread'
    <3>1. /\ raced' = (IF Busy(c.note) = {} THEN raced ELSE raced \cup {c.note})
          /\ unread' = (IF Busy(c.note) = {} THEN unread ELSE unread \cup {c.note})
      BY <2>0 DEF Read
    <3>2. CASE Busy(c.note) = {} BY <3>1, <3>2, <1>00
    <3>3. CASE Busy(c.note) # {}
      <4>1. raced' = raced \cup {c.note} /\ unread' = unread \cup {c.note} BY <3>1, <3>3
      <4>. QED BY <4>1, <1>00
    <3>. QED BY <3>2, <3>3
  <2>1. ASSUME NEW id \in Callers, Call(id) PROVE TInv'
    <3>1. UNCHANGED <<row, tasks>> BY <2>1 DEF Call
    <3>. QED BY <3>1, <2>1, <2>0, <1>0 DEF Call
  <2>2. ASSUME NEW id \in Callers, Save(id) PROVE TInv' BY <2>2, <1>0, <1>00 DEF Save, ghosts
  <2>3. ASSUME NEW id \in Callers, Commit(id) PROVE TInv' BY <2>3, CommitTasks
  <2>4. ASSUME NEW id \in Callers, Refused(id) PROVE TInv'
    <3>1. raced' = raced \cup {call[id].c.note} /\ unread' = unread \cup {call[id].c.note} /\ UNCHANGED <<row, tasks>>
      BY <2>4 DEF Refused
    <3>. QED BY <3>1, <1>0, <1>00
  <2>5. ASSUME NEW mode \in {"rebuild", "reconcile"}, SyncStart(mode) PROVE TInv'
    <3>1. UNCHANGED <<row, tasks>> /\ \E late : raced' = raced \cup late /\ unread' = unread \cup late
      <4>1. ASSUME UNCHANGED <<raced, unread>> PROVE raced' = raced \cup {} /\ unread' = unread \cup {}
        BY <4>1
      <4>. QED BY <2>5, <4>1, Zenon DEF SyncStart
    <3>. QED BY <3>1, <1>0, <1>00
  <2>6. ASSUME SyncEnd PROVE TInv'
    <3>1. /\ raced' \subseteq raced /\ unread' = unread \cup {n \in Notes : row'[n] # row[n]} /\ tasks' = tasks
      BY <2>6 DEF SyncEnd
    <3>. QED BY <3>1, <1>00, TasksStay
  <2>7. ASSUME NEW n \in Notes, HandEdit(n) PROVE TInv'
    <3>1. raced' = raced \cup {n} /\ unread' = unread \cup {n} /\ UNCHANGED <<row, tasks>> BY <2>7 DEF HandEdit
    <3>. QED BY <3>1, <1>0, <1>00
  <2>8. ASSUME NEW p \in People, NamePerson(p) PROVE TInv'
    <3>1. tasks' = Standing(AutoLinked(Session, row, people \cup {p})) /\ UNCHANGED <<row, raced, unread>>
      BY <2>8 DEF NamePerson, ghosts
    <3>2. IsTx(Session) /\ Standing(Session) = tasks BY TxFresh DEF Session
    <3>3. \A t \in tasks' : t \in tasks \/ t.kind = "link" BY <3>1, <3>2, TxLinked
    <3>. QED BY <3>1, <3>3, <1>00, TasksStay DEF Listing
  <2>9. ASSUME NEW p \in People, NEW id \in Callers, DeletePerson(id, p) PROVE TInv'
    <3>1. UNCHANGED <<row, tasks>> BY <2>9 DEF DeletePerson
    <3>2. CASE UNCHANGED <<call, raced, unread>> BY <3>1, <3>2, <1>0, <1>00
    <3>3. CASE \E n \in Notes : Read(id, [op |-> "orphan", what |-> "links", note |-> n, by |-> User,
                                          arg |-> {p}, text |-> FALSE, job |-> FALSE])
      BY <3>1, <3>3, <2>0, <1>0
    <3>. QED BY <2>9, <3>2, <3>3 DEF DeletePerson
  <2>10. ASSUME NEW p \in People, PersonGone(p) PROVE TInv' BY <2>10, <1>0, <1>00 DEF PersonGone
  <2>11. ASSUME NEW a \in Photos, Reassign(a) \/ Compute(a) \/ Store(a) PROVE TInv'
    BY <2>11, <1>0, <1>00 DEF Reassign, Compute, Store, ghosts
  <2>12. ASSUME NEW t \in tasks, CloseTask(t) PROVE TInv'
    <3>1. tasks' = tasks \ {t} /\ unread' = unread \cup {t.note} /\ UNCHANGED <<row, raced>> BY <2>12 DEF CloseTask
    <3>. QED BY <3>1, <1>00, TasksStay
  <2>13. CASE Crash
    <3>1. PICK cut : raced' = raced \cup cut /\ unread' = unread \cup cut BY <2>13 DEF Crash
    <3>2. UNCHANGED <<row, tasks>> BY <2>13 DEF Crash
    <3>. QED BY <3>1, <3>2, <1>0, <1>00
  <2>14. ASSUME NEW n \in Notes, Open(n) \/ SyncRead(n) PROVE TInv'
    BY <2>14, <1>0, <1>00 DEF Open, SyncRead, ghosts
  <2>15. CASE Look \/ SyncFails BY <2>15, <1>0, <1>00 DEF Look, SyncFails, ghosts
  <2>. QED BY <1>2, <2>1, <2>2, <2>3, <2>4, <2>5, <2>6, <2>7, <2>8, <2>9, <2>10, <2>11, <2>12, <2>13, <2>14, <2>15
           DEF Next, Step
<1>. QED BY <1>1, <1>2

\* At the start every note has the tasks of its first refresh.
LEMMA InitTInv == Init => TInv
<1> SUFFICES ASSUME Init PROVE TInv
  OBVIOUS
<1>1. PICK w \in Worlds :
         /\ file = w.file /\ row = [n \in Notes |-> RowOf(w.file[n])] /\ raced = {}
         /\ tasks = UNION {Standing(Refreshed(Fresh({}), n, w.file[n].attrs)) : n \in {m \in Notes : w.file[m] # None}}
  BY DEF Init
<1>2. ASSUME NEW s \in tasks
      PROVE  \E n \in Notes : w.file[n] # None /\ (s = MissingTask(n, w.file[n].attrs) \/ s = LowTask(n, w.file[n].attrs))
  <2>1. PICK n \in Notes : w.file[n] # None /\ s \in Standing(Refreshed(Fresh({}), n, w.file[n].attrs)) BY <1>1
  <2>2. IsTx(Fresh({})) /\ Standing(Fresh({})) = {} BY TxFresh
  <2>. QED BY <2>1, <2>2, TxRefreshed
<1>3. ASSUME NEW s \in tasks
      PROVE  /\ s.note \in Notes
             /\ \A t \in tasks : s.kind = t.kind /\ s.note = t.note => s = t
             /\ s.kind = "missing" => s.about = Missing(row[s.note].attrs)
  <2>1. PICK n \in Notes : w.file[n] # None /\ (s = MissingTask(n, w.file[n].attrs) \/ s = LowTask(n, w.file[n].attrs))
    BY <1>2
  <2>2. s.note = n BY <2>1 DEF MissingTask, LowTask
  <2>3. ASSUME NEW t \in tasks, s.kind = t.kind, s.note = t.note PROVE s = t
    <3>1. PICK m \in Notes : t = MissingTask(m, w.file[m].attrs) \/ t = LowTask(m, w.file[m].attrs) BY <1>2
    <3>2. m = n BY <3>1, <2>2, <2>3 DEF MissingTask, LowTask
    <3>. QED BY <3>1, <3>2, <2>1, <2>3 DEF MissingTask, LowTask
  <2>4. row[n].attrs = w.file[n].attrs BY <1>1, <2>1 DEF RowOf
  <2>. QED BY <2>1, <2>2, <2>3, <2>4 DEF MissingTask, LowTask
<1>. QED BY <1>1, <1>3 DEF TInv, Sure

\* The open tasks about missing fields are one of a kind for a note, and list what the note lacks, but
\* for notes that are raced, synced since, or whose task was closed by hand (tasks.py, task_rules.py).
THEOREM TasksAreTrue == CSpec => []TasksTrue
<1>1. CInit => TInv BY InitTInv DEF CInit
<1>2. KInv /\ TInv /\ [CNext]_<<vars, curated>> => TInv' BY CNextIsNext, NextTInv
<1>3. TInv => TasksTrue BY DEF TInv, TasksTrue, Sure, Listing
<1>. QED BY <1>1, <1>2, <1>3, CacheInvariant, PTL DEF CSpec

(***************************************************************************)
(* Albums: requests for photos                                              *)
(***************************************************************************)
\* A finite set and the sequence of its elements.
LEMMA ListedSet ==
    ASSUME NEW S, IsFiniteSet(S)
    PROVE  /\ SetToSeq(S) \in Seq(S)
           /\ {SetToSeq(S)[i] : i \in DOMAIN SetToSeq(S)} = S
<1> DEFINE n == Cardinality(S)
           f == SetToSeq(S)
<1>1. n \in Nat /\ ExistsBijection(1..n, S) BY FS_CardinalityType
<1>2. \E g \in [1..n -> S] : IsInjective(g) BY <1>1 DEF ExistsBijection, Bijection, Injection
<1>3. f \in [1..n -> S] /\ IsInjective(f) BY <1>2 DEF SetToSeq
<1>4. f \in Injection(1..n, S) BY <1>3 DEF Injection
<1>5. IsFiniteSet(1..n) /\ Cardinality(1..n) = n BY <1>1, FS_Interval
<1>6. f \in Surjection(1..n, S)
  <2> HIDE DEF n, f
  <2>. QED BY <1>4, <1>5, FS_Injection DEF n
<1>7. \A t \in S : \E i \in 1..n : f[i] = t BY <1>6 DEF Surjection
<1>8. f \in Seq(S) BY <1>1, <1>3
<1>. QED BY <1>3, <1>7, <1>8

Requests == ({"photo"} \X Photos) \cup ({"album"} \X Albums) \cup {<<"purge">>, <<"compare">>}

\* A request for each photo asks for the places of these photos.
LEMMA PhotosAsked ==
    ASSUME NEW photos \in SUBSET Photos
    PROVE  /\ ForPhotos(photos) \in Seq(Requests)
           /\ UNION {Asked(ForPhotos(photos)[i]) : i \in DOMAIN ForPhotos(photos)} = Of(photos)
<1> DEFINE S == {<<"photo", p>> : p \in photos}
           f == [p \in photos |-> <<"photo", p>>]
<1>1. IsFiniteSet(photos) BY PhotosAssumption, FS_Subset DEF PhotosAssumption
<1>2. f \in Surjection(photos, S) BY DEF Surjection
<1>3. IsFiniteSet(S)
  <2> HIDE DEF f, S
  <2>. QED BY <1>1, <1>2, FS_Surjection
<1>4. S \subseteq Requests BY DEF Requests
<1>5. /\ SetToSeq(S) \in Seq(S) /\ {SetToSeq(S)[i] : i \in DOMAIN SetToSeq(S)} = S
  <2> HIDE DEF S
  <2>. QED BY <1>3, ListedSet
<1>6. ForPhotos(photos) = SetToSeq(S) BY DEF ForPhotos
<1>7. ForPhotos(photos) \in Seq(Requests)
  <2> HIDE DEF S
  <2>. QED BY <1>4, <1>5, <1>6
<1>8. UNION {Asked(r) : r \in S} = Of(photos)
  <2>1. \A p \in photos : Asked(<<"photo", p>>) = Of({p}) BY DEF Asked
  <2>2. ASSUME NEW x PROVE (\E r \in S : x \in Asked(r)) <=> \E p \in photos : x \in Of({p})
    BY <2>1
  <2>3. ASSUME NEW x PROVE x \in Of(photos) <=> \E p \in photos : x \in Of({p})
    BY DEF Of
  <2> HIDE DEF S
  <2>. QED BY <2>2, <2>3
<1>9. {Asked(ForPhotos(photos)[i]) : i \in DOMAIN ForPhotos(photos)} = {Asked(r) : r \in S}
  <2> HIDE DEF S
  <2> SUFFICES {Asked(SetToSeq(S)[i]) : i \in DOMAIN SetToSeq(S)} = {Asked(r) : r \in S} BY <1>6
  <2>. QED BY <1>5
<1>. QED BY <1>7, <1>8, <1>9

\* What is asked for is queued behind what is.
LEMMA AskedQueued ==
    ASSUME queue \in Seq(Requests), NEW more \in Seq(Requests), Ask(more)
    PROVE  /\ queue' \in Seq(Requests)
           /\ Queued' = Queued \cup UNION {Asked(more[i]) : i \in DOMAIN more}
<1>1. queue' = queue \o more BY DEF Ask
<1>2. DOMAIN queue' = 1..(Len(queue) + Len(more)) BY <1>1
<1>3. \A i \in DOMAIN queue : i \in DOMAIN queue' /\ queue'[i] = queue[i] BY <1>1, <1>2
<1>4. \A i \in DOMAIN more : Len(queue) + i \in DOMAIN queue' /\ queue'[Len(queue) + i] = more[i] BY <1>1, <1>2
<1>5. ASSUME NEW i \in DOMAIN queue', i \notin DOMAIN queue
      PROVE  i - Len(queue) \in DOMAIN more /\ queue'[i] = more[i - Len(queue)]
  BY <1>1, <1>2, <1>5
<1>6. ASSUME NEW x PROVE x \in Queued' <=> x \in Queued \/ x \in UNION {Asked(more[i]) : i \in DOMAIN more}
  <2>1. ASSUME x \in Queued PROVE x \in Queued'
    BY <2>1, <1>3 DEF Queued, Asked, Of
  <2>2. ASSUME NEW i \in DOMAIN more, x \in Asked(more[i]) PROVE x \in Queued'
    BY <2>2, <1>4 DEF Queued, Asked, Of
  <2>3. ASSUME x \in Queued', x \notin Queued PROVE \E i \in DOMAIN more : x \in Asked(more[i])
    BY <2>3, <1>3, <1>5 DEF Queued, Asked, Of
  <2>. QED BY <2>1, <2>2, <2>3
<1>. QED BY <1>1, <1>6

\* What stays in the queue stays asked for.
LEMMA HeadQueued ==
    ASSUME queue \in Seq(Requests), queue # <<>>, queue' = Tail(queue)
    PROVE  /\ queue' \in Seq(Requests) /\ Head(queue) \in Requests
           /\ Queued = Asked(Head(queue)) \cup Queued'
<1>1. Len(queue) \in Nat \ {0} /\ DOMAIN queue = 1..Len(queue) OBVIOUS
<1>2. DOMAIN queue' = 1..(Len(queue) - 1) /\ \A i \in DOMAIN queue' : queue'[i] = queue[i + 1] BY <1>1
<1>3. Head(queue) = queue[1] OBVIOUS
<1>4. ASSUME NEW x PROVE x \in Queued <=> x \in Asked(Head(queue)) \/ x \in Queued'
  <2>1. ASSUME x \in Queued', x \notin Queued PROVE FALSE
    <3>1. PICK i \in DOMAIN queue' : x \in Asked(queue'[i]) BY <2>1 DEF Queued, Asked, Of
    <3>2. i + 1 \in DOMAIN queue /\ queue'[i] = queue[i + 1] BY <1>1, <1>2
    <3>. QED BY <3>1, <3>2, <2>1 DEF Queued
  <2>2. ASSUME x \in Asked(Head(queue)) PROVE x \in Queued BY <2>2, <1>1, <1>3 DEF Queued
  <2>3. ASSUME x \in Queued, x \notin Asked(Head(queue)) PROVE x \in Queued'
    <3>1. PICK i \in DOMAIN queue : x \in Asked(queue[i]) BY <2>3 DEF Queued
    <3>2. i # 1 BY <3>1, <2>3, <1>3
    <3>3. i - 1 \in DOMAIN queue' /\ queue'[i - 1] = queue[i] BY <3>2, <1>1, <1>2
    <3>. QED BY <3>1, <3>3 DEF Queued, Asked, Of
  <2>. QED BY <2>1, <2>2, <2>3
<1>. QED BY <1>1, <1>4

Sources == {"no", "smart", "manual"}
Rounds == {k \in [at : {"wants", "seen"}, over : SUBSET Places, wants : SUBSET Places, seen : [Places -> Sources],
                  beside : SUBSET Places] : k.wants \subseteq k.over}
LaneStarts == [at : {"start"}, photo : Photos]
Lookers == {k \in [photo : Photos, force : BOOLEAN, edited : BOOLEAN] : k.force \/ ~k.edited}

\* Types; and a caption job that has looked may write.
Shape ==
    /\ album \in [Albums -> AlbumSet]
    /\ items \in [Places -> Sources]
    /\ tag \in [Photos -> [Tags -> Marks]]
    /\ caption \in [Photos -> Captions]
    /\ queue \in Seq(Requests)
    /\ eval \in [{"main", "lane"} -> Rounds \cup LaneStarts \cup {NoEval}]
    /\ eval["main"] \in Rounds \cup {NoEval}
    /\ captioner = None \/ captioner \in Lookers

\* What is asked for is made of places.
LEMMA ScopePlaces ==
    ASSUME Shape, NEW r \in Requests, r[1] \in {"photo", "album"}
    PROVE  /\ Scope(r) \subseteq Places
           /\ Asked(r) \subseteq Places
           /\ Scope(r) = {x \in Asked(r) : x[1] \in Smart}
<1>1. CASE r[1] = "photo"
  <2>1. r[2] \in Photos BY <1>1 DEF Requests
  <2>2. Scope(r) = Smart \X {r[2]} BY <1>1 DEF Scope
  <2>3. Asked(r) = Albums \X {r[2]} BY <1>1 DEF Asked, Of
  <2>. QED BY <2>1, <2>2, <2>3 DEF Places, Smart
<1>2. CASE r[1] = "album"
  <2>1. r[2] \in Albums BY <1>2 DEF Requests
  <2>2. Scope(r) = {x \in Places : x[1] = r[2] /\ x[1] \in Smart} BY <1>2 DEF Scope
  <2>3. Asked(r) = {r[2]} \X Photos BY <1>2 DEF Asked
  <2>. QED BY <2>1, <2>2, <2>3 DEF Places
<1>. QED BY <1>1, <1>2

\* An evaluation that has read.
LEMMA RoundStarts ==
    ASSUME Shape, NEW r \in Requests, r[1] \in {"photo", "album"}, NEW e \in {"main", "lane"}, EvalRead(e, r)
    PROVE  /\ eval' \in [{"main", "lane"} -> Rounds \cup LaneStarts \cup {NoEval}]
           /\ \A o \in {"main", "lane"} : o # e => eval'[o] = eval[o]
           /\ eval'[e] \in Rounds
           /\ eval'[e].at = "wants" /\ eval'[e].over = Scope(r) /\ eval'[e].wants = Scope(r) \cap Wanted
           /\ eval'[e].seen = items /\ eval'[e].beside = {}
<1> DEFINE k == [at |-> "wants", over |-> Scope(r), wants |-> Scope(r) \cap Wanted, seen |-> items, beside |-> {}]
<1>1. k \in Rounds BY ScopePlaces DEF Rounds, Shape
<1>2. eval' = [eval EXCEPT ![e] = k] BY DEF EvalRead
<1>3. k.at = "wants" /\ k.over = Scope(r) /\ k.wants = Scope(r) \cap Wanted /\ k.seen = items /\ k.beside = {}
  OBVIOUS
<1> HIDE DEF k
<1>4. eval'[e] = k /\ \A o \in {"main", "lane"} : o # e => eval'[o] = eval[o] BY <1>2 DEF Shape
<1>. QED BY <1>1, <1>2, <1>3, <1>4 DEF Shape

\* An evaluation that commits is over, and the other one knows what it wrote beside it.
LEMMA CommitDoes ==
    ASSUME Shape, NEW e \in {"main", "lane"}, NEW o \in {"main", "lane"}, o # e, EvalCommit(e)
    PROVE  /\ eval' \in [{"main", "lane"} -> Rounds \cup LaneStarts \cup {NoEval}]
           /\ eval'["main"] \in Rounds \cup {NoEval}
           /\ eval[e] \in Rounds
           /\ eval'[e] = NoEval
           /\ eval[o] \notin Rounds => eval'[o] = eval[o]
           /\ eval[o] \in Rounds =>
                 /\ eval'[o] \in Rounds
                 /\ eval'[o].at = eval[o].at /\ eval'[o].over = eval[o].over
                 /\ eval'[o].wants = eval[o].wants /\ eval'[o].seen = eval[o].seen
                 /\ eval'[o].beside = eval[o].beside \cup eval[e].over
<1>1. DOMAIN eval = {"main", "lane"} BY DEF Shape
<1>2. eval' = [i \in DOMAIN eval |-> IF i = e THEN NoEval ELSE Besides(eval[i], eval[e].over)]
  BY DEF EvalCommit
<1>3. eval'[e] = NoEval /\ eval'[o] = Besides(eval[o], eval[e].over) BY <1>1, <1>2
<1>6. eval[e] \in Rounds BY DEF EvalCommit, Shape, LaneStarts, NoEval
<1>7. eval[o] \in Rounds <=> eval[o].at \in {"wants", "seen"} BY DEF Shape, Rounds, LaneStarts, NoEval
<1>8. CASE eval[o] \in Rounds
  <2>1. PICK b : b = eval[o].beside \cup eval[e].over OBVIOUS
  <2>2. b \subseteq Places BY <1>6, <1>8, <2>1 DEF Rounds
  <2>3. eval'[o] = [eval[o] EXCEPT !.beside = b] BY <1>3, <1>7, <1>8, <2>1 DEF Besides
  <2>4. /\ eval'[o] \in Rounds
        /\ eval'[o].at = eval[o].at /\ eval'[o].over = eval[o].over
        /\ eval'[o].wants = eval[o].wants /\ eval'[o].seen = eval[o].seen
        /\ eval'[o].beside = b
    BY <1>8, <2>2, <2>3 DEF Rounds
  <2>. QED BY <1>1, <1>2, <1>3, <1>6, <1>8, <2>1, <2>4 DEF Shape
<1>9. CASE eval[o] \notin Rounds
  <2>1. eval'[o] = eval[o] BY <1>3, <1>7, <1>9 DEF Besides
  <2>. QED BY <1>1, <1>2, <1>3, <1>6, <1>9, <2>1 DEF Shape
<1>. QED BY <1>8, <1>9

\* The albums after persons are gone.
LEMMA AlbumsAfter ==
    ASSUME Shape, NEW gone
    PROVE  /\ TriggersAfter(gone) \in [Albums -> AlbumSet]
           /\ \A al \in Albums : TriggersAfter(gone)[al].kind = album[al].kind
<1>1. ASSUME NEW al \in Albums
      PROVE  /\ [album[al] EXCEPT !.triggers = {t \in @ : t.arg \notin gone}] \in AlbumSet
             /\ [album[al] EXCEPT !.triggers = {t \in @ : t.arg \notin gone}].kind = album[al].kind
  <2>1. album[al] \in AlbumSet BY DEF Shape
  <2>2. PICK ts : ts = {t \in album[al].triggers : t.arg \notin gone} OBVIOUS
  <2>3. ts \subseteq Triggers BY <2>1, <2>2 DEF AlbumSet
  <2>. QED BY <2>1, <2>2, <2>3 DEF AlbumSet
<1>. QED BY <1>1 DEF TriggersAfter

\* What the steps with persons and the knowledge base do to albums.
LEMMA FollowShape == ASSUME Shape, Follow PROVE Shape'
<1>1. UNCHANGED <<items, tag, caption, eval, captioner>> BY DEF Follow
<1>2. album' \in [Albums -> AlbumSet] BY AlbumsAfter DEF Follow
<1>3. queue' \in Seq(Requests)
  <2> DEFINE changed == {p \in Photos : shows'[p] # shows[p]}
  <2>1. Ask(ForPhotos(changed)) \/ UNCHANGED queue BY DEF Follow
  <2>2. ForPhotos(changed) \in Seq(Requests) BY PhotosAsked
  <2> HIDE DEF changed
  <2>. QED BY <2>1, <2>2, AskedQueued DEF Shape
<1>. QED BY <1>1, <1>2, <1>3 DEF Shape

\* What the user does.
LEMMA BoundShape == ASSUME Shape, Bound PROVE Shape'
<1> USE DEF shelf, jobs, dupes
<1>0. /\ \A al \in Albums : AskAlbum(al) => queue' \in Seq(Requests)
      /\ \A ps \in SUBSET Photos : Ask(ForPhotos(ps)) => queue' \in Seq(Requests)
  <2>1. ASSUME NEW al \in Albums, AskAlbum(al) PROVE queue' \in Seq(Requests)
    <3>1. <<<<"album", al>>>> \in Seq(Requests) BY DEF Requests
    <3>. QED BY <3>1, <2>1, AskedQueued DEF Shape, AskAlbum
  <2>2. ASSUME NEW ps \in SUBSET Photos, Ask(ForPhotos(ps)) PROVE queue' \in Seq(Requests)
    BY <2>2, PhotosAsked, AskedQueued DEF Shape
  <2>. QED BY <2>1, <2>2
<1>1. ASSUME NEW al \in Albums, CreateAlbum(al) PROVE Shape'
  BY <1>1 DEF Shape, CreateAlbum, AlbumSet
<1>2. ASSUME NEW al \in Albums, UpdateAlbum(al) PROVE Shape'
  <2>1. PICK kind \in {"smart", "plain"}, mode \in {"any", "all"} :
           /\ album' = [album EXCEPT ![al].kind = kind, ![al].mode = mode]
           /\ items' = WithKind(al, kind)
           /\ IF kind = "smart" THEN AskAlbum(al) ELSE UNCHANGED queue
    BY <1>2 DEF UpdateAlbum
  <2>2. album' \in [Albums -> AlbumSet] BY <2>1 DEF Shape, AlbumSet
  <2>3. items' \in [Places -> Sources] BY <2>1 DEF Shape, WithKind, Sources
  <2>4. queue' \in Seq(Requests) BY <2>1, <1>0 DEF Shape
  <2>. QED BY <1>2, <2>2, <2>3, <2>4 DEF Shape, UpdateAlbum
<1>3. ASSUME NEW al \in Albums, DeleteAlbum(al) PROVE Shape'
  <2>1. NoAlbum \in AlbumSet BY DEF NoAlbum, AlbumSet
  <2>2. album' \in [Albums -> AlbumSet] BY <1>3, <2>1 DEF Shape, DeleteAlbum
  <2>3. items' \in [Places -> Sources] BY <1>3 DEF Shape, DeleteAlbum, Sources
  <2>. QED BY <1>3, <2>2, <2>3 DEF Shape, DeleteAlbum
<1>4. ASSUME NEW al \in Albums, ChangeTrigger(al) PROVE Shape'
  <2>1. PICK old \in SUBSET album[al].triggers, new \in SUBSET Triggers :
           album' = [album EXCEPT ![al].triggers = (@ \ old) \cup new]
    BY <1>4 DEF ChangeTrigger
  <2>2. album[al] \in AlbumSet BY DEF Shape
  <2>3. PICK ts : ts = (album[al].triggers \ old) \cup new OBVIOUS
  <2>4. ts \in SUBSET Triggers BY <2>2, <2>3 DEF AlbumSet
  <2>5. [album[al] EXCEPT !.triggers = ts] \in AlbumSet BY <2>2, <2>4 DEF AlbumSet
  <2>6. album' = [album EXCEPT ![al] = [album[al] EXCEPT !.triggers = ts]] BY <2>1, <2>3 DEF Shape
  <2>7. album' \in [Albums -> AlbumSet] BY <2>5, <2>6 DEF Shape
  <2>8. queue' \in Seq(Requests) BY <1>4, <1>0 DEF ChangeTrigger
  <2>. QED BY <1>4, <2>7, <2>8 DEF Shape, ChangeTrigger
<1>5. ASSUME NEW al \in Albums, Reevaluate(al) PROVE Shape'
  <2>1. queue' \in Seq(Requests) BY <1>5, <1>0 DEF Reevaluate
  <2>. QED BY <1>5, <2>1 DEF Shape, Reevaluate
<1>6. ASSUME NEW al \in Albums, DropDuplicate(al) PROVE Shape'
  BY <1>6 DEF Shape, DropDuplicate
<1>7. ASSUME NEW x \in Places, AddItem(x) PROVE Shape' BY <1>7 DEF Shape, AddItem, Sources
<1>8. ASSUME NEW x \in Places, RemoveItem(x) PROVE Shape' BY <1>8 DEF Shape, RemoveItem, Sources
<1>9. ASSUME NEW p \in Photos, NEW t \in Tags, TagPhoto(p, t) PROVE Shape'
  <2>1. tag' \in [Photos -> [Tags -> Marks]]
    <3>1. tag[p] \in [Tags -> Marks] BY DEF Shape
    <3>2. CASE tag' = Added(p, t)
      <4>1. PICK c : c = Canonical(t) OBVIOUS
      <4>2. [tag[p] EXCEPT ![c] = "manual"] \in [Tags -> Marks] BY <3>1 DEF Marks
      <4>3. tag' = [tag EXCEPT ![p] = [tag[p] EXCEPT ![c] = "manual"]] BY <3>2, <4>1 DEF Added, Shape
      <4>. QED BY <4>2, <4>3 DEF Shape
    <3>3. CASE tag' = Removed(p, t)
      <4> DEFINE mark == CASE tag[p][t] = "auto" -> "rejected" [] tag[p][t] \in {"manual", "hidden"} -> "no"
                           [] OTHER -> tag[p][t]
      <4>1. tag[p][t] \in Marks BY <3>1
      <4>2. mark \in Marks
        <5>1. CASE tag[p][t] = "auto" BY <5>1 DEF Marks
        <5>2. CASE tag[p][t] \in {"manual", "hidden"} BY <5>2 DEF Marks
        <5>3. CASE tag[p][t] \notin {"auto", "manual", "hidden"} BY <5>3, <4>1 DEF Marks
        <5>. QED BY <5>1, <5>2, <5>3
      <4>3. tag' = [tag EXCEPT ![p][t] = mark] BY <3>3 DEF Removed
      <4> HIDE DEF mark
      <4>. QED BY <4>2, <4>3 DEF Shape
    <3>. QED BY <1>9, <3>2, <3>3 DEF TagPhoto
  <2>2. queue' \in Seq(Requests) BY <1>9, <1>0 DEF TagPhoto
  <2>. QED BY <1>9, <2>1, <2>2 DEF Shape, TagPhoto
<1>10. ASSUME NEW s \in Tags, NEW c \in Tags, MergeTags(s, c) PROVE Shape'
  <2>1. tag' = Repointed(s, c) BY <1>10 DEF MergeTags
  <2>2. ASSUME NEW p \in Photos PROVE [tag[p] EXCEPT ![s] = "no", ![c] = Together(tag[p][s], @)] \in [Tags -> Marks]
    <3>1. tag[p] \in [Tags -> Marks] /\ tag[p][s] \in Marks BY DEF Shape
    <3>2. ASSUME NEW a \in Marks, NEW b \in Marks PROVE Together(a, b) \in Marks
      <4>1. CASE a = "no" BY <4>1 DEF Together
      <4>2. CASE a # "no" /\ b = "no" BY <4>2 DEF Together
      <4>3. CASE a \in {"manual", "hidden"} /\ b # "no"
        <5>1. CASE b \in {"rejected", "hidden"} BY <4>3, <5>1 DEF Together, Marks
        <5>2. CASE b \notin {"rejected", "hidden"} BY <4>3, <5>2 DEF Together, Marks
        <5>. QED BY <5>1, <5>2
      <4>4. CASE a \notin {"no", "manual", "hidden"} /\ b # "no" BY <4>4 DEF Together
      <4>. QED BY <4>1, <4>2, <4>3, <4>4
    <3>3. "no" \in Marks BY DEF Marks
    <3>4. PICK m : m = [tag[p] EXCEPT ![s] = "no"] OBVIOUS
    <3>5. m \in [Tags -> Marks] /\ m[c] \in Marks BY <3>1, <3>3, <3>4
    <3>6. [tag[p] EXCEPT ![s] = "no", ![c] = Together(tag[p][s], @)] = [m EXCEPT ![c] = Together(tag[p][s], m[c])]
      BY <3>4
    <3>7. Together(tag[p][s], m[c]) \in Marks BY <3>1, <3>2, <3>5
    <3>. QED BY <3>5, <3>6, <3>7
  <2>3. tag' \in [Photos -> [Tags -> Marks]] BY <2>1, <2>2 DEF Repointed
  <2>4. queue' \in Seq(Requests) BY <1>10, <1>0 DEF MergeTags, Tagged
  <2>. QED BY <1>10, <2>3, <2>4 DEF Shape, MergeTags
<1>11. ASSUME NEW t \in Tags, Dealias(t) PROVE Shape' BY <1>11 DEF Shape, Dealias
<1>12. ASSUME NEW p \in Photos, TagJob(p) PROVE Shape'
  <2>1. PICK hits \in SUBSET Tags :
           tag' = [tag EXCEPT ![p] = [t \in Tags |->
                    IF @[t] \in {"manual", "rejected", "hidden"} THEN @[t] ELSE IF t \in hits THEN "auto" ELSE "no"]]
    BY <1>12 DEF TagJob
  <2>2. tag' \in [Photos -> [Tags -> Marks]] BY <2>1 DEF Shape, Marks
  <2>3. /\ eval' \in [{"main", "lane"} -> Rounds \cup LaneStarts \cup {NoEval}] /\ eval'["main"] = eval["main"]
    <3>1. [at |-> "start", photo |-> p] \in LaneStarts BY DEF LaneStarts
    <3>. QED BY <1>12, <3>1 DEF TagJob, Shape
  <2>. QED BY <1>12, <2>2, <2>3 DEF Shape, TagJob
<1>13. ASSUME NEW p \in Photos, EditCaption(p) PROVE Shape'
  <2>1. PICK w \in Words \cup {""} : caption' = [caption EXCEPT ![p] = [text |-> w, edited |-> TRUE]]
    BY <1>13 DEF EditCaption
  <2>3. [text |-> w, edited |-> TRUE] \in Captions BY DEF Captions
  <2>4. caption' \in [Photos -> Captions] BY <2>1, <2>3 DEF Shape
  <2>2. queue' \in Seq(Requests) BY <1>13, <1>0 DEF EditCaption
  <2>. QED BY <1>13, <2>2, <2>4 DEF Shape, EditCaption
<1>14. ASSUME NEW p \in Photos, Trash(p) PROVE Shape' BY <1>14 DEF Shape, Trash
<1>15. ASSUME NEW p \in Photos, NEW force \in BOOLEAN, CaptionLook(p, force) PROVE Shape'
  <2>1. caption[p].edited \in BOOLEAN BY DEF Shape, Captions
  <2>2. captioner' \in Lookers BY <1>15, <2>1 DEF CaptionLook, Lookers
  <2>. QED BY <1>15, <2>2 DEF Shape, CaptionLook
<1>16. ASSUME StartScan PROVE Shape'
  <2>1. PICK first \in {"purge", "compare"} : Ask(<<<<first>>>>) BY <1>16 DEF StartScan
  <2>2. <<<<first>>>> \in Seq(Requests) BY DEF Requests
  <2>3. queue' \in Seq(Requests) BY <2>1, <2>2, AskedQueued DEF Shape
  <2>. QED BY <1>16, <2>3 DEF Shape, StartScan
<1>17. ASSUME \/ ClearPairs
              \/ \E p \in Photos : EmbedInsert(p) \/ Suggest(p)
              \/ \E i \in ReviewIds, d \in Pairs : Decide(i, d)
       PROVE  Shape'
  BY <1>17 DEF ClearPairs, EmbedInsert, Suggest, Decide, Shape
<1>. QED BY <1>1, <1>2, <1>3, <1>4, <1>5, <1>6, <1>7, <1>8, <1>9, <1>10, <1>11, <1>12, <1>13, <1>14, <1>15,
            <1>16, <1>17 DEF Bound

\* What goes on by itself.
LEMMA FreeShape == ASSUME Shape, Free PROVE Shape'
<1> USE DEF shelf, jobs, dupes
<1>1. ASSUME EvalNext PROVE Shape'
  <2>1. queue' \in Seq(Requests) /\ Head(queue) \in Requests BY <1>1, HeadQueued DEF EvalNext, Shape
  <2>2. /\ eval' \in [{"main", "lane"} -> Rounds \cup LaneStarts \cup {NoEval}]
        /\ eval'["main"] \in Rounds \cup {NoEval}
    <3>1. CASE Head(queue)[1] \in {"purge", "compare"} BY <1>1, <3>1 DEF EvalNext, Shape
    <3>2. CASE Head(queue)[1] \notin {"purge", "compare"}
      <4>1. Head(queue)[1] \in {"photo", "album"} BY <2>1, <3>2 DEF Requests
      <4>2. EvalRead("main", Head(queue)) BY <1>1, <3>2 DEF EvalNext
      <4>. QED BY <2>1, <4>1, <4>2, RoundStarts
    <3>. QED BY <3>1, <3>2
  <2>. QED BY <1>1, <2>1, <2>2 DEF Shape, EvalNext
<1>2. ASSUME LaneRead PROVE Shape'
  <2>1. eval["lane"] \in LaneStarts BY <1>2 DEF LaneRead, Shape, Rounds, NoEval
  <2>2. <<"photo", eval["lane"].photo>> \in Requests BY <2>1 DEF LaneStarts, Requests
  <2>3. EvalRead("lane", <<"photo", eval["lane"].photo>>) BY <1>2 DEF LaneRead
  <2>4. /\ eval' \in [{"main", "lane"} -> Rounds \cup LaneStarts \cup {NoEval}] /\ eval'["main"] = eval["main"]
    BY <2>2, <2>3, RoundStarts
  <2>. QED BY <1>2, <2>4 DEF Shape, LaneRead
<1>3. ASSUME CaptionWrite PROVE Shape'
  <2>1. CASE UNCHANGED <<caption, eval>> BY <1>3, <2>1 DEF CaptionWrite, Shape
  <2>2. CASE \E w \in Words : caption' = [caption EXCEPT ![captioner.photo] = [text |-> w, edited |-> @.edited /\ ~captioner.force]]
             /\ eval' = [eval EXCEPT !.lane = [at |-> "start", photo |-> captioner.photo]]
    <3>1. captioner \in Lookers BY <1>3 DEF CaptionWrite, Shape
    <3>2. [at |-> "start", photo |-> captioner.photo] \in LaneStarts BY <3>1 DEF LaneStarts, Lookers
    <3>3. /\ eval' \in [{"main", "lane"} -> Rounds \cup LaneStarts \cup {NoEval}] /\ eval'["main"] = eval["main"]
      BY <2>2, <3>2 DEF Shape
    <3>4. PICK w \in Words : caption' = [caption EXCEPT ![captioner.photo] =
                                           [text |-> w, edited |-> @.edited /\ ~captioner.force]]
      BY <2>2
    <3>5. PICK b \in BOOLEAN : b = (caption[captioner.photo].edited /\ ~captioner.force)
      BY <3>1 DEF Lookers, Shape, Captions
    <3>6. [text |-> w, edited |-> b] \in Captions BY DEF Captions
    <3>7. caption' = [caption EXCEPT ![captioner.photo] = [text |-> w, edited |-> b]] BY <3>4, <3>5
    <3>8. caption' \in [Photos -> Captions] BY <3>6, <3>7 DEF Shape
    <3>. QED BY <1>3, <3>3, <3>8 DEF CaptionWrite, Shape
  <2>. QED BY <1>3, <2>1, <2>2 DEF CaptionWrite
<1>4. ASSUME NEW e \in {"main", "lane"}, EvalLook(e) PROVE Shape'
  <2>1. eval[e] \in Rounds BY <1>4 DEF EvalLook, Shape, LaneStarts, NoEval
  <2>2. [[eval[e] EXCEPT !.at = "seen"] EXCEPT !.seen = items] \in Rounds BY <2>1 DEF Rounds, Shape
  <2>3. eval' = [eval EXCEPT ![e] = [[eval[e] EXCEPT !.at = "seen"] EXCEPT !.seen = items]]
    BY <1>4 DEF EvalLook, Shape
  <2>4. /\ eval' \in [{"main", "lane"} -> Rounds \cup LaneStarts \cup {NoEval}]
        /\ eval'["main"] \in Rounds \cup {NoEval}
    BY <2>2, <2>3 DEF Shape
  <2>. QED BY <1>4, <2>4 DEF Shape, EvalLook
<1>5. ASSUME NEW e \in {"main", "lane"}, EvalCommit(e) PROVE Shape'
  <2>1. PICK o \in {"main", "lane"} : o # e BY <1>5
  <2>2. /\ eval' \in [{"main", "lane"} -> Rounds \cup LaneStarts \cup {NoEval}]
        /\ eval'["main"] \in Rounds \cup {NoEval}
    BY <1>5, <2>1, CommitDoes
  <2>3. items' \in [Places -> Sources] BY <1>5 DEF EvalCommit, Evaluated, Shape, Sources
  <2>. QED BY <1>5, <2>2, <2>3 DEF Shape, EvalCommit
<1>6. ASSUME \/ ScanPurge \/ ScanInsert \/ ListPairs
             \/ \E i \in ReviewIds : AnswerFace(i)
             \/ \E k \in deciding : DecideMoved(k) \/ DecideWrite(k)
      PROVE  Shape'
  BY <1>6 DEF ScanPurge, ScanInsert, ListPairs, AnswerFace, DecideMoved, DecideWrite, Shape
<1>. QED BY <1>1, <1>2, <1>3, <1>4, <1>5, <1>6 DEF Free, Shape

\* The types at the start.
LEMMA InitShape == CInit => Shape
<1> SUFFICES ASSUME CInit PROVE Shape OBVIOUS
<1>1. PICK s \in Shelves :
         /\ album = s.album /\ tag = s.tag /\ caption = s.caption
         /\ items = [x \in Places |-> IF x \in s.put THEN "manual" ELSE IF x \in Wanted THEN "smart" ELSE "no"]
  <2>1. (CHOOSE s \in Shelves : TRUE) \in Shelves BY ShelvesAssumption DEF ShelvesAssumption
  <2>. QED BY <2>1 DEF CInit
<1>2. /\ album \in [Albums -> AlbumSet] /\ tag \in [Photos -> [Tags -> Marks]] /\ caption \in [Photos -> Captions]
  BY <1>1, ShelvesAssumption DEF ShelvesAssumption
<1>3. items \in [Places -> Sources] BY <1>1 DEF Sources
<1>4. queue = <<>> BY DEF CInit
<1>5. queue \in Seq(Requests) BY <1>4
<1>6. /\ eval \in [{"main", "lane"} -> Rounds \cup LaneStarts \cup {NoEval}] /\ eval["main"] \in Rounds \cup {NoEval}
  BY DEF CInit
<1>7. captioner = None BY DEF CInit
<1>. QED BY <1>2, <1>3, <1>5, <1>6, <1>7 DEF Shape

\* The types stay.
LEMMA NextShape == ASSUME Shape, [CNext]_<<vars, curated>> PROVE Shape'
<1>1. ASSUME Follow PROVE Shape' BY <1>1, FollowShape
<1>2. ASSUME Stopped PROVE Shape'
  <2>1. queue' = <<>> BY <1>2 DEF Stopped
  <2>2. queue' \in Seq(Requests) BY <2>1
  <2>3. eval' \in [{"main", "lane"} -> Rounds \cup LaneStarts \cup {NoEval}] /\ eval'["main"] \in Rounds \cup {NoEval}
    BY <1>2 DEF Stopped
  <2>4. captioner' = None BY <1>2 DEF Stopped
  <2>5. UNCHANGED <<album, items, tag, caption>> BY <1>2 DEF Stopped, shelf
  <2>. QED BY <2>2, <2>3, <2>4, <2>5 DEF Shape
<1>3. ASSUME Bound PROVE Shape' BY <1>3, BoundShape
<1>4. ASSUME Free PROVE Shape' BY <1>4, FreeShape
<1>5. ASSUME UNCHANGED curated PROVE Shape' BY <1>5 DEF curated, Shape
<1>. QED BY <1>1, <1>2, <1>3, <1>4, <1>5 DEF CNext

\* A step leaves hand-picked rows alone, but for the user and an evaluation that saw a smart row.
LEMMA PickStays == ASSUME Shape, [CNext]_<<vars, curated>> PROVE HandPicked
<1> SUFFICES ASSUME NEW x \in Places, items[x] = "manual", items'[x] # "manual"
             PROVE  \/ album'[x[1]].kind = "none"
                    \/ album' = album /\ eval' = eval
                    \/ \E e \in DOMAIN eval : eval[e].at = "seen" /\ eval'[e].at = "none" /\ eval[e].seen[x] = "smart"
  BY DEF HandPicked
<1>0. items' # items OBVIOUS
<1>1. ASSUME UNCHANGED items PROVE FALSE BY <1>0, <1>1
<1>2. CASE \E e \in DOMAIN eval : EvalCommit(e)
  <2>1. PICK e \in DOMAIN eval : EvalCommit(e) BY <1>2
  <2>2. items' = Evaluated(eval[e]) /\ eval[e].at = "seen" BY <2>1 DEF EvalCommit
  <2>3. eval'[e] = NoEval BY <2>1 DEF EvalCommit
  <2>4. x \in Dropped(eval[e]) BY <2>2 DEF Evaluated
  <2>. QED BY <2>2, <2>3, <2>4 DEF Dropped, NoEval
<1>3. ASSUME NEW al \in Albums, UpdateAlbum(al) PROVE FALSE
  <2>1. PICK kind : items' = WithKind(al, kind) BY <1>3 DEF UpdateAlbum
  <2>. QED BY <2>1 DEF WithKind
<1>4. ASSUME NEW al \in Albums, DeleteAlbum(al) PROVE album'[x[1]].kind = "none"
  <2>1. items' = [y \in Places |-> IF y[1] = al THEN "no" ELSE items[y]] BY <1>4 DEF DeleteAlbum
  <2>2. x[1] = al BY <2>1
  <2>3. album'[al] = NoAlbum BY <1>4 DEF DeleteAlbum, Shape
  <2>. QED BY <2>2, <2>3 DEF NoAlbum
<1>5. ASSUME NEW y \in Places, AddItem(y) PROVE FALSE
  <2>1. items' = [items EXCEPT ![y] = "manual"] BY <1>5 DEF AddItem
  <2>. QED BY <2>1 DEF Shape
<1>6. ASSUME NEW y \in Places, RemoveItem(y) PROVE album' = album /\ eval' = eval
  BY <1>6 DEF RemoveItem, jobs
<1>7. ASSUME Bound PROVE \/ \E al \in Albums : UpdateAlbum(al) \/ DeleteAlbum(al)
                         \/ \E y \in Places : AddItem(y) \/ RemoveItem(y)
  <2>1. ASSUME NEW al \in Albums, CreateAlbum(al) \/ ChangeTrigger(al) \/ Reevaluate(al) \/ DropDuplicate(al)
        PROVE  UNCHANGED items
    BY <2>1 DEF CreateAlbum, ChangeTrigger, Reevaluate, DropDuplicate, shelf
  <2>2. ASSUME NEW p \in Photos, \/ TagJob(p) \/ EditCaption(p) \/ Trash(p)
                                 \/ \E t \in Tags : TagPhoto(p, t)
                                 \/ \E force \in BOOLEAN : CaptionLook(p, force)
        PROVE  UNCHANGED items
    BY <2>2 DEF TagJob, EditCaption, Trash, TagPhoto, CaptionLook, shelf
  <2>3. ASSUME \/ \E s, c \in Tags : MergeTags(s, c)
               \/ \E t \in Tags : Dealias(t)
               \/ StartScan \/ ClearPairs
               \/ \E p \in Photos : EmbedInsert(p) \/ Suggest(p)
               \/ \E i \in ReviewIds, d \in Pairs : Decide(i, d)
        PROVE  UNCHANGED items
    BY <2>3 DEF MergeTags, Dealias, StartScan, ClearPairs, EmbedInsert, Suggest, Decide, shelf
  <2>. QED BY <1>7, <2>1, <2>2, <2>3, <1>1 DEF Bound
<1>8. ASSUME Free PROVE \E e \in DOMAIN eval : EvalCommit(e)
  <2>1. ASSUME \/ EvalNext \/ LaneRead \/ CaptionWrite
               \/ \E e \in DOMAIN eval : EvalLook(e)
               \/ ScanPurge \/ ScanInsert \/ ListPairs
               \/ \E i \in ReviewIds : AnswerFace(i)
               \/ \E k \in deciding : DecideMoved(k) \/ DecideWrite(k)
        PROVE  UNCHANGED items
    BY <2>1 DEF EvalNext, LaneRead, CaptionWrite, EvalLook, ScanPurge, ScanInsert, ListPairs, AnswerFace, DecideMoved,
                DecideWrite, shelf
  <2>. QED BY <1>8, <2>1, <1>1 DEF Free
<1>9. ASSUME Follow \/ Stopped \/ UNCHANGED curated PROVE FALSE
  BY <1>9, <1>1 DEF Follow, Stopped, curated, shelf
<1>. QED BY <1>2, <1>3, <1>4, <1>5, <1>6, <1>7, <1>8, <1>9 DEF CNext

\* A step leaves the user's captions alone, but for a job that has looked before.
LEMMA WordsStay == ASSUME Shape, [CNext]_<<vars, curated>> PROVE OwnWords
<1> SUFFICES ASSUME NEW p \in Photos, caption[p].edited, caption'[p] # caption[p], captioner' # captioner
             PROVE  captioner.force \/ ~captioner.edited
  BY DEF OwnWords
<1>1. CASE CaptionWrite
  <2>1. captioner \in Lookers BY <1>1 DEF CaptionWrite, Shape
  <2>. QED BY <2>1 DEF Lookers
<1>2. ASSUME UNCHANGED caption \/ UNCHANGED captioner PROVE FALSE BY <1>2
<1>3. ASSUME Bound PROVE FALSE
  <2>1. ASSUME NEW al \in Albums, CreateAlbum(al) \/ UpdateAlbum(al) \/ DeleteAlbum(al) \/ ChangeTrigger(al)
                                  \/ Reevaluate(al) \/ DropDuplicate(al)
        PROVE  FALSE
    BY <2>1, <1>2 DEF CreateAlbum, UpdateAlbum, DeleteAlbum, ChangeTrigger, Reevaluate, DropDuplicate, shelf, jobs
  <2>2. ASSUME NEW q \in Photos, \/ TagJob(q) \/ EditCaption(q) \/ Trash(q)
                                 \/ \E t \in Tags : TagPhoto(q, t)
                                 \/ \E force \in BOOLEAN : CaptionLook(q, force)
        PROVE  FALSE
    BY <2>2, <1>2 DEF TagJob, EditCaption, Trash, TagPhoto, CaptionLook, shelf, jobs
  <2>3. ASSUME \/ \E s, c \in Tags : MergeTags(s, c)
               \/ \E t \in Tags : Dealias(t)
               \/ StartScan \/ ClearPairs
               \/ \E q \in Photos : EmbedInsert(q) \/ Suggest(q)
               \/ \E i \in ReviewIds, d \in Pairs : Decide(i, d)
        PROVE  FALSE
    BY <2>3, <1>2 DEF MergeTags, Dealias, StartScan, ClearPairs, EmbedInsert, Suggest, Decide, shelf, jobs
  <2>4. ASSUME NEW x \in Places, AddItem(x) \/ RemoveItem(x) PROVE FALSE
    BY <2>4, <1>2 DEF AddItem, RemoveItem, shelf, jobs
  <2>. QED BY <1>3, <2>1, <2>2, <2>3, <2>4 DEF Bound
<1>4. ASSUME Free, ~CaptionWrite PROVE FALSE
  BY <1>4, <1>2 DEF Free, EvalNext, LaneRead, EvalLook, EvalCommit, ScanPurge, ScanInsert, ListPairs, AnswerFace,
                    DecideMoved, DecideWrite, shelf, jobs
<1>5. ASSUME Follow \/ Stopped \/ UNCHANGED curated PROVE FALSE
  BY <1>5, <1>2 DEF Follow, Stopped, curated, shelf
<1>. QED BY <1>1, <1>3, <1>4, <1>5 DEF CNext

\* The table of reviews: at most one row of a pair, decisions under way on rows that were listed for a
\* pair, and pairs whose row a decision has reached have a row, and none that is not resolved.
OnePerPair == \A i, j \in ReviewIds : HasRow(i, review[j].of) /\ review[j].of \in Pairs => i = j
Reviewed ==
    /\ review \in [ReviewIds -> ReviewItems \cup {NoItem}]
    /\ OnePerPair
    /\ listed \subseteq ReviewIds \X Pairs
    /\ \A k \in deciding : k.id \in ReviewIds /\ k.meant \in Pairs
    /\ decided \subseteq Pairs /\ \A d \in decided : Stands(d)

\* A row that is none is of no pair.
LEMMA NoItemIsNone == NoItem \notin ReviewItems /\ NoItem.of \notin Pairs
<1>1. NoItem \notin ReviewItems BY DEF NoItem, ReviewItems
<1>2. Cardinality({}) = 0 BY FS_EmptySet
<1>. QED BY <1>1, <1>2 DEF NoItem, Pairs

\* Rows of a pair go when nobody has resolved it, and the others stay.
LEMMA ClearedReviewed ==
    ASSUME Reviewed, review' = Cleared, UNCHANGED <<listed, deciding, decided>>
    PROVE  Reviewed'
<1>1. \A i \in ReviewIds : review'[i] = IF Unresolved(i) THEN NoItem ELSE review[i] BY DEF Cleared
<1>2. review' \in [ReviewIds -> ReviewItems \cup {NoItem}] BY DEF Cleared, Reviewed
<1>3. OnePerPair'
  BY <1>1, NoItemIsNone DEF Reviewed, OnePerPair, HasRow
<1>4. \A d \in decided : Stands(d)' BY <1>1 DEF Reviewed, Stands, HasRow, Unresolved
<1>. QED BY <1>2, <1>3, <1>4 DEF Reviewed

\* New rows are of pairs without one, or of faces.
LEMMA NewRowsReviewed ==
    ASSUME Reviewed, NEW things, things \subseteq NewPairs \cup Faces, NewRows(things),
           UNCHANGED <<listed, deciding, decided>>, things \cap Faces # {} => things \cap Pairs = {}
    PROVE  Reviewed'
<1>1. PICK ids \in SUBSET UnusedIds : \E of \in [ids -> things] :
        /\ \A i, j \in ids : of[i] = of[j] => i = j
        /\ review' = [i \in ReviewIds |-> IF i \in ids THEN [of |-> of[i], at |-> "open"] ELSE review[i]]
  BY DEF NewRows
<1>2. PICK of \in [ids -> things] :
        /\ \A i, j \in ids : of[i] = of[j] => i = j
        /\ review' = [i \in ReviewIds |-> IF i \in ids THEN [of |-> of[i], at |-> "open"] ELSE review[i]]
  BY <1>1
<1>3. \A i \in ids : i \in ReviewIds /\ review[i] = NoItem BY <1>1 DEF UnusedIds, ReviewIds
<1>4. \A i \in ids : /\ review'[i] = [of |-> of[i], at |-> "open"] /\ review'[i].of = of[i]
                     /\ review'[i] \in ReviewItems /\ review'[i] # NoItem
  <2>. SUFFICES ASSUME NEW i \in ids
                PROVE  /\ review'[i] = [of |-> of[i], at |-> "open"] /\ review'[i].of = of[i]
                       /\ review'[i] \in ReviewItems /\ review'[i] # NoItem
    OBVIOUS
  <2>1. review'[i] = [of |-> of[i], at |-> "open"] BY <1>2, <1>3
  <2>2. of[i] \in Pairs \cup Faces BY <1>2 DEF NewPairs
  <2>3. review'[i] \in ReviewItems BY <2>1, <2>2 DEF ReviewItems
  <2>. QED BY <2>1, <2>3, NoItemIsNone
<1>5. \A i \in ReviewIds \ ids : review'[i] = review[i] BY <1>2
<1>6. review' \in [ReviewIds -> ReviewItems \cup {NoItem}] BY <1>2, <1>4, <1>5 DEF Reviewed
<1>7. OnePerPair'
  <2> SUFFICES ASSUME NEW i \in ReviewIds, NEW j \in ReviewIds, HasRow(i, review[j].of)', review'[j].of \in Pairs
               PROVE  i = j
    BY DEF OnePerPair
  <2>1. review'[i] # NoItem /\ review'[i].of = review'[j].of BY DEF HasRow
  <2>2. CASE i \in ids /\ j \in ids BY <2>1, <2>2, <1>2, <1>4
  <2>3. CASE i \in ids /\ j \notin ids
    <3>1. of[i] = review[j].of /\ of[i] \in Pairs BY <2>1, <2>3, <1>4, <1>5
    <3>2. of[i] \in NewPairs BY <3>1, <1>2, <2>3
    <3>3. review[j] # NoItem BY <3>1, NoItemIsNone
    <3>. QED BY <3>1, <3>2, <3>3 DEF NewPairs, HasRow
  <2>4. CASE i \notin ids /\ j \in ids
    <3>1. of[j] = review[i].of /\ of[j] \in Pairs /\ review[i] # NoItem BY <2>1, <2>4, <1>4, <1>5
    <3>2. of[j] \in NewPairs BY <3>1, <1>2, <2>4
    <3>. QED BY <3>1, <3>2 DEF NewPairs, HasRow
  <2>5. CASE i \notin ids /\ j \notin ids BY <2>1, <2>5, <1>5 DEF Reviewed, OnePerPair, HasRow
  <2>. QED BY <2>2, <2>3, <2>4, <2>5
<1>8. ASSUME NEW d \in decided PROVE Stands(d)'
  <2>1. d \in Pairs /\ Stands(d) BY DEF Reviewed
  <2>2. PICK i \in ReviewIds : HasRow(i, d) BY <2>1 DEF Stands
  <2>3. HasRow(i, d)' BY <2>2, <1>3, <1>5 DEF HasRow
  <2>4. ASSUME NEW j \in ReviewIds, HasRow(j, d)' PROVE review'[j].at = "resolved"
    <3>1. j = i BY <2>1, <2>3, <2>4, <1>7 DEF OnePerPair, HasRow
    <3>. QED BY <3>1, <2>1, <2>2, <1>3, <1>5 DEF Stands, HasRow
  <2>. QED BY <2>3, <2>4 DEF Stands
<1>. QED BY <1>6, <1>7, <1>8 DEF Reviewed

\* A row that is marked stays what it was of; a pair decided on now is one a row of which is resolved.
LEMMA MarkedReviewed ==
    ASSUME Reviewed, listed' \subseteq ReviewIds \X Pairs, \A k \in deciding' : k.id \in ReviewIds /\ k.meant \in Pairs,
           review' \in [ReviewIds -> ReviewItems \cup {NoItem}],
           \A i \in ReviewIds : (review'[i] = NoItem <=> review[i] = NoItem) /\ review'[i].of = review[i].of,
           \A i \in ReviewIds : review[i].at = "resolved" => review'[i].at = "resolved",
           decided' \subseteq Pairs,
           \A d \in decided' \ decided : \E i \in ReviewIds : HasRow(i, d) /\ review'[i].at = "resolved"
    PROVE  Reviewed'
<1>1. OnePerPair' BY DEF Reviewed, OnePerPair, HasRow
<1>2. \A i \in ReviewIds, d \in Pairs : HasRow(i, d)' <=> HasRow(i, d) BY DEF HasRow
<1>3. ASSUME NEW d \in decided' PROVE Stands(d)'
  <2>1. d \in Pairs OBVIOUS
  <2>2. PICK i \in ReviewIds : HasRow(i, d) /\ review'[i].at = "resolved"
    <3>1. CASE d \in decided BY <3>1 DEF Reviewed, Stands
    <3>. QED BY <3>1
  <2>3. \A j \in ReviewIds : HasRow(j, d) => j = i BY <2>1, <2>2 DEF Reviewed, OnePerPair, HasRow
  <2>. QED BY <2>1, <2>2, <2>3, <1>2 DEF Stands
<1>. QED BY <1>1, <1>3 DEF Reviewed

\* Scans, new photos, suggestions, listings, clearings and decisions keep the table.
LEMMA NextReviewed == ASSUME Reviewed, [CNext]_<<vars, curated>> PROVE Reviewed'
<1>1. ASSUME UNCHANGED dupes PROVE Reviewed'
  BY <1>1 DEF dupes, Reviewed, OnePerPair, Stands, HasRow
<1>2. ASSUME ClearPairs \/ ScanPurge PROVE Reviewed'
  BY <1>2, ClearedReviewed DEF ClearPairs, ScanPurge
<1>3. ASSUME ScanInsert PROVE Reviewed'
  <2>1. NewPairs \cap Faces = {}
    <3>1. \A p \in Photos : Cardinality({p}) = 1 BY FS_Singleton
    <3>. QED BY <3>1 DEF NewPairs, Pairs, Faces
  <2>. QED BY <1>3, <2>1, NewRowsReviewed DEF ScanInsert
<1>4. ASSUME NEW p \in Photos, EmbedInsert(p) PROVE Reviewed'
  <2>1. NewPairs \cap Faces = {}
    <3>1. \A q \in Photos : Cardinality({q}) = 1 BY FS_Singleton
    <3>. QED BY <3>1 DEF NewPairs, Pairs, Faces
  <2>. QED BY <1>4, <2>1, NewRowsReviewed DEF EmbedInsert
<1>5. ASSUME NEW p \in Photos, Suggest(p) PROVE Reviewed'
  <2>1. {{p}} \subseteq Faces /\ {{p}} \cap Pairs = {}
    <3>1. Cardinality({p}) = 1 BY FS_Singleton
    <3>. QED BY <3>1 DEF Pairs, Faces
  <2>. QED BY <1>5, <2>1, NewRowsReviewed DEF Suggest
<1>6. ASSUME NEW i \in ReviewIds, AnswerFace(i) PROVE Reviewed'
  <2>1. review[i] \in ReviewItems BY <1>6 DEF AnswerFace, Reviewed
  <2>2. /\ [review[i] EXCEPT !.at = "resolved"] \in ReviewItems
        /\ [review[i] EXCEPT !.at = "resolved"].of = review[i].of
        /\ [review[i] EXCEPT !.at = "resolved"].at = "resolved"
    BY <2>1 DEF ReviewItems
  <2>3. review' = [review EXCEPT ![i] = [review[i] EXCEPT !.at = "resolved"]] BY <1>6 DEF AnswerFace
  <2>4. UNCHANGED <<listed, deciding, decided>> BY <1>6 DEF AnswerFace
  <2>. QED BY <2>1, <2>2, <2>3, <2>4, NoItemIsNone, MarkedReviewed DEF Reviewed
<1>7. ASSUME ListPairs PROVE Reviewed'
  <2>1. \A i \in ReviewIds : Unresolved(i) => /\ review[i] \in ReviewItems /\ review[i] # NoItem
                                               /\ review[i].of \in Pairs /\ review[i].at = "open"
    BY DEF Unresolved, Reviewed
  <2>2. \A i \in ReviewIds : Unresolved(i) => /\ [of |-> review[i].of, at |-> "auto"] \in ReviewItems
                                               /\ [of |-> review[i].of, at |-> "auto"].of = review[i].of
    BY <2>1 DEF ReviewItems
  <2>3. \A i \in ReviewIds : review'[i] = review[i] \/ (Unresolved(i) /\ review'[i] = [of |-> review[i].of, at |-> "auto"])
    BY <1>7 DEF ListPairs
  <2>4. review' \in [ReviewIds -> ReviewItems \cup {NoItem}] BY <1>7, <2>2 DEF ListPairs, Reviewed
  <2>5. listed' \subseteq ReviewIds \X Pairs BY <1>7, <2>1 DEF ListPairs, Reviewed
  <2>6. UNCHANGED <<deciding, decided>> BY <1>7 DEF ListPairs
  <2>7. \A i \in ReviewIds : /\ review'[i] = NoItem <=> review[i] = NoItem
                             /\ review'[i].of = review[i].of
                             /\ review[i].at = "resolved" => review'[i].at = "resolved"
    BY <2>1, <2>2, <2>3, NoItemIsNone
  <2>. QED BY <2>4, <2>5, <2>6, <2>7, MarkedReviewed DEF Reviewed
<1>8. ASSUME NEW i \in ReviewIds, NEW d \in Pairs, Decide(i, d) PROVE Reviewed'
  <2>1. PICK gone :
          deciding' = deciding \cup
              {[id |-> i, meant |-> d, gone |-> gone, at |-> IF gone = {} THEN "writing" ELSE "moving"]}
    BY <1>8 DEF Decide
  <2>2. \A k \in deciding' : k.id \in ReviewIds /\ k.meant \in Pairs BY <2>1 DEF Reviewed
  <2>3. UNCHANGED <<review, listed, decided>> BY <1>8 DEF Decide
  <2>. QED BY <2>2, <2>3, MarkedReviewed DEF Reviewed
<1>9. ASSUME NEW k \in deciding, DecideMoved(k) PROVE Reviewed'
  <2>1. PICK moved : moved = [k EXCEPT !.at = "writing"] OBVIOUS
  <2>2. moved.id = k.id /\ moved.meant = k.meant BY <2>1
  <2>3. deciding' = (deciding \ {k}) \cup {moved} BY <1>9, <2>1 DEF DecideMoved
  <2>4. \A o \in deciding' : o.id \in ReviewIds /\ o.meant \in Pairs BY <2>2, <2>3 DEF Reviewed
  <2>5. UNCHANGED <<review, listed, decided>> BY <1>9 DEF DecideMoved
  <2>. QED BY <2>4, <2>5, MarkedReviewed DEF Reviewed
<1>10. ASSUME NEW k \in deciding, DecideWrite(k) PROVE Reviewed'
  <2>1. k.id \in ReviewIds /\ k.meant \in Pairs BY DEF Reviewed
  <2>2. listed' = listed /\ deciding' \subseteq deciding BY <1>10 DEF DecideWrite
  <2>3. CASE UNCHANGED <<review, decided>> BY <2>2, <2>3, MarkedReviewed DEF Reviewed
  <2>4. CASE review[k.id] # NoItem /\ review' = [review EXCEPT ![k.id].at = "resolved"]
             /\ decided' = IF HasRow(k.id, k.meant) THEN decided \cup {k.meant} ELSE decided
    <3>1. review[k.id] \in ReviewItems BY <2>1, <2>4 DEF Reviewed
    <3>2. /\ [review[k.id] EXCEPT !.at = "resolved"] \in ReviewItems
          /\ [review[k.id] EXCEPT !.at = "resolved"].of = review[k.id].of
          /\ [review[k.id] EXCEPT !.at = "resolved"].at = "resolved"
      BY <3>1 DEF ReviewItems
    <3>3. review' = [review EXCEPT ![k.id] = [review[k.id] EXCEPT !.at = "resolved"]] BY <2>4
    <3>. QED BY <2>1, <2>2, <2>4, <3>1, <3>2, <3>3, NoItemIsNone, MarkedReviewed DEF Reviewed
  <2>. QED BY <1>10, <2>3, <2>4 DEF DecideWrite
<1>11. ASSUME Stopped PROVE Reviewed'
  <2>1. deciding' = {} /\ UNCHANGED <<review, listed, decided>> BY <1>11 DEF Stopped
  <2>. QED BY <2>1, MarkedReviewed DEF Reviewed
<1>12. ASSUME Bound PROVE Reviewed'
  <2>1. ASSUME NEW al \in Albums, CreateAlbum(al) \/ UpdateAlbum(al) \/ DeleteAlbum(al) \/ ChangeTrigger(al)
                                  \/ Reevaluate(al) \/ DropDuplicate(al)
        PROVE  UNCHANGED dupes
    BY <2>1 DEF CreateAlbum, UpdateAlbum, DeleteAlbum, ChangeTrigger, Reevaluate, DropDuplicate
  <2>2. ASSUME NEW p \in Photos, \/ TagJob(p) \/ EditCaption(p) \/ Trash(p)
                                 \/ \E t \in Tags : TagPhoto(p, t)
                                 \/ \E force \in BOOLEAN : CaptionLook(p, force)
        PROVE  UNCHANGED dupes
    BY <2>2 DEF TagJob, EditCaption, Trash, TagPhoto, CaptionLook
  <2>3. ASSUME \/ \E s, c \in Tags : MergeTags(s, c)
               \/ \E t \in Tags : Dealias(t)
               \/ StartScan
               \/ \E x \in Places : AddItem(x) \/ RemoveItem(x)
        PROVE  UNCHANGED dupes
    BY <2>3 DEF MergeTags, Dealias, StartScan, AddItem, RemoveItem
  <2>. QED BY <1>12, <2>1, <2>2, <2>3, <1>1, <1>2, <1>4, <1>5, <1>8 DEF Bound
<1>13. ASSUME Free PROVE Reviewed'
  <2>1. ASSUME EvalNext \/ LaneRead \/ CaptionWrite \/ \E e \in DOMAIN eval : EvalLook(e) \/ EvalCommit(e)
        PROVE  UNCHANGED dupes
    BY <2>1 DEF EvalNext, LaneRead, CaptionWrite, EvalLook, EvalCommit, dupes
  <2>. QED BY <1>13, <2>1, <1>1, <1>2, <1>3, <1>6, <1>7, <1>9, <1>10 DEF Free
<1>14. ASSUME Follow \/ UNCHANGED curated PROVE Reviewed' BY <1>14, <1>1 DEF Follow, curated, dupes
<1>. QED BY <1>11, <1>12, <1>13, <1>14 DEF CNext

\* What the user has put into an album, written or decided on stays (api/collections.py, caption_job.py,
\* api/review.py); a decision counts when it has reached the row of the pair it was meant for.
THEOREM ChoicesOfTheUserStay == CSpec => ChoicesStay
<1> DEFINE Stay == HandPicked /\ OwnWords /\ \A d \in decided' : Stands(d)'
<1>1. CInit => Shape /\ Reviewed
  <2>1. CInit => Reviewed
    <3> SUFFICES ASSUME CInit PROVE Reviewed OBVIOUS
    <3>1. review = [i \in ReviewIds |-> NoItem] /\ listed = {} /\ deciding = {} /\ decided = {} BY DEF CInit
    <3>. QED BY <3>1, NoItemIsNone DEF Reviewed, OnePerPair, HasRow
  <2>. QED BY <2>1, InitShape
<1>2. Shape /\ Reviewed /\ [CNext]_<<vars, curated>> => Shape' /\ Reviewed' BY NextShape, NextReviewed
<1>3. Shape /\ Reviewed /\ [CNext]_<<vars, curated>> => [Stay]_<<vars, curated>>
  BY NextReviewed, PickStays, WordsStay DEF Reviewed
<1>4. ChoicesStay <=> [][Stay]_<<vars, curated>> BY PTL DEF ChoicesStay
<1> HIDE DEF Stay
<1>. QED BY <1>1, <1>2, <1>3, <1>4, PTL DEF CSpec

(***************************************************************************)
(* Smart albums                                                             *)
(***************************************************************************)
\* A place is right when it has a row if and only if its album wants it; rows put in by hand are welcome.
Right(x) == (items[x] = "smart" => x \in Wanted) /\ (x \in Wanted => items[x] # "no")

\* What the lane asks for, and what is brought up to date after the main queue's evaluation.
Lane == Under(eval["lane"])
Later == Queued \cup Lane

\* What the main queue's evaluation has read is how things are, but for rows it saw that were taken over.
ReadRight(x) ==
    LET k == eval["main"]
    IN  /\ x \in Wanted <=> x \in k.wants
        /\ k.at = "seen" => /\ x \in Wanted /\ items[x] = "no" => k.seen[x] = "no"
                            /\ x \notin Wanted /\ items[x] = "smart" => k.seen[x] = "smart"

\* A place is right unless it is stale or will be evaluated; an album that is not smart has no smart
\* rows; and the evaluation of the main queue is right about the places nothing will correct after it.
Followed(x) == x \notin stale \cup Pending => Right(x)
PlainEmpty(x) == x[1] \notin Smart /\ items[x] = "smart" => x \in stale
PlainKnown(x) == x \in Over(eval["main"]) /\ x[1] \notin Smart => x \in stale \cup eval["main"].beside
MainRight(x) == x \in Over(eval["main"]) /\ x \notin stale \cup eval["main"].beside \cup Later => ReadRight(x)
Place(x) == Followed(x) /\ PlainEmpty(x) /\ PlainKnown(x) /\ MainRight(x)
SInv == Shape /\ \A x \in Places : Place(x)

\* What will be brought up to date.
LEMMA PendingParts ==
    ASSUME Shape
    PROVE  /\ Pending = Later \cup Over(eval["main"])
           /\ Running = Over(eval["main"]) \cup Over(eval["lane"])
           /\ Over(eval["lane"]) \subseteq Lane
<1>1. DOMAIN eval = {"main", "lane"} BY DEF Shape
<1>2. Under(eval["main"]) = Over(eval["main"])
  <2>1. CASE eval["main"] = NoEval BY <2>1 DEF NoEval, Under, Over
  <2>2. CASE eval["main"] \in Rounds BY <2>2 DEF Rounds, Under, Over
  <2>. QED BY <2>1, <2>2 DEF Shape
<1>3. Over(eval["lane"]) \subseteq Lane BY DEF Over, Lane, Under
<1>4. UNION {Under(eval[e]) : e \in DOMAIN eval} = Under(eval["main"]) \cup Under(eval["lane"]) BY <1>1
<1>5. UNION {Over(eval[e]) : e \in DOMAIN eval} = Over(eval["main"]) \cup Over(eval["lane"]) BY <1>1
<1>. QED BY <1>2, <1>3, <1>4, <1>5 DEF Pending, Running, Later, Lane

\* The same after a step.
LEMMA PendingPartsAfter ==
    ASSUME Shape'
    PROVE  Pending' = Later' \cup Over(eval'["main"])
<1>1. DOMAIN eval' = {"main", "lane"} BY DEF Shape
<1>2. Under(eval'["main"]) = Over(eval'["main"])
  <2>1. CASE eval'["main"] = NoEval BY <2>1 DEF NoEval, Under, Over
  <2>2. CASE eval'["main"] \in Rounds' BY <2>2 DEF Rounds, Under, Over
  <2>. QED BY <2>1, <2>2 DEF Shape
<1>4. UNION {Under(eval'[e]) : e \in DOMAIN eval'} = Under(eval'["main"]) \cup Under(eval'["lane"]) BY <1>1
<1>. QED BY <1>2, <1>4 DEF Pending, Later, Lane

\* Albums want the same of a photo that looks the same.
LEMMA MatchStays ==
    ASSUME Shape, Shape', NEW x \in Places, album'[x[1]] = album[x[1]], x[2] \in active' <=> x[2] \in active,
           tag'[x[2]] = tag[x[2]], alias' = alias, caption'[x[2]] = caption[x[2]], shows'[x[2]] = shows[x[2]]
    PROVE  x \in Wanted' <=> x \in Wanted
<1> DEFINE al == x[1]
           p == x[2]
<1>1. \A t : Has(p, t)' <=> Has(p, t) BY DEF Has
<1>2. \A t : Hit(t, p)' <=> Hit(t, p)
  <2>1. ASSUME NEW t PROVE Hit(t, p)' <=> Hit(t, p)
    <3>1. CASE t.type = "tag" BY <3>1, <1>1 DEF Hit
    <3>2. CASE t.type = "caption" BY <3>2 DEF Hit
    <3>3. CASE t.type \notin {"tag", "caption"} BY <3>3 DEF Hit
    <3>. QED BY <3>1, <3>2, <3>3
  <2>. QED BY <2>1
<1>3. Matches(al, p)' <=> Matches(al, p) BY <1>2 DEF Matches
<1>. QED BY <1>3 DEF Wanted

\* A place that a step leaves as it is stays right when what asks for it stays, and what it is wanted
\* for stays, or something asks for it.
LEMMA PlaceStays ==
    ASSUME Shape, Shape', NEW x \in Places, Place(x), eval'["main"] = eval["main"], items'[x] = items[x],
           x \in Later => x \in Later', x \in stale => x \in stale',
           album'[x[1]].kind = "smart" <=> album[x[1]].kind = "smart",
           (x \in Wanted' <=> x \in Wanted) \/ x \in stale' \cup Later'
    PROVE  Place(x)'
<1>1. x[1] \in Smart' <=> x[1] \in Smart BY DEF Smart
<1>2. Pending = Later \cup Over(eval["main"]) BY PendingParts
<1>3. Pending' = Later' \cup Over(eval'["main"]) BY PendingPartsAfter
<1>4. Followed(x)'
  <2> SUFFICES ASSUME x \notin stale', x \notin Pending' PROVE Right(x)' BY DEF Followed
  <2>1. Right(x) BY <1>2, <1>3 DEF Place, Followed
  <2>. QED BY <2>1, <1>3 DEF Right
<1>5. PlainEmpty(x)' BY <1>1 DEF Place, PlainEmpty
<1>6. PlainKnown(x)' BY <1>1 DEF Place, PlainKnown
<1>7. MainRight(x)'
  <2> SUFFICES ASSUME x \in Over(eval'["main"]), x \notin stale', x \notin eval'["main"].beside, x \notin Later'
               PROVE  ReadRight(x)'
    BY DEF MainRight
  <2>1. ReadRight(x) BY DEF Place, MainRight
  <2>. QED BY <2>1 DEF ReadRight
<1>. QED BY <1>4, <1>5, <1>6, <1>7 DEF Place

\* A step that changes no rows and no kinds, and asks for what it changes.
LEMMA PlacesStay ==
    ASSUME SInv, Shape', eval'["main"] = eval["main"], items' = items, Later \subseteq Later', stale \subseteq stale',
           \A al \in Albums : album'[al].kind = album[al].kind,
           \A x \in Places : (x \in Wanted' <=> x \in Wanted) \/ x \in stale' \cup Later'
    PROVE  SInv'
<1>1. ASSUME NEW x \in Places PROVE Place(x)'
  <2>1. x[1] \in Albums BY DEF Places
  <2>. QED BY <2>1, PlaceStays DEF SInv
<1>. QED BY <1>1 DEF SInv

\* What changes without being asked for is stale.
LEMMA UnaskedStale ==
    ASSUME NEW asked, Unasked(asked)
    PROVE  /\ stale \subseteq stale'
           /\ \A x \in Places : (x \in Wanted' <=> x \in Wanted) \/ x \in stale' \cup asked
BY DEF Unasked

\* Requests are for what they ask, and those that are there stay.
LEMMA RequestsQueued ==
    ASSUME Shape
    PROVE  /\ \A ps \in SUBSET Photos : Ask(ForPhotos(ps)) => Queued' = Queued \cup Of(ps)
           /\ \A al \in Albums : AskAlbum(al) => Queued' = Queued \cup ({al} \X Photos)
           /\ UNCHANGED queue => Queued' = Queued
<1>1. ASSUME NEW ps \in SUBSET Photos, Ask(ForPhotos(ps)) PROVE Queued' = Queued \cup Of(ps)
  BY <1>1, PhotosAsked, AskedQueued DEF Shape
<1>2. ASSUME NEW al \in Albums, AskAlbum(al) PROVE Queued' = Queued \cup ({al} \X Photos)
  <2>1. PICK more : more = <<<<"album", al>>>> OBVIOUS
  <2>2. more \in Seq(Requests) /\ DOMAIN more = {1} /\ more[1] = <<"album", al>> BY <2>1 DEF Requests
  <2>3. UNION {Asked(more[i]) : i \in DOMAIN more} = Asked(<<"album", al>>) BY <2>2
  <2>4. Asked(<<"album", al>>) = {al} \X Photos BY DEF Asked
  <2>5. Ask(more) BY <1>2, <2>1 DEF AskAlbum
  <2>. QED BY <2>2, <2>3, <2>4, <2>5, AskedQueued DEF Shape
<1>3. ASSUME UNCHANGED queue PROVE Queued' = Queued BY <1>3 DEF Queued, Asked, Of
<1>. QED BY <1>1, <1>2, <1>3

\* Persons that come and go.
LEMMA FollowStays == ASSUME SInv, Shape', Follow PROVE SInv'
<1> DEFINE changed == {p \in Photos : shows'[p] # shows[p]}
<1>1. /\ items' = items /\ eval' = eval /\ album' = TriggersAfter(people \ people')
      /\ \/ Ask(ForPhotos(changed)) /\ Unasked(Of(changed))
         \/ UNCHANGED queue /\ Unasked({})
  BY DEF Follow
<1>2. \A al \in Albums : album'[al].kind = album[al].kind BY <1>1, AlbumsAfter DEF SInv
<1>3. changed \in SUBSET Photos OBVIOUS
<1> HIDE DEF changed
<1>4. Lane' = Lane BY <1>1 DEF Lane
<1>5. CASE Ask(ForPhotos(changed)) /\ Unasked(Of(changed))
  <2>1. Queued' = Queued \cup Of(changed) BY <1>3, <1>5, RequestsQueued DEF SInv
  <2>2. Later' = Later \cup Of(changed) BY <2>1, <1>4 DEF Later
  <2>3. stale \subseteq stale' /\ \A x \in Places : (x \in Wanted' <=> x \in Wanted) \/ x \in stale' \cup Of(changed)
    BY <1>5, UnaskedStale
  <2>4. \A x \in Places : (x \in Wanted' <=> x \in Wanted) \/ x \in stale' \cup Later' BY <2>2, <2>3
  <2>. QED BY <1>1, <1>2, <2>2, <2>3, <2>4, PlacesStay
<1>6. CASE UNCHANGED queue /\ Unasked({})
  <2>1. Later' = Later BY <1>4, <1>6, RequestsQueued DEF Later, SInv
  <2>2. stale \subseteq stale' /\ \A x \in Places : (x \in Wanted' <=> x \in Wanted) \/ x \in stale' \cup {}
    BY <1>6, UnaskedStale
  <2>3. \A x \in Places : (x \in Wanted' <=> x \in Wanted) \/ x \in stale' \cup Later' BY <2>1, <2>2
  <2>. QED BY <1>1, <1>2, <2>1, <2>2, <2>3, PlacesStay
<1>. QED BY <1>1, <1>5, <1>6

\* An album that is not smart wants nothing, and one without triggers neither.
LEMMA NoneWanted ==
    ASSUME NEW x \in Places, album[x[1]].kind # "smart" \/ album[x[1]].triggers = {}
    PROVE  x \notin Wanted
BY DEF Wanted, Matches

\* A place of an album that has just been emptied.
LEMMA EmptiedPlace ==
    ASSUME Shape, Shape', NEW x \in Places, eval' = eval, items'[x] # "smart", album'[x[1]].kind # "smart",
           stale' = Emptied(x[1])
    PROVE  Place(x)'
<1>1. x \notin Wanted' BY DEF Wanted
<1>2. x[1] \notin Smart' BY DEF Smart
<1>3. x \in Over(eval["main"]) => x \in stale' BY PendingParts DEF Emptied
<1>. QED BY <1>1, <1>2, <1>3 DEF Place, Followed, Right, PlainEmpty, PlainKnown, MainRight

\* A place that a request has been queued for, in an album that is smart.
LEMMA RequestedPlace ==
    ASSUME Shape', NEW x \in Places, album'[x[1]].kind = "smart", x \in Later'
    PROVE  Place(x)'
<1>1. x[1] \in Smart' BY DEF Smart, Places
<1>2. x \in Pending' BY PendingPartsAfter
<1>. QED BY <1>1, <1>2 DEF Place, Followed, PlainEmpty, PlainKnown, MainRight

\* What the user does with albums and their triggers.
LEMMA AlbumStays ==
    ASSUME SInv, Shape', shows' = shows, NEW al \in Albums,
           CreateAlbum(al) \/ UpdateAlbum(al) \/ DeleteAlbum(al) \/ ChangeTrigger(al) \/ Reevaluate(al)
    PROVE  SInv'
<1> USE DEF shelf, jobs, dupes
<1>0. Shape /\ \A x \in Places : Place(x) BY DEF SInv
<1>1. eval' = eval /\ Lane' = Lane BY DEF CreateAlbum, UpdateAlbum, DeleteAlbum, ChangeTrigger, Reevaluate, Lane
<1>2. UNCHANGED <<active, tag, alias, caption>>
  BY DEF CreateAlbum, UpdateAlbum, DeleteAlbum, ChangeTrigger, Reevaluate
<1>3. \A o \in Albums : o # al => album'[o] = album[o]
  BY <1>0 DEF CreateAlbum, UpdateAlbum, DeleteAlbum, ChangeTrigger, Reevaluate, Shape
<1>4. \A x \in Places : x[1] \in Albums BY DEF Places
<1>5. Queued \subseteq Queued' /\ (Queued' = Queued \/ Queued' = Queued \cup ({al} \X Photos))
  <2>1. AskAlbum(al) \/ UNCHANGED queue
    <3>1. ASSUME UpdateAlbum(al) PROVE AskAlbum(al) \/ UNCHANGED queue BY <3>1 DEF UpdateAlbum
    <3>. QED BY <3>1 DEF CreateAlbum, DeleteAlbum, ChangeTrigger, Reevaluate
  <2>. QED BY <2>1, <1>0, RequestsQueued
<1>6. Later \subseteq Later' BY <1>1, <1>5 DEF Later
<1>7. \A x \in Places : x[1] # al => (x \in stale <=> x \in stale') /\ items'[x] = items[x]
  <2>1. ASSUME UpdateAlbum(al), NEW x \in Places, x[1] # al
        PROVE  (x \in stale <=> x \in stale') /\ items'[x] = items[x]
    BY <2>1 DEF UpdateAlbum, WithKind, Emptied
  <2>2. ASSUME DeleteAlbum(al), NEW x \in Places, x[1] # al
        PROVE  (x \in stale <=> x \in stale') /\ items'[x] = items[x]
    BY <2>2 DEF DeleteAlbum, Emptied
  <2>. QED BY <2>1, <2>2 DEF CreateAlbum, ChangeTrigger, Reevaluate
<1>8. ASSUME NEW x \in Places, x[1] # al PROVE Place(x)'
  <2>1. album'[x[1]] = album[x[1]] BY <1>3, <1>4, <1>8
  <2>2. x \in Wanted' <=> x \in Wanted BY <1>0, <1>2, <2>1, MatchStays
  <2>. QED BY <1>0, <1>1, <1>6, <1>7, <1>8, <2>1, <2>2, PlaceStays
<1>9. ASSUME NEW x \in Places, x[1] = al PROVE Place(x)'
  <2>0. x \in {al} \X Photos BY <1>9 DEF Places
  <2>1. CASE CreateAlbum(al)
    <3>1. album[al].kind = "none" /\ album'[al].triggers = {} /\ UNCHANGED <<items, stale, queue>>
      BY <2>1, <1>0 DEF CreateAlbum, Shape
    <3>2. x \notin Wanted BY <3>1, <1>9, NoneWanted
    <3>3. x \notin Wanted' BY <3>1, <1>9 DEF Wanted, Matches
    <3>4. x[1] \notin Smart BY <3>1, <1>9 DEF Smart
    <3>5. items[x] = "smart" => x \in stale BY <1>0, <3>4 DEF Place, PlainEmpty
    <3>6. x \in Over(eval["main"]) => x \in stale \cup eval["main"].beside BY <1>0, <3>4 DEF Place, PlainKnown
    <3>. QED BY <1>1, <3>1, <3>3, <3>5, <3>6 DEF Place, Followed, Right, PlainEmpty, PlainKnown, MainRight
  <2>2. CASE UpdateAlbum(al)
    <3>1. PICK kind \in {"smart", "plain"}, mode \in {"any", "all"} :
             /\ album' = [album EXCEPT ![al].kind = kind, ![al].mode = mode]
             /\ items' = WithKind(al, kind)
             /\ IF kind = "smart" THEN AskAlbum(al) ELSE UNCHANGED queue
             /\ stale' = IF album[al].kind = "smart" /\ kind # "smart" THEN Emptied(al) ELSE stale
      BY <2>2 DEF UpdateAlbum
    <3>2. album[al] \in AlbumSet BY <1>0 DEF Shape
    <3>3. album'[al].kind = kind BY <1>0, <3>1, <3>2 DEF Shape, AlbumSet
    <3>4. CASE kind = "smart"
      <4>1. x \in Later' BY <1>0, <3>1, <3>4, <2>0, RequestsQueued DEF Later
      <4>. QED BY <4>1, <3>3, <3>4, <1>9, RequestedPlace
    <3>5. CASE kind # "smart" /\ album[al].kind = "smart"
      <4>1. items'[x] # "smart" BY <3>1, <3>5, <1>9 DEF WithKind
      <4>. QED BY <4>1, <1>0, <1>1, <1>9, <3>1, <3>3, <3>5, EmptiedPlace
    <3>6. CASE kind # "smart" /\ album[al].kind # "smart"
      <4>1. items'[x] = items[x] /\ stale' = stale BY <3>1, <3>6, <1>9 DEF WithKind
      <4>2. x \notin Wanted BY <3>6, <1>9, NoneWanted
      <4>3. x \notin Wanted' BY <3>3, <3>6, <1>9 DEF Wanted
      <4>. QED BY <4>1, <4>2, <4>3, <3>3, <3>6, <1>0, <1>1, <1>6, <1>9, PlaceStays
    <3>. QED BY <3>4, <3>5, <3>6
  <2>3. CASE DeleteAlbum(al)
    <3>1. items'[x] = "no" /\ stale' = Emptied(al) BY <2>3, <1>9 DEF DeleteAlbum
    <3>2. album'[al].kind = "none" BY <2>3, <1>0 DEF DeleteAlbum, NoAlbum, Shape
    <3>. QED BY <3>1, <3>2, <1>0, <1>1, <1>9, EmptiedPlace
  <2>4. CASE ChangeTrigger(al)
    <3>1. PICK old, new : album' = [album EXCEPT ![al].triggers = (@ \ old) \cup new] BY <2>4 DEF ChangeTrigger
    <3>2. album[al] \in AlbumSet BY <1>0 DEF Shape
    <3>3. album'[al].kind = album[al].kind BY <1>0, <3>1, <3>2 DEF Shape, AlbumSet
    <3>4. x \in Later' BY <1>0, <2>4, <2>0, RequestsQueued DEF Later, ChangeTrigger
    <3>5. UNCHANGED <<items, stale>> BY <2>4 DEF ChangeTrigger
    <3>. QED BY <1>0, <1>1, <1>6, <1>9, <3>3, <3>4, <3>5, PlaceStays
  <2>5. CASE Reevaluate(al)
    <3>1. x \in Later' BY <1>0, <2>5, <2>0, RequestsQueued DEF Later, Reevaluate
    <3>2. UNCHANGED <<album, items, stale>> BY <2>5 DEF Reevaluate
    <3>. QED BY <1>0, <1>1, <1>6, <1>9, <3>1, <3>2, PlaceStays
  <2>. QED BY <2>1, <2>2, <2>3, <2>4, <2>5
<1>. QED BY <1>8, <1>9 DEF SInv

\* What the user puts into an album and takes out of it.
LEMMA ItemStays ==
    ASSUME SInv, Shape', shows' = shows, NEW y \in Places, AddItem(y) \/ RemoveItem(y)
    PROVE  SInv'
<1> USE DEF jobs, dupes
<1>0. Shape /\ \A x \in Places : Place(x) BY DEF SInv
<1>1. UNCHANGED <<album, tag, alias, caption, active, eval, queue>> BY DEF AddItem, RemoveItem
<1>2. \A x \in Places : x \in Wanted' <=> x \in Wanted BY <1>0, <1>1, MatchStays
<1>3. Later' = Later BY <1>0, <1>1, RequestsQueued DEF Later, Lane
<1>4. \A x \in Places : x # y => (x \in stale <=> x \in stale') /\ items'[x] = items[x]
  BY <1>0 DEF AddItem, RemoveItem, Shape
<1>5. ASSUME NEW x \in Places, x # y PROVE Place(x)'
  BY <1>0, <1>1, <1>2, <1>3, <1>4, <1>5, PlaceStays
<1>6. Place(y)'
  <2>1. CASE AddItem(y)
    <3>1. items'[y] = "manual" /\ stale' = stale BY <2>1, <1>0 DEF AddItem, Shape
    <3>2. y[1] \in Smart' <=> y[1] \in Smart BY <1>1 DEF Smart
    <3>3. Followed(y)' BY <3>1 DEF Followed, Right
    <3>4. PlainEmpty(y)' BY <3>1 DEF PlainEmpty
    <3>5. PlainKnown(y)' BY <3>1, <3>2, <1>0, <1>1 DEF PlainKnown, Place
    <3>6. MainRight(y)' BY <3>1, <1>0, <1>1, <1>2, <1>3 DEF MainRight, ReadRight, Place
    <3>. QED BY <3>3, <3>4, <3>5, <3>6 DEF Place
  <2>2. CASE RemoveItem(y)
    <3>1. items'[y] = "no" /\ stale' = IF y \in Wanted THEN stale \cup {y} ELSE stale \ ({y} \ Running)
      BY <2>2, <1>0 DEF RemoveItem, Shape
    <3>2. CASE y \in Wanted
      <4>1. y \in stale' BY <3>1, <3>2
      <4>. QED BY <4>1 DEF Place, Followed, PlainEmpty, PlainKnown, MainRight
    <3>3. CASE y \notin Wanted
      <4>1. y \notin Wanted' BY <3>3, <1>2
      <4>2. y \in Over(eval["main"]) => (y \in stale' <=> y \in stale) BY <3>1, <3>3, <1>0, PendingParts
      <4>3. y[1] \in Smart' <=> y[1] \in Smart BY <1>1 DEF Smart
      <4>4. Followed(y)' BY <3>1, <4>1 DEF Followed, Right
      <4>5. PlainEmpty(y)' BY <3>1 DEF PlainEmpty
      <4>6. PlainKnown(y)' BY <4>2, <4>3, <1>0, <1>1 DEF PlainKnown, Place
      <4>7. MainRight(y)' BY <3>1, <4>1, <4>2, <1>0, <1>1, <1>2, <1>3 DEF MainRight, ReadRight, Place
      <4>. QED BY <4>4, <4>5, <4>6, <4>7 DEF Place
    <3>. QED BY <3>2, <3>3
  <2>. QED BY <2>1, <2>2
<1>. QED BY <1>5, <1>6 DEF SInv

\* A step that changes no album and no row, and leaves what it changes to places that are asked for.
LEMMA SubjectStays ==
    ASSUME SInv, Shape', UNCHANGED <<album, items>>, eval'["main"] = eval["main"], NEW asked,
           Later \subseteq Later', asked \subseteq Later', stale \subseteq stale',
           \A x \in Places : (x \in Wanted' <=> x \in Wanted) \/ x \in stale' \cup asked
    PROVE  SInv'
<1>1. \A x \in Places : (x \in Wanted' <=> x \in Wanted) \/ x \in stale' \cup Later' OBVIOUS
<1>. QED BY <1>1, PlacesStay

\* The photos of places that are not asked for.
LEMMA OtherPhotos ==
    ASSUME Shape, Shape', NEW p \in Photos, shows' = shows, UNCHANGED <<album, alias, active>>,
           \A q \in Photos : q # p => tag'[q] = tag[q] /\ caption'[q] = caption[q]
    PROVE  \A x \in Places : (x \in Wanted' <=> x \in Wanted) \/ x \in stale' \cup Of({p})
<1>1. ASSUME NEW x \in Places, x \notin Of({p}) PROVE x \in Wanted' <=> x \in Wanted
  <2>1. x[2] \in Photos /\ x[2] # p BY <1>1 DEF Places, Of
  <2>2. tag'[x[2]] = tag[x[2]] /\ caption'[x[2]] = caption[x[2]] BY <2>1
  <2>. QED BY <2>2, MatchStays
<1>. QED BY <1>1

\* What the user and the jobs do with the tags and captions of photos.
LEMMA PhotoStays ==
    ASSUME SInv, Shape', shows' = shows, NEW p \in Photos,
           \/ \E t \in Tags : TagPhoto(p, t)
           \/ EditCaption(p)
           \/ TagJob(p)
           \/ CaptionWrite /\ captioner.photo = p
    PROVE  SInv'
<1>0. Shape BY DEF SInv
<1>1. CASE \E t \in Tags : TagPhoto(p, t)
  <2>1. PICK t \in Tags : TagPhoto(p, t) BY <1>1
  <2>2. /\ UNCHANGED <<album, items, alias, caption, active, eval, stale>>
        /\ Ask(ForPhotos({p})) /\ tag' \in {Added(p, t), Removed(p, t)}
    BY <2>1 DEF TagPhoto
  <2>3. \A q \in Photos : q # p => tag'[q] = tag[q] BY <1>0, <2>2 DEF Added, Removed, Shape
  <2>4. Queued' = Queued \cup Of({p}) BY <1>0, <2>2, RequestsQueued
  <2>5. Later' = Later \cup Of({p}) BY <2>2, <2>4 DEF Later, Lane
  <2>6. \A x \in Places : (x \in Wanted' <=> x \in Wanted) \/ x \in stale' \cup Of({p})
    BY <1>0, <2>2, <2>3, OtherPhotos
  <2>. QED BY <2>2, <2>5, <2>6, SubjectStays
<1>2. CASE EditCaption(p)
  <2>2. /\ UNCHANGED <<album, items, tag, alias, active, eval, stale>>
        /\ Ask(ForPhotos({p})) /\ \E w : caption' = [caption EXCEPT ![p] = w]
    BY <1>2 DEF EditCaption
  <2>3. \A q \in Photos : q # p => caption'[q] = caption[q] BY <1>0, <2>2 DEF Shape
  <2>4. Queued' = Queued \cup Of({p}) BY <1>0, <2>2, RequestsQueued
  <2>5. Later' = Later \cup Of({p}) BY <2>2, <2>4 DEF Later, Lane
  <2>6. \A x \in Places : (x \in Wanted' <=> x \in Wanted) \/ x \in stale' \cup Of({p})
    BY <1>0, <2>2, <2>3, OtherPhotos
  <2>. QED BY <2>2, <2>5, <2>6, SubjectStays
<1>3. ASSUME eval["lane"].at = "none", eval' = [eval EXCEPT !.lane = [at |-> "start", photo |-> p]], UNCHANGED queue
      PROVE  Later' = Later \cup Of({p}) /\ eval'["main"] = eval["main"]
  <2>1. eval'["lane"] = [at |-> "start", photo |-> p] /\ eval'["main"] = eval["main"] BY <1>0, <1>3 DEF Shape
  <2>2. Lane' = Of({p}) BY <2>1 DEF Lane, Under
  <2>3. Lane = {} BY <1>3 DEF Lane, Under
  <2>4. Queued' = Queued BY <1>0, <1>3, RequestsQueued
  <2>. QED BY <2>1, <2>2, <2>3, <2>4 DEF Later
<1>4. CASE TagJob(p)
  <2>1. /\ eval["lane"].at = "none" /\ eval' = [eval EXCEPT !.lane = [at |-> "start", photo |-> p]]
        /\ UNCHANGED <<album, items, queue>> /\ Unasked(Of({p}))
    BY <1>4 DEF TagJob
  <2>2. /\ stale \subseteq stale'
        /\ \A x \in Places : (x \in Wanted' <=> x \in Wanted) \/ x \in stale' \cup Of({p})
    BY <2>1, UnaskedStale
  <2>. QED BY <2>1, <2>2, <1>3, SubjectStays
<1>5. CASE CaptionWrite /\ captioner.photo = p
  <2>1. UNCHANGED <<album, items, tag, alias, active, queue, stale>> BY <1>5 DEF CaptionWrite
  <2>2. CASE UNCHANGED <<caption, eval>>
    <3>1. Later' = Later BY <1>0, <2>1, <2>2, RequestsQueued DEF Later, Lane
    <3>2. \A x \in Places : (x \in Wanted' <=> x \in Wanted) \/ x \in stale' \cup {}
      BY <1>0, <2>1, <2>2, MatchStays
    <3>. QED BY <2>1, <2>2, <3>1, <3>2, SubjectStays
  <2>3. CASE /\ eval' = [eval EXCEPT !.lane = [at |-> "start", photo |-> p]]
             /\ \E w : caption' = [caption EXCEPT ![p] = w]
    <3>1. \A q \in Photos : q # p => caption'[q] = caption[q] BY <1>0, <2>3 DEF Shape
    <3>2. eval["lane"].at = "none" BY <1>5 DEF CaptionWrite
    <3>3. Later' = Later \cup Of({p}) /\ eval'["main"] = eval["main"] BY <2>1, <2>3, <3>2, <1>3
    <3>4. \A x \in Places : (x \in Wanted' <=> x \in Wanted) \/ x \in stale' \cup Of({p})
      BY <1>0, <2>1, <3>1, OtherPhotos
    <3>. QED BY <2>1, <3>3, <3>4, SubjectStays
  <2>4. \/ UNCHANGED <<caption, eval>>
        \/ /\ eval' = [eval EXCEPT !.lane = [at |-> "start", photo |-> p]]
           /\ \E w : caption' = [caption EXCEPT ![p] = w]
    BY <1>5 DEF CaptionWrite
  <2>. QED BY <2>2, <2>3, <2>4
<1>. QED BY <1>1, <1>2, <1>4, <1>5

\* Nothing changes but what no album looks at.
LEMMA NothingWanted ==
    ASSUME SInv, Shape', shows' = shows, UNCHANGED <<album, items, tag, alias, caption, active, eval, stale>>,
           Queued \subseteq Queued'
    PROVE  SInv'
<1>0. Shape BY DEF SInv
<1>1. Later \subseteq Later' BY DEF Later, Lane
<1>2. \A x \in Places : (x \in Wanted' <=> x \in Wanted) \/ x \in stale' \cup {} BY <1>0, MatchStays
<1>. QED BY <1>1, <1>2, SubjectStays

\* What nobody asks an evaluation for.
LEMMA UnaskedStays ==
    ASSUME SInv, Shape', UNCHANGED <<album, items, eval>>, NEW asked, Later \subseteq Later', asked \subseteq Later',
           Unasked(asked)
    PROVE  SInv'
BY UnaskedStale, SubjectStays

\* What the user does.
LEMMA BoundStays == ASSUME SInv, Shape', shows' = shows, Bound PROVE SInv'
<1> USE DEF shelf, jobs, dupes
<1>0. Shape BY DEF SInv
<1>1. ASSUME UNCHANGED queue, UNCHANGED eval PROVE Later' = Later
  BY <1>0, <1>1, RequestsQueued DEF Later, Lane
<1>2. ASSUME NEW al \in Albums, CreateAlbum(al) \/ UpdateAlbum(al) \/ DeleteAlbum(al) \/ ChangeTrigger(al)
                                \/ Reevaluate(al)
      PROVE  SInv'
  BY <1>2, AlbumStays
<1>3. ASSUME NEW al \in Albums, DropDuplicate(al) PROVE SInv'
  <2>1. UNCHANGED <<album, items, eval, queue>> /\ Unasked({}) BY <1>3 DEF DropDuplicate
  <2>. QED BY <2>1, <1>1, UnaskedStays
<1>4. ASSUME NEW x \in Places, AddItem(x) \/ RemoveItem(x) PROVE SInv' BY <1>4, ItemStays
<1>5. ASSUME NEW p \in Photos, NEW t \in Tags, TagPhoto(p, t) PROVE SInv' BY <1>5, PhotoStays
<1>6. ASSUME NEW s \in Tags, NEW c \in Tags, MergeTags(s, c) PROVE SInv'
  <2>1. /\ UNCHANGED <<album, items, eval>> /\ Ask(ForPhotos(Tagged(s))) /\ Unasked(Of(Tagged(s)))
    BY <1>6 DEF MergeTags
  <2>2. Tagged(s) \in SUBSET Photos BY DEF Tagged
  <2>3. Queued' = Queued \cup Of(Tagged(s)) BY <1>0, <2>1, <2>2, RequestsQueued
  <2>4. Later' = Later \cup Of(Tagged(s)) BY <2>1, <2>3 DEF Later, Lane
  <2>. QED BY <2>1, <2>4, UnaskedStays
<1>7. ASSUME NEW t \in Tags, Dealias(t) PROVE SInv'
  <2>1. UNCHANGED <<album, items, eval, queue>> /\ Unasked({}) BY <1>7 DEF Dealias
  <2>. QED BY <2>1, <1>1, UnaskedStays
<1>8. ASSUME NEW p \in Photos, TagJob(p) \/ EditCaption(p) PROVE SInv' BY <1>8, PhotoStays
<1>9. ASSUME NEW p \in Photos, Trash(p) PROVE SInv'
  <2>1. UNCHANGED <<album, items, eval, queue>> /\ Unasked({}) BY <1>9 DEF Trash
  <2>. QED BY <2>1, <1>1, UnaskedStays
<1>10. ASSUME NEW p \in Photos, NEW force \in BOOLEAN, CaptionLook(p, force) PROVE SInv'
  <2>1. UNCHANGED <<album, items, tag, alias, caption, active, eval, stale, queue>> BY <1>10 DEF CaptionLook
  <2>. QED BY <2>1, <1>0, RequestsQueued, NothingWanted
<1>11. ASSUME StartScan PROVE SInv'
  <2>1. PICK first \in {"purge", "compare"} : Ask(<<<<first>>>>) BY <1>11 DEF StartScan
  <2>2. PICK more : more = <<<<first>>>> OBVIOUS
  <2>3. more \in Seq(Requests) BY <2>2 DEF Requests
  <2>4. Queued \subseteq Queued' BY <2>1, <2>2, <2>3, <1>0, AskedQueued DEF Shape
  <2>. QED BY <1>11, <2>4, NothingWanted DEF StartScan
<1>12. ASSUME ClearPairs PROVE SInv'
  <2>1. UNCHANGED <<album, items, tag, alias, caption, active, eval, stale, queue>> BY <1>12 DEF ClearPairs
  <2>. QED BY <2>1, <1>0, RequestsQueued, NothingWanted
<1>13. ASSUME \/ \E p \in Photos : EmbedInsert(p) \/ Suggest(p)
              \/ \E i \in ReviewIds, d \in Pairs : Decide(i, d)
       PROVE  SInv'
  <2>1. UNCHANGED <<album, items, tag, alias, caption, active, eval, stale, queue>>
    BY <1>13 DEF EmbedInsert, Suggest, Decide
  <2>. QED BY <2>1, <1>0, RequestsQueued, NothingWanted
<1>14. Bound =>
         \/ \E al \in Albums : CreateAlbum(al) \/ UpdateAlbum(al) \/ DeleteAlbum(al) \/ ChangeTrigger(al)
                               \/ Reevaluate(al) \/ DropDuplicate(al)
         \/ \E x \in Places : AddItem(x) \/ RemoveItem(x)
         \/ \E p \in Photos, t \in Tags : TagPhoto(p, t)
         \/ \E s, c \in Tags : MergeTags(s, c)
         \/ \E t \in Tags : Dealias(t)
         \/ \E p \in Photos : TagJob(p) \/ EditCaption(p) \/ Trash(p)
         \/ \E p \in Photos, force \in BOOLEAN : CaptionLook(p, force)
         \/ StartScan \/ ClearPairs
         \/ \E p \in Photos : EmbedInsert(p) \/ Suggest(p)
         \/ \E i \in ReviewIds, d \in Pairs : Decide(i, d)
  BY DEF Bound
<1>. QED BY <1>2, <1>3, <1>4, <1>5, <1>6, <1>7, <1>8, <1>9, <1>10, <1>11, <1>12, <1>13, <1>14

\* Albums and what they look at stay, so they want the same.
LEMMA WantedStays ==
    ASSUME Shape, Shape', shows' = shows, UNCHANGED <<album, tag, alias, caption, active>>
    PROVE  Smart' = Smart /\ \A x \in Places : x \in Wanted' <=> x \in Wanted
BY MatchStays DEF Smart

\* A place whose album is not smart is right when it has no smart row.
LEMMA PlainRight ==
    ASSUME NEW x \in Places, Place(x), x[1] \notin Smart, x \notin stale
    PROVE  Right(x)
BY DEF Place, PlainEmpty, Right, Wanted, Smart, Places

\* The next request of the main queue.
LEMMA EvalNextStays == ASSUME SInv, Shape', shows' = shows, EvalNext PROVE SInv'
<1>0. Shape /\ \A x \in Places : Place(x) BY DEF SInv
<1>1. /\ UNCHANGED <<album, items, tag, alias, caption, active, stale>>
      /\ queue # <<>> /\ queue' = Tail(queue) /\ eval["main"].at = "none"
  BY DEF EvalNext, shelf
<1>2. Head(queue) \in Requests /\ Queued = Asked(Head(queue)) \cup Queued' BY <1>0, <1>1, HeadQueued DEF Shape
<1>3. CASE Head(queue)[1] \in {"purge", "compare"}
  <2>1. Asked(Head(queue)) = {} BY <1>3 DEF Asked
  <2>2. eval' = eval BY <1>3 DEF EvalNext
  <2>. QED BY <1>1, <1>2, <2>1, <2>2, NothingWanted
<1>4. CASE Head(queue)[1] \notin {"purge", "compare"}
  <2>1. Head(queue)[1] \in {"photo", "album"} BY <1>2, <1>4 DEF Requests
  <2>2. EvalRead("main", Head(queue)) BY <1>4 DEF EvalNext
  <2> DEFINE r == Head(queue)
  <2>3. Scope(r) \subseteq Places /\ Scope(r) = {x \in Asked(r) : x[1] \in Smart} BY <1>0, <1>2, <2>1, ScopePlaces
  <2>4. /\ eval'["lane"] = eval["lane"] /\ eval'["main"].at = "wants" /\ eval'["main"].over = Scope(r)
        /\ eval'["main"].wants = Scope(r) \cap Wanted
    BY <1>0, <1>2, <2>1, <2>2, RoundStarts
  <2> HIDE DEF r
  <2>5. Over(eval'["main"]) = Scope(r) BY <2>4 DEF Over
  <2>6. Lane' = Lane BY <2>4 DEF Lane
  <2>7. Over(eval["main"]) = {} BY <1>1 DEF Over
  <2>8. Pending = Later /\ Pending' = Later' \cup Scope(r) BY <1>0, <2>5, <2>7, PendingParts, PendingPartsAfter
  <2>9. Smart' = Smart /\ \A x \in Places : x \in Wanted' <=> x \in Wanted BY <1>0, <1>1, WantedStays
  <2>10. ASSUME NEW x \in Places PROVE Place(x)'
    <3>0. Place(x) BY <1>0
    <3>1. PlainEmpty(x)' BY <1>1, <2>9, <3>0 DEF Place, PlainEmpty
    <3>2. CASE x \in Scope(r)
      <4>1. x[1] \in Smart' BY <2>3, <2>9, <3>2
      <4>2. Followed(x)' BY <2>8, <3>2 DEF Followed
      <4>3. PlainKnown(x)' BY <4>1 DEF PlainKnown
      <4>4. MainRight(x)' BY <2>4, <2>9, <3>2 DEF MainRight, ReadRight
      <4>. QED BY <3>1, <4>2, <4>3, <4>4 DEF Place
    <3>3. CASE x \notin Scope(r)
      <4>1. PlainKnown(x)' /\ MainRight(x)' BY <2>5, <3>3 DEF PlainKnown, MainRight
      <4>2. Followed(x)'
        <5> SUFFICES ASSUME x \notin stale', x \notin Pending' PROVE Right(x)' BY DEF Followed
        <5>1. Right(x)
          <6>1. CASE x \in Asked(r)
            <7>1. x[1] \notin Smart BY <2>3, <3>3, <6>1
            <7>. QED BY <7>1, <3>0, <1>1, PlainRight
          <6>2. CASE x \notin Asked(r)
            <7>1. x \notin Later BY <1>2, <2>6, <2>8, <6>2 DEF Later, r
            <7>. QED BY <7>1, <2>8, <3>0, <1>1 DEF Place, Followed
          <6>. QED BY <6>1, <6>2
        <5>. QED BY <5>1, <1>1, <2>9 DEF Right
      <4>. QED BY <3>1, <4>1, <4>2 DEF Place
    <3>. QED BY <3>2, <3>3
  <2>. QED BY <2>10 DEF SInv
<1>. QED BY <1>3, <1>4

\* The evaluation of the worker process reads.
LEMMA LaneReadStays == ASSUME SInv, Shape', shows' = shows, LaneRead PROVE SInv'
<1>0. Shape /\ \A x \in Places : Place(x) BY DEF SInv
<1>1. /\ UNCHANGED <<album, items, tag, alias, caption, active, stale, queue>>
      /\ eval["lane"].at = "start" /\ EvalRead("lane", <<"photo", eval["lane"].photo>>)
  BY DEF LaneRead, shelf
<1>2. PICK r : r = <<"photo", eval["lane"].photo>> OBVIOUS
<1>3. eval["lane"] \in LaneStarts BY <1>0, <1>1 DEF Shape, Rounds, NoEval
<1>4. r \in Requests /\ r[1] = "photo" BY <1>2, <1>3 DEF LaneStarts, Requests
<1>5. Scope(r) \subseteq Places /\ Scope(r) = {x \in Asked(r) : x[1] \in Smart} BY <1>0, <1>4, ScopePlaces
<1>6. eval'["main"] = eval["main"] /\ eval'["lane"].at = "wants" /\ eval'["lane"].over = Scope(r)
  BY <1>0, <1>1, <1>2, <1>4, RoundStarts
<1>7. Lane = Asked(r) BY <1>1, <1>2 DEF Lane, Under, Asked
<1>8. Lane' = Scope(r) BY <1>6 DEF Lane, Under
<1>9. Queued' = Queued BY <1>0, <1>1, RequestsQueued
<1>10. Smart' = Smart /\ \A x \in Places : x \in Wanted' <=> x \in Wanted BY <1>0, <1>1, WantedStays
<1>11. ASSUME NEW x \in Places PROVE Place(x)'
  <2>0. Place(x) BY <1>0
  <2>1. CASE x \in Scope(r) \/ x \notin Asked(r)
    <3>1. x \in Later => x \in Later' BY <2>1, <1>7, <1>8, <1>9 DEF Later
    <3>. QED BY <3>1, <2>0, <1>0, <1>1, <1>6, <1>10, PlaceStays
  <2>2. CASE x \in Asked(r) /\ x \notin Scope(r)
    <3>1. x[1] \notin Smart BY <1>5, <2>2
    <3>2. Followed(x)' BY <3>1, <2>0, <1>1, <1>10, PlainRight DEF Followed, Right
    <3>3. PlainEmpty(x)' BY <2>0, <1>1, <1>10 DEF Place, PlainEmpty
    <3>4. PlainKnown(x)' BY <2>0, <1>1, <1>6, <1>10 DEF Place, PlainKnown
    <3>5. MainRight(x)' BY <3>1, <2>0, <1>1, <1>6 DEF Place, PlainKnown, MainRight
    <3>. QED BY <3>2, <3>3, <3>4, <3>5 DEF Place
  <2>. QED BY <2>1, <2>2
<1>. QED BY <1>11 DEF SInv

\* An evaluation looks at the rows.
LEMMA EvalLookStays ==
    ASSUME SInv, Shape', shows' = shows, NEW e \in {"main", "lane"}, EvalLook(e)
    PROVE  SInv'
<1>0. Shape /\ \A x \in Places : Place(x) BY DEF SInv
<1>1. /\ UNCHANGED <<album, items, tag, alias, caption, active, stale, queue>>
      /\ eval[e].at = "wants" /\ eval' = [eval EXCEPT ![e].at = "seen", ![e].seen = items]
  BY DEF EvalLook, shelf
<1>2. eval[e] \in Rounds BY <1>0, <1>1 DEF Shape, LaneStarts, NoEval
<1>3. eval' = [eval EXCEPT ![e] = [[eval[e] EXCEPT !.at = "seen"] EXCEPT !.seen = items]] BY <1>0, <1>1 DEF Shape
<1>4. /\ eval'[e].at = "seen" /\ eval'[e].over = eval[e].over /\ eval'[e].wants = eval[e].wants
      /\ eval'[e].seen = items /\ eval'[e].beside = eval[e].beside
      /\ \A o \in {"main", "lane"} : o # e => eval'[o] = eval[o]
  BY <1>0, <1>2, <1>3 DEF Shape, Rounds
<1>5. Under(eval'[e]) = Under(eval[e]) /\ Over(eval'[e]) = Over(eval[e]) BY <1>1, <1>4 DEF Under, Over
<1>6. Lane' = Lane BY <1>4, <1>5 DEF Lane
<1>7. Over(eval'["main"]) = Over(eval["main"]) BY <1>4, <1>5
<1>8. Queued' = Queued /\ Later' = Later BY <1>0, <1>1, <1>6, RequestsQueued DEF Later
<1>9. Pending' = Pending BY <1>0, <1>7, <1>8, PendingParts, PendingPartsAfter
<1>10. Smart' = Smart /\ \A x \in Places : x \in Wanted' <=> x \in Wanted BY <1>0, <1>1, WantedStays
<1>11. eval'["main"].beside = eval["main"].beside /\ eval'["main"].wants = eval["main"].wants BY <1>4
<1>12. ASSUME NEW x \in Places PROVE Place(x)'
  <2>0. Place(x) BY <1>0
  <2>1. Followed(x)' BY <2>0, <1>1, <1>9, <1>10 DEF Place, Followed, Right
  <2>2. PlainEmpty(x)' BY <2>0, <1>1, <1>10 DEF Place, PlainEmpty
  <2>3. PlainKnown(x)' BY <2>0, <1>1, <1>7, <1>10, <1>11 DEF Place, PlainKnown
  <2>4. MainRight(x)'
    <3> SUFFICES ASSUME x \in Over(eval'["main"]), x \notin stale', x \notin eval'["main"].beside, x \notin Later'
                 PROVE  ReadRight(x)'
      BY DEF MainRight
    <3>1. ReadRight(x) BY <2>0, <1>1, <1>7, <1>8, <1>11 DEF Place, MainRight
    <3>2. CASE e = "main" BY <3>1, <3>2, <1>1, <1>4, <1>10 DEF ReadRight
    <3>3. CASE e # "main" BY <3>1, <3>3, <1>1, <1>4, <1>10 DEF ReadRight
    <3>. QED BY <3>2, <3>3
  <2>. QED BY <2>1, <2>2, <2>3, <2>4 DEF Place
<1>. QED BY <1>12 DEF SInv

\* Rows an evaluation does not look at stay, and those it has read right are right.
LEMMA EvaluatedRight ==
    ASSUME Shape, NEW k \in Rounds, items' = Evaluated(k), NEW x \in Places
    PROVE  /\ x \notin k.over => items'[x] = items[x]
           /\ /\ x \in k.over /\ (x \in Wanted <=> x \in k.wants)
              /\ x \in Wanted /\ items[x] = "no" => k.seen[x] = "no"
              /\ x \notin Wanted /\ items[x] = "smart" => k.seen[x] = "smart"
              => (IF x \in Wanted THEN items'[x] # "no" ELSE items'[x] # "smart")
           /\ x \notin k.wants /\ items'[x] = "smart" => items[x] = "smart"
<1>1. items'[x] = IF x \in Dropped(k) THEN "no"
                  ELSE IF x \in k.wants /\ k.seen[x] = "no" /\ items[x] = "no" THEN "smart" ELSE items[x]
  BY DEF Evaluated
<1>2. x \in Dropped(k) <=> x \in k.over /\ x \notin k.wants /\ k.seen[x] = "smart" BY DEF Dropped
<1>3. x \in k.wants => x \in k.over BY DEF Rounds
<1>. QED BY <1>1, <1>2, <1>3

\* Rows that are wrong after an evaluation.
Wrong(x) == IF x \in Wanted THEN items'[x] = "no" ELSE items'[x] = "smart"

\* An evaluation writes: what is stale after it.
LEMMA CommitStale ==
    ASSUME Shape, NEW e \in {"main", "lane"}, EvalCommit(e), NEW x \in Places
    PROVE  /\ x \notin eval[e].over => (x \in stale' <=> x \in stale)
           /\ Wrong(x) /\ x \in stale => x \in stale'
           /\ x \in eval[e].over /\ Wrong(x) /\ e = "main" /\ x \in eval[e].beside => x \in stale'
           /\ x \in eval[e].over /\ Wrong(x) /\ e = "lane"
                /\ ((x \in Wanted) # (x \in eval[e].wants) \/ items[x] # eval[e].seen[x])
              => x \in stale'
<1> DEFINE k == eval[e]
           wrong == {y \in k.over : IF y \in Wanted THEN items'[y] = "no" ELSE items'[y] = "smart"}
           overtaken == {y \in wrong : IF e = "main" THEN y \in k.beside
                                       ELSE (y \in Wanted) # (y \in k.wants) \/ items[y] # k.seen[y]}
<1>1. stale' = (stale \ (k.over \ wrong)) \cup overtaken BY DEF EvalCommit
<1>2. x \in wrong <=> x \in k.over /\ Wrong(x) BY DEF Wrong
<1>3. x \in overtaken <=> /\ x \in wrong
                          /\ IF e = "main" THEN x \in k.beside
                             ELSE (x \in Wanted) # (x \in k.wants) \/ items[x] # k.seen[x]
  OBVIOUS
<1> HIDE DEF wrong, overtaken
<1>. QED BY <1>1, <1>2, <1>3

\* The evaluation of the main queue writes.
LEMMA MainCommitStays == ASSUME SInv, Shape', shows' = shows, EvalCommit("main") PROVE SInv'
<1>0. Shape /\ \A x \in Places : Place(x) BY DEF SInv
<1>1. /\ UNCHANGED <<album, tag, alias, caption, active, queue>>
      /\ eval["main"].at = "seen" /\ items' = Evaluated(eval["main"])
  BY DEF EvalCommit
<1>2. PICK k : k = eval["main"] OBVIOUS
<1>3. k \in Rounds /\ eval'["main"] = NoEval BY <1>0, <1>2, CommitDoes
<1>4. Over(k) = k.over BY <1>1, <1>2 DEF Over
<1>5. Over(eval'["main"]) = {} BY <1>3 DEF Over, NoEval
<1>6. Lane' = Lane
  <2>1. CASE eval["lane"] \in Rounds
    <3>1. eval'["lane"].at = eval["lane"].at /\ eval'["lane"].over = eval["lane"].over BY <1>0, <2>1, CommitDoes
    <3>2. eval["lane"].at \in {"wants", "seen"} BY <2>1 DEF Rounds
    <3>. QED BY <3>1, <3>2 DEF Lane, Under
  <2>2. CASE eval["lane"] \notin Rounds
    <3>1. eval'["lane"] = eval["lane"] BY <1>0, <2>2, CommitDoes
    <3>. QED BY <3>1 DEF Lane
  <2>. QED BY <2>1, <2>2
<1>7. Later' = Later BY <1>0, <1>1, <1>6, RequestsQueued DEF Later
<1>8. Pending' = Later /\ Pending = Later \cup k.over
  BY <1>0, <1>2, <1>4, <1>5, <1>7, PendingParts, PendingPartsAfter
<1>9. Smart' = Smart /\ \A x \in Places : x \in Wanted' <=> x \in Wanted BY <1>0, <1>1, WantedStays
<1>10. ASSUME NEW x \in Places PROVE Place(x)'
  <2>0. Place(x) BY <1>0
  <2>1. PlainKnown(x)' /\ MainRight(x)' BY <1>5 DEF PlainKnown, MainRight
  <2>2. CASE x \notin k.over
    <3>1. items'[x] = items[x] /\ (x \in stale' <=> x \in stale)
      BY <2>2, <1>0, <1>1, <1>2, <1>3, EvaluatedRight, CommitStale
    <3>2. Followed(x)' BY <3>1, <2>0, <2>2, <1>8, <1>9 DEF Place, Followed, Right
    <3>3. PlainEmpty(x)' BY <3>1, <2>0, <1>9 DEF Place, PlainEmpty
    <3>. QED BY <2>1, <3>2, <3>3 DEF Place
  <2>3. CASE x \in k.over
    <3>1. /\ Wrong(x) /\ x \in stale => x \in stale'
          /\ Wrong(x) /\ x \in k.beside => x \in stale'
      BY <2>3, <1>0, <1>2, CommitStale
    <3>2. x \notin stale \cup k.beside \cup Later => ~Wrong(x)
      <4> SUFFICES ASSUME x \notin stale \cup k.beside \cup Later PROVE ~Wrong(x) OBVIOUS
      <4>1. ReadRight(x) BY <2>0, <2>3, <1>2, <1>4 DEF Place, MainRight
      <4>2. /\ x \in Wanted <=> x \in k.wants
            /\ x \in Wanted /\ items[x] = "no" => k.seen[x] = "no"
            /\ x \notin Wanted /\ items[x] = "smart" => k.seen[x] = "smart"
        BY <4>1, <1>1, <1>2 DEF ReadRight
      <4>. QED BY <4>2, <2>3, <1>0, <1>1, <1>2, <1>3, EvaluatedRight DEF Wrong
    <3>3. Followed(x)' BY <3>1, <3>2, <1>8, <1>9 DEF Followed, Right, Wrong
    <3>4. PlainEmpty(x)'
      <4> SUFFICES ASSUME x[1] \notin Smart', items'[x] = "smart" PROVE x \in stale' BY DEF PlainEmpty
      <4>1. x[1] \notin Smart BY <1>9
      <4>2. Wrong(x) BY <4>1 DEF Wrong, Wanted, Smart, Places
      <4>3. x \in stale \cup k.beside BY <4>1, <2>0, <2>3, <1>2, <1>4 DEF Place, PlainKnown
      <4>. QED BY <4>2, <4>3, <3>1
    <3>. QED BY <2>1, <3>3, <3>4 DEF Place
  <2>. QED BY <2>2, <2>3
<1>. QED BY <1>10 DEF SInv

\* The evaluation of the worker process writes.
LEMMA LaneCommitStays == ASSUME SInv, Shape', shows' = shows, EvalCommit("lane") PROVE SInv'
<1>0. Shape /\ \A x \in Places : Place(x) BY DEF SInv
<1>1. /\ UNCHANGED <<album, tag, alias, caption, active, queue>>
      /\ eval["lane"].at = "seen" /\ items' = Evaluated(eval["lane"])
  BY DEF EvalCommit
<1>2. PICK k : k = eval["lane"] OBVIOUS
<1>3. k \in Rounds /\ eval'["lane"] = NoEval BY <1>0, <1>2, CommitDoes
<1>4. Lane = k.over BY <1>1, <1>2 DEF Lane, Under
<1>5. Lane' = {} BY <1>3 DEF Lane, Under, NoEval
<1>6. Queued' = Queued BY <1>0, <1>1, RequestsQueued
<1>7. Over(eval'["main"]) = Over(eval["main"])
  <2>1. CASE eval["main"] \in Rounds
    <3>1. eval'["main"].at = eval["main"].at /\ eval'["main"].over = eval["main"].over BY <1>0, <2>1, CommitDoes
    <3>. QED BY <3>1 DEF Over
  <2>2. CASE eval["main"] \notin Rounds
    <3>1. eval'["main"] = eval["main"] BY <1>0, <2>2, CommitDoes
    <3>. QED BY <3>1
  <2>. QED BY <2>1, <2>2
<1>8. ASSUME NEW x \in Over(eval["main"])
      PROVE  /\ eval'["main"].at = eval["main"].at /\ eval'["main"].wants = eval["main"].wants
             /\ eval'["main"].seen = eval["main"].seen /\ eval'["main"].beside = eval["main"].beside \cup k.over
  <2>1. eval["main"] \in Rounds BY <1>0 DEF Over, Shape, NoEval
  <2>. QED BY <2>1, <1>0, <1>2, CommitDoes
<1>9. Smart' = Smart /\ \A x \in Places : x \in Wanted' <=> x \in Wanted BY <1>0, <1>1, WantedStays
<1>10. Pending = Queued \cup k.over \cup Over(eval["main"]) /\ Pending' = Queued \cup Over(eval["main"])
  BY <1>0, <1>4, <1>5, <1>6, <1>7, PendingParts, PendingPartsAfter DEF Later
<1>11. ASSUME NEW x \in Places PROVE Place(x)'
  <2>0. Place(x) BY <1>0
  <2>2. CASE x \notin k.over
    <3>1. items'[x] = items[x] /\ (x \in stale' <=> x \in stale)
      BY <2>2, <1>0, <1>1, <1>2, <1>3, EvaluatedRight, CommitStale
    <3>2. Followed(x)' BY <3>1, <2>0, <2>2, <1>9, <1>10 DEF Place, Followed, Right
    <3>3. PlainEmpty(x)' BY <3>1, <2>0, <1>9 DEF Place, PlainEmpty
    <3>4. PlainKnown(x)' BY <3>1, <2>0, <1>7, <1>8, <1>9 DEF Place, PlainKnown
    <3>5. MainRight(x)'
      <4> SUFFICES ASSUME x \in Over(eval'["main"]), x \notin stale', x \notin eval'["main"].beside, x \notin Later'
                   PROVE  ReadRight(x)'
        BY DEF MainRight
      <4>1. x \in Over(eval["main"]) /\ x \notin stale /\ x \notin Later
        BY <1>4, <1>6, <1>7, <2>2, <3>1 DEF Later
      <4>2. x \notin eval["main"].beside BY <4>1, <1>8
      <4>3. ReadRight(x) BY <4>1, <4>2, <2>0 DEF Place, MainRight
      <4>. QED BY <4>1, <4>3, <1>8, <1>9, <3>1 DEF ReadRight
    <3>. QED BY <3>2, <3>3, <3>4, <3>5 DEF Place
  <2>3. CASE x \in k.over
    <3>1. /\ Wrong(x) /\ x \in stale => x \in stale'
          /\ Wrong(x) /\ ((x \in Wanted) # (x \in k.wants) \/ items[x] # k.seen[x]) => x \in stale'
      BY <2>3, <1>0, <1>2, CommitStale
    <3>2. (x \in Wanted <=> x \in k.wants) /\ items[x] = k.seen[x] => ~Wrong(x)
      BY <2>3, <1>0, <1>1, <1>2, <1>3, EvaluatedRight DEF Wrong
    <3>3. Followed(x)' BY <3>1, <3>2, <1>9 DEF Followed, Right, Wrong
    <3>4. PlainEmpty(x)'
      <4> SUFFICES ASSUME x[1] \notin Smart', items'[x] = "smart" PROVE x \in stale' BY DEF PlainEmpty
      <4>1. x[1] \notin Smart BY <1>9
      <4>2. x \notin Wanted /\ Wrong(x) BY <4>1 DEF Wrong, Wanted, Smart, Places
      <4>3. x \notin k.wants => items[x] = "smart" BY <1>0, <1>1, <1>2, <1>3, EvaluatedRight
      <4>. QED BY <4>1, <4>2, <4>3, <3>1, <2>0 DEF Place, PlainEmpty
    <3>5. PlainKnown(x)' BY <2>3, <1>7, <1>8 DEF PlainKnown
    <3>6. MainRight(x)' BY <2>3, <1>7, <1>8 DEF MainRight
    <3>. QED BY <3>3, <3>4, <3>5, <3>6 DEF Place
  <2>. QED BY <2>2, <2>3
<1>. QED BY <1>11 DEF SInv

\* What goes on by itself.
LEMMA FreeStays == ASSUME SInv, Shape', shows' = shows, Free PROVE SInv'
<1>0. Shape /\ DOMAIN eval = {"main", "lane"} BY DEF SInv, Shape
<1>1. ASSUME CaptionWrite PROVE SInv'
  <2>1. captioner.photo \in Photos BY <1>0, <1>1 DEF CaptionWrite, Shape, Lookers
  <2>. QED BY <2>1, <1>1, PhotoStays
<1>2. ASSUME \/ ScanPurge \/ ScanInsert \/ ListPairs
             \/ \E i \in ReviewIds : AnswerFace(i)
             \/ \E k \in deciding : DecideWrite(k)
      PROVE  SInv'
  <2>1. UNCHANGED <<album, items, tag, alias, caption, active, eval, stale, queue>>
    BY <1>2 DEF ScanPurge, ScanInsert, ListPairs, AnswerFace, DecideWrite, shelf, jobs
  <2>. QED BY <2>1, <1>0, RequestsQueued, NothingWanted
<1>5. ASSUME NEW k \in deciding, DecideMoved(k) PROVE SInv'
  <2>1. UNCHANGED <<album, items, eval, queue>> /\ Unasked({}) BY <1>5 DEF DecideMoved, shelf, jobs
  <2>2. Later' = Later BY <1>0, <2>1, RequestsQueued DEF Later, Lane
  <2>. QED BY <2>1, <2>2, UnaskedStays
<1>3. ASSUME NEW e \in DOMAIN eval, EvalLook(e) PROVE SInv' BY <1>0, <1>3, EvalLookStays
<1>4. ASSUME NEW e \in DOMAIN eval, EvalCommit(e) PROVE SInv'
  <2>1. CASE e = "main" BY <1>4, <2>1, MainCommitStays
  <2>2. CASE e = "lane" BY <1>4, <2>2, LaneCommitStays
  <2>. QED BY <2>1, <2>2, <1>0
<1>. QED BY <1>1, <1>2, <1>3, <1>4, <1>5, EvalNextStays, LaneReadStays DEF Free

\* The backend stops, and with it the queue.
LEMMA StoppedStays == ASSUME SInv, Shape', shows' = shows, Stopped PROVE SInv'
<1>0. Shape /\ \A x \in Places : Place(x) BY DEF SInv
<1>1. /\ UNCHANGED <<album, items, tag, alias, caption, active>> /\ stale' = stale \cup Pending
      /\ eval'["main"] = NoEval
  BY DEF Stopped, shelf
<1>2. Smart' = Smart /\ \A x \in Places : x \in Wanted' <=> x \in Wanted BY <1>0, <1>1, WantedStays
<1>3. Over(eval'["main"]) = {} BY <1>1 DEF Over, NoEval
<1>4. ASSUME NEW x \in Places PROVE Place(x)'
  <2>1. Followed(x) /\ PlainEmpty(x) BY <1>0 DEF Place
  <2>2. Followed(x)' BY <2>1, <1>1, <1>2 DEF Followed, Right
  <2>3. PlainEmpty(x)' BY <2>1, <1>1, <1>2 DEF PlainEmpty
  <2>. QED BY <2>2, <2>3, <1>3 DEF Place, PlainKnown, MainRight
<1>. QED BY <1>4 DEF SInv

\* At the start every album has been evaluated.
LEMMA InitSInv == CInit => SInv
<1> SUFFICES ASSUME CInit PROVE SInv OBVIOUS
<1>1. PICK put : items = [x \in Places |-> IF x \in put THEN "manual" ELSE IF x \in Wanted THEN "smart" ELSE "no"]
  BY DEF CInit
<1>2. Over(eval["main"]) = {} BY DEF CInit, Over, NoEval
<1>3. ASSUME NEW x \in Places PROVE Place(x)
  <2>1. Right(x) BY <1>1 DEF Right
  <2>2. items[x] = "smart" => x[1] \in Smart BY <1>1 DEF Wanted, Smart, Places
  <2>. QED BY <2>1, <2>2, <1>2 DEF Place, Followed, PlainEmpty, PlainKnown, MainRight
<1>. QED BY <1>3, InitShape DEF SInv

\* A step keeps albums right.
LEMMA NextSInv == ASSUME SInv, [CNext]_<<vars, curated>> PROVE SInv'
<1>1. Shape' BY NextShape DEF SInv
<1>2. CASE Step /\ Follow BY <1>1, <1>2, FollowStays
<1>3. CASE Crash /\ Stopped
  <2>1. shows' = shows BY <1>3 DEF Crash
  <2>. QED BY <1>1, <1>3, <2>1, StoppedStays
<1>4. CASE UNCHANGED base /\ Bound
  <2>1. shows' = shows BY <1>4 DEF base
  <2>. QED BY <1>1, <1>4, <2>1, BoundStays
<1>5. CASE UNCHANGED vars /\ Free
  <2>1. shows' = shows BY <1>5 DEF vars, base
  <2>. QED BY <1>1, <1>5, <2>1, FreeStays
<1>6. CASE UNCHANGED <<vars, curated>>
  <2>1. /\ shows' = shows /\ UNCHANGED <<album, items, tag, alias, caption, active, eval, stale, queue>>
    BY <1>6 DEF vars, base, curated
  <2>. QED BY <1>1, <2>1, RequestsQueued, NothingWanted DEF SInv
<1>. QED BY <1>2, <1>3, <1>4, <1>5, <1>6 DEF CNext

\* Smart albums hold what their triggers want, and what the user has put in, once what was asked for is
\* worked off, but for the places that are stale (collections/engine.py and its callers).
THEOREM SmartAlbumsFollow == CSpec => []SmartFollows
<1>1. CInit => SInv BY InitSInv
<1>2. SInv /\ [CNext]_<<vars, curated>> => SInv' BY NextSInv
<1>3. SInv => SmartFollows BY DEF SInv, Place, Followed, Right, SmartFollows
<1>. QED BY <1>1, <1>2, <1>3, PTL DEF CSpec
=============================================================================
