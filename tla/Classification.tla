--------------------------- MODULE Classification ---------------------------
(***************************************************************************)
(* The classification of photos: the catalog of categories and labels the   *)
(* user keeps, and the job that scores the labels of a photo by its vector  *)
(* and its tags and replaces the photo's rows.                              *)
(***************************************************************************)
EXTENDS Vectors

CONSTANTS
    Cats, Labels,  \* ids
    Prompts, Tags,
    Affinity,      \* picture -> prompt -> likeness, above zero
    TagScore,      \* picture -> tag -> score in percent, for the tags that are stored
    Weight,        \* of the vector and of the tags
    MinConfidence, MultiMinConfidence

VARIABLES
    cat,         \* classification_category
    label,       \* classification_label
    class,       \* asset_classification
    removed,     \* tags taken off a photo by hand
    prompted     \* the cache of text vectors: prompt -> embedder
catalog == <<cat, label>>
classes == <<catalog, class, removed, prompted>>

CatRows   == [mode : {"none", "single", "multi"}, enabled : BOOLEAN, min : {None} \cup Int]
LabelRows == [cat : Cats, name : Prompts, prompts : SUBSET Prompts, tags : SUBSET Tags, position : Int]

ASSUME CatalogAssumption ==
    /\ IsFiniteSet(Cats) /\ Cats \subseteq Nat \ {0}
    /\ IsFiniteSet(Labels) /\ Labels \subseteq Nat \ {0}
    /\ None \notin LabelRows

NoCat == [mode |-> "none", enabled |-> FALSE, min |-> 0]
Kept(c) == cat[c].mode # "none"
LabelsOf(c) == {x \in Labels : label[x] # None /\ label[x].cat = c}

(***************************************************************************)
(* The engine.  Probabilities are fractions, [n, d].                        *)
(***************************************************************************)
\* The prompts of a label; its name in the template if it has none.
PromptsOf(x) == IF label[x].prompts = {} THEN {label[x].name} ELSE label[x].prompts

\* The mean of the prompts' likeness, over that of all labels of the category: a softmax.
Likeness(pic, x) == MapThenSumSet(LAMBDA q : Affinity[pic][q], PromptsOf(x)) \div Cardinality(PromptsOf(x))
ClipScore(pic, x, all) == (100 * Likeness(pic, x)) \div MapThenSumSet(LAMBDA y : Likeness(pic, y), all)

\* The best of the tags that are stored and were not taken off.
TagScores(p, x) == {TagScore[photo[p].pic][t] : t \in {u \in label[x].tags \cap DOMAIN TagScore[photo[p].pic] :
                                                          <<p, u>> \notin removed}}

Unscored == -1

\* _fuse
Fused(clip, tag) ==
    CASE clip # Unscored /\ tag # Unscored ->
            [score |-> (clip * Weight.clip + tag * Weight.tags) \div (Weight.clip + Weight.tags), source |-> "fused"]
      [] clip # Unscored /\ tag = Unscored -> [score |-> clip, source |-> "clip"]
      [] clip = Unscored /\ tag # Unscored -> [score |-> tag, source |-> "wd14"]
      [] OTHER           -> [score |-> 0, source |-> "fused"]

Scored(p, pic, c, x) ==
    LET tags == TagScores(p, x)
    IN  Fused(IF pic = None THEN Unscored ELSE ClipScore(pic, x, LabelsOf(c)),
              IF tags = {} THEN Unscored ELSE Max(tags))

\* The label of a category of one kind: the first of the best, if it is good enough.
Best(p, pic, c) ==
    LET score(x) == Scored(p, pic, c, x).score
        top      == {x \in LabelsOf(c) : \A y \in LabelsOf(c) : score(x) >= score(y)}
        first    == CHOOSE x \in top : \A y \in top : label[x].position <= label[y].position
    IN  {x \in top : x = first /\ score(x) >= (IF cat[c].min = None THEN MinConfidence ELSE cat[c].min)}

\* classify_asset for one category.
Chosen(p, pic, c) ==
    IF cat[c].mode = "single" THEN Best(p, pic, c)
    ELSE {x \in LabelsOf(c) : Scored(p, pic, c, x).score >= MultiMinConfidence}

InUse == {c \in Cats : Kept(c) /\ cat[c].enabled /\ LabelsOf(c) # {}}

Classified(p, pic) ==
    UNION {{[photo |-> p, label |-> x, cat |-> c, source |-> Scored(p, pic, c, x).source,
             mode |-> cat[c].mode, of |-> photo[p].pic, late |-> FALSE] : x \in Chosen(p, pic, c)} : c \in InUse}

(***************************************************************************)
(* The job.                                                                 *)
(***************************************************************************)
\* Prompts are embedded once and kept by their text.
Texts == UNION {PromptsOf(x) : x \in UNION {LabelsOf(c) : c \in InUse}}
Remembered(model) == [q \in DOMAIN prompted \cup Texts |-> IF q \in DOMAIN prompted THEN prompted[q] ELSE model]

\* Scoring compares the photo's vector with those of the prompts, whoever has made them: vectors of
\* another width fail the job.  Without an embedder or a vector the tags decide alone.
ClassifyStart(l, p) ==
    LET model == Embedder(row)
        pic   == IF model = None THEN None ELSE vec["semantic"][p]
        fits  == \A q \in Texts : Remembered(model)[q] \in Fits
        flags == IF l = "main" THEN photo[p].done \ {"classified"} ELSE photo[p].done
    IN  /\ Free(l) /\ p \in There /\ (l = "main" => p \in Live) /\ Bounded("classifies")
        /\ photo' = [photo EXCEPT ![p].done = flags]
        /\ row' = Healed(row)
        /\ prompted' = IF pic = None THEN prompted ELSE Remembered(model)
        /\ task' = IF pic # None /\ ~fits THEN task
                   ELSE [task EXCEPT ![l] = [at |-> "scored", photo |-> p, pic |-> photo[p].pic,
                                             rows |-> Classified(p, pic)]]
        /\ UNCHANGED <<fixed, files, job, deleting, page, ghosts, vec, index, dino, astray, catalog, class, removed>>

\* A row of a label, a category or a photo that is not what the job has read any more.
Late(r, t) == \/ label[r.label] = None \/ label[r.label].cat # r.cat
              \/ t.photo \notin There \/ photo[t.photo].pic # t.pic

\* Mutant: the rows of an earlier run stay.
ReplacedAdding(t) == class \cup {[r EXCEPT !.late = Late(r, t)] : r \in t.rows}

Replaced(t) == {r \in class : r.photo # t.photo} \cup {[r EXCEPT !.late = Late(r, t)] : r \in t.rows}

\* The photo's rows are replaced in one transaction, and the flag of its content is set, if there
\* still is one: it may have become another photo's.
ClassifyWrite(l) ==
    LET t      == task[l]
        owners == {p \in There : photo[p].pic = t.pic}
    IN  /\ t.at = "scored" /\ Finish(l)
        /\ class' = {IF r.photo \in owners \ {t.photo} THEN [r EXCEPT !.late = TRUE] ELSE r : r \in Replaced(t)}
        /\ photo' = [p \in Ids |-> IF p \in owners THEN Marked(p, {"classified"})[p] ELSE photo[p]]
        /\ UNCHANGED <<vars, vec, index, dino, astray, catalog, removed, prompted>>

(***************************************************************************)
(* The catalog (api/classification.py).                                     *)
(***************************************************************************)
Changed == Bounded("catalog") /\ UNCHANGED <<fixed, files, row, job, deleting, page, ghosts, vectors, removed, prompted>>

\* Names are unique; a name is the id of the category here.  Ids are given out again.
CreateCategory(mode) ==
    LET c == 1 + Max({0} \cup {d \in Cats : Kept(d)})
    IN  /\ c \in Cats /\ Changed
        /\ cat' = [cat EXCEPT ![c] = [mode |-> mode, enabled |-> TRUE, min |-> None]]
        /\ UNCHANGED <<label, class>>

PatchCategory(c) ==
    /\ Kept(c) /\ Changed
    /\ \/ \E mode \in {"single", "multi"} : cat' = [cat EXCEPT ![c].mode = mode]
       \/ cat' = [cat EXCEPT ![c].enabled = ~@]
       \/ \E min \in {None, 0, 100} : cat' = [cat EXCEPT ![c].min = min]
    /\ UNCHANGED <<label, class>>

\* _delete_category_cascade
DeleteCategory(c) ==
    /\ Kept(c) /\ Changed
    /\ class' = {r \in class : r.label \notin LabelsOf(c)}
    /\ label' = [x \in Labels |-> IF x \in LabelsOf(c) THEN None ELSE label[x]]
    /\ cat' = [cat EXCEPT ![c] = NoCat]

CreateLabel(c, name, tags) ==
    LET x == 1 + Max({0} \cup {y \in Labels : label[y] # None})
    IN  /\ x \in Labels /\ Kept(c) /\ (\A y \in LabelsOf(c) : label[y].name # name) /\ Changed
        /\ label' = [label EXCEPT ![x] = [cat |-> c, name |-> name, prompts |-> {}, tags |-> tags,
                                          position |-> 1 + Max({-1} \cup {label[y].position : y \in LabelsOf(c)})]]
        /\ UNCHANGED <<cat, class>>

PatchLabel(x) ==
    /\ label[x] # None /\ Changed
    /\ \/ \E prompts \in SUBSET Prompts : label' = [label EXCEPT ![x].prompts = prompts]
       \/ \E tags \in SUBSET Tags : label' = [label EXCEPT ![x].tags = tags]
       \/ \E i \in 0..1 : label' = [label EXCEPT ![x].position = i]
    /\ UNCHANGED <<cat, class>>

\* _delete_label_cascade: foreign keys are off.
Cleared(x) == {r \in class : r.label # x}

DeleteLabel(x) ==
    /\ label[x] # None /\ Changed
    /\ class' = Cleared(x)
    /\ label' = [label EXCEPT ![x] = None]
    /\ UNCHANGED cat

\* A tag is taken off a photo, or put on again.
Retag(p, t) ==
    /\ p \in Live /\ t \in DOMAIN TagScore[photo[p].pic] /\ Bounded("tags")
    /\ removed' = (removed \ {<<p, t>>}) \cup ({<<p, t>>} \ removed)
    /\ UNCHANGED <<fixed, files, row, job, deleting, page, ghosts, vectors, catalog, class, prompted>>

ClassSteps ==
    \/ \E l \in Lanes : ClassifyWrite(l) \/ \E p \in Ids : ClassifyStart(l, p)
    \/ \E mode \in {"single", "multi"} : CreateCategory(mode)
    \/ \E c \in Cats : \/ PatchCategory(c) \/ DeleteCategory(c)
                       \/ \E name \in Prompts, tags \in {{}, Tags} : CreateLabel(c, name, tags)
    \/ \E x \in Labels : PatchLabel(x) \/ DeleteLabel(x)
    \/ \E p \in Ids, t \in Tags : Retag(p, t)

(***************************************************************************)
(* Properties.                                                              *)
(***************************************************************************)
\* The labels of photos stay those of the catalog while jobs of both workers score and the catalog is
\* edited (classification_job.py: "a rerun's recomputed labels never mix with stale ones"): a row has
\* its label, in its category; a photo has two labels of a category only if it was classified when the
\* category took several; and a photo that counts as classified was classified by its own picture.
\* Not so for rows whose label or photo went while the job was scoring.
LabelsTrue ==
    \A r \in class : ~r.late =>
        /\ label[r.label] # None /\ label[r.label].cat = r.cat
        /\ \A s \in class : s # r /\ s.photo = r.photo /\ s.cat = r.cat => r.mode = "multi" /\ s.mode = "multi"
        /\ r.photo \in There /\ "classified" \in photo[r.photo].done => r.of = photo[r.photo].pic
=============================================================================
