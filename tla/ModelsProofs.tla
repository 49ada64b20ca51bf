---------------------------- MODULE ModelsProofs ----------------------------
(***************************************************************************)
(* Proofs about the models and their registry, in the whole of Gallery, for *)
(* any manifest, size of files and number of downloads, failures, scans and *)
(* restarts. A model one job at a time has worked on is followed through    *)
(* its download: what is there of a file are its first pieces, as many as   *)
(* the job has read.                                                        *)
(***************************************************************************)
EXTENDS GalleryProofs

\* Only what is registered is enabled.
Registry == {rows \in [Model -> RegistryRows] : \A m \in Model : rows[m].enabled => rows[m].there}

IsJob(r) ==
    /\ DOMAIN r = {"model", "at", "file", "from", "append", "read"}
    /\ r.model \in Model /\ r.file \in {1, 2}
    /\ r.at = "commit" => r.read \in Registry

\* A model has two files at most.
TwoFiles(store) == store = [m \in Model |-> [f \in {1, 2} |-> store[m][f]]]

MType ==
    /\ form \in [Model -> {"hf", "bundle", "plain", "none"}]
    /\ TwoFiles(disk) /\ TwoFiles(part) /\ unpacked \in [Model -> SUBSET {1, 2}]
    /\ row \in Registry
    /\ job = [j \in DOMAIN job |-> job[j]] /\ \A j \in DOMAIN job : IsJob(job[j])

\* The first k pieces of a file.
First(k) == [i \in 1..k |-> i]
Parts == {NoFile} \cup {First(k) : k \in 0..Size}

\* A download of m has what it has read.
OnTrack(m, j) ==
    LET f == job[j].file  at == job[j].at
    IN  /\ f \in Files(m)
        /\ at \in {"begin", "ask", "read", "verify", "rename"} => \A g \in Files(m) : g < f => disk[m][g] # NoFile
        /\ at = "ask" => job[j].from \in 0..Size /\ (job[j].from > 0 => part[m][f] = First(job[j].from))
        /\ at = "read" => job[j].from \in 0..Size - 1 /\ part[m][f] = First(job[j].from)
        /\ at \in {"verify", "rename"} => part[m][f] = Whole
        /\ at = "unpack" => form[m] = "bundle" /\ disk[m][1] = Whole
        /\ at \in {"register", "commit"} => Complete(m)

\* What a folder or a bundle of which the download goes on or was cut off may lack.
Usable(m) == Complete(m) \/ (form[m] # "plain" /\ (m \in cut \/ Of(m) # {}))

FilesSound(m) == \A f \in Files(m) : disk[m][f] \in {NoFile, Whole} /\ part[m][f] \in Parts

\* What holds of a model as long as two jobs, or a job and a deletion, have not been at it together.
Sound(m) ==
    /\ FilesSound(m)
    /\ \A j, k \in Of(m) : j = k
    /\ \A j \in Of(m) : OnTrack(m, j)
    /\ m \in deleting => Of(m) = {}
    /\ Recognised(m) => Usable(m)
    /\ m \notin deleting /\ row[m].there /\ row[m].managed => Usable(m)

MInv == MType /\ \A m \in Model \ mixed : Sound(m)

------------------------------------------------------------------------------
(* The registry                                                             *)

\* A model has a place in the manifest, and the manifest is finite.
LEMMA InManifest ==
  /\ IsFiniteSet(Model)
  /\ DOMAIN Manifest \subseteq Nat
  /\ \A m \in Model : Position(m) \in DOMAIN Manifest /\ Manifest[Position(m)] = m
<1>1. /\ Len(Manifest) \in Nat /\ DOMAIN Manifest = 1..Len(Manifest)
  BY ManifestAssumption
<1>2. Model = {Manifest[i] : i \in DOMAIN Manifest}
  BY DEF Model, ToSet
<1>3. IsFiniteSet(1..Len(Manifest))
  BY <1>1, FS_Interval
<1>4. [i \in DOMAIN Manifest |-> Manifest[i]] \in Surjection(DOMAIN Manifest, Model)
  BY <1>2 DEF Surjection
<1>5. IsFiniteSet(Model)
  BY <1>1, <1>3, <1>4, FS_Surjection
<1>6. \A m \in Model : Position(m) \in DOMAIN Manifest /\ Manifest[Position(m)] = m
  BY <1>2 DEF Position
<1> QED BY <1>1, <1>5, <1>6

\* Numbers given to the elements of a finite set have a greatest one.
LEMMA Highest ==
  ASSUME NEW S, IsFiniteSet(S), S # {}, NEW f, \A x \in S : f[x] \in Nat
  PROVE  \E x \in S : \A y \in S : f[y] <= f[x]
<1> DEFINE R == {f[x] : x \in S}
<1>1. [x \in S |-> f[x]] \in Surjection(S, R)
  BY DEF Surjection
<1>2. IsFiniteSet(R)
  BY <1>1, FS_Surjection
<1>3. R \subseteq Int /\ R # {}
  OBVIOUS
<1>4. Max(R) \in R /\ \A y \in R : y <= Max(R)
  BY <1>2, <1>3, Largest
<1>5. PICK x \in S : f[x] = Max(R)
  BY <1>4
<1>6. \A y \in S : f[y] <= f[x]
  BY <1>4, <1>5
<1> QED BY <1>6

\* Ids are numbers.
LEMMA Ids1 ==
  ASSUME NEW rows \in [Model -> RegistryRows], NEW m \in Model
  PROVE  NewId(rows, m) \in Nat
<1> DEFINE R == {rows[n].id : n \in Model}
<1>1. IsFiniteSet(R)
  <2>1. [n \in Model |-> rows[n].id] \in Surjection(Model, R)
    BY DEF Surjection
  <2> QED BY <2>1, InManifest, FS_Surjection
<1>2. R \subseteq Nat /\ R # {}
  BY DEF RegistryRows
<1> DEFINE top == Max(R)
<1> HIDE DEF R
<1>3. top \in Nat
  <2>1. R \subseteq Int
    BY <1>2
  <2> QED BY <1>1, <1>2, <2>1, Largest
<1>4. Position(m) \in Nat
  BY InManifest
<1> HIDE DEF top
<1>5. top + Position(m) \in Nat
  BY <1>3, <1>4
<1> QED BY <1>5 DEF NewId, RegistryRows, R, top

\* What a registration changes.
LEMMA UpsertedRows ==
  ASSUME NEW rows \in Registry, NEW m \in Model, NEW path \in {"own", "local"}, NEW managed \in BOOLEAN
  PROVE  /\ Upserted(rows, m, path, managed) \in Registry
         /\ Upserted(rows, m, path, managed)[m].enabled /\ Upserted(rows, m, path, managed)[m].there
         /\ Upserted(rows, m, path, managed)[m].managed = managed
         /\ \A n \in Model \ {m} :
               LET r == Upserted(rows, m, path, managed)[n]
               IN  /\ r.there = rows[n].there /\ r.managed = rows[n].managed /\ r.id = rows[n].id /\ r.path = rows[n].path
                   /\ r.enabled = (rows[n].enabled /\ ~{m, n} \subseteq Exclusive)
<1> DEFINE new == Upserted(rows, m, path, managed)
<1>1. rows \in [Model -> RegistryRows] /\ \A n \in Model : rows[n].enabled => rows[n].there
  BY DEF Registry
<1>2. new[m] = [there |-> TRUE, id |-> NewId(rows, m), path |-> path, managed |-> managed, enabled |-> TRUE]
  BY DEF Upserted
<1>3. \A n \in Model \ {m} :
         new[n] = IF {m, n} \subseteq Exclusive /\ rows[n].enabled THEN [rows[n] EXCEPT !.enabled = FALSE] ELSE rows[n]
  BY DEF Upserted, TakesOver
<1>4. new = [n \in Model |-> new[n]]
  BY DEF Upserted
<1> HIDE DEF new
<1>5. new[m] \in RegistryRows
  BY <1>1, <1>2, Ids1 DEF RegistryRows
<1>6. \A n \in Model \ {m} :
         /\ new[n] \in RegistryRows
         /\ new[n].there = rows[n].there /\ new[n].managed = rows[n].managed /\ new[n].id = rows[n].id /\ new[n].path = rows[n].path
         /\ new[n].enabled = (rows[n].enabled /\ ~{m, n} \subseteq Exclusive)
  <2> TAKE n \in Model \ {m}
  <2>1. CASE {m, n} \subseteq Exclusive /\ rows[n].enabled
    BY <1>1, <1>3, <2>1 DEF RegistryRows
  <2>2. CASE ~({m, n} \subseteq Exclusive /\ rows[n].enabled)
    <3>1. new[n] = rows[n]
      BY <1>3, <2>2
    <3>2. rows[n].enabled \in BOOLEAN
      BY <1>1 DEF RegistryRows
    <3> QED BY <1>1, <2>2, <3>1, <3>2
  <2> QED BY <2>1, <2>2
<1>7. new \in Registry
  <2>1. \A n \in Model : new[n] \in RegistryRows
    BY <1>5, <1>6
  <2>2. ASSUME NEW n \in Model, new[n].enabled PROVE new[n].there
    <3>1. CASE n = m
      BY <1>2, <3>1
    <3>2. CASE n # m
      <4>1. new[n].enabled = (rows[n].enabled /\ ~{m, n} \subseteq Exclusive) /\ new[n].there = rows[n].there
        BY <1>6, <3>2
      <4>2. rows[n].enabled
        BY <2>2, <4>1, Zenon
      <4> QED BY <1>1, <4>1, <4>2, Zenon
    <3> QED BY <3>1, <3>2
  <2> QED BY <1>4, <2>1, <2>2 DEF Registry
<1> QED BY <1>2, <1>6, <1>7 DEF new

\* Going over the models in order leaves the last embedder that is found enabled, and all as they
\* are if none is found.
LEMMA ScannedRows ==
  ASSUME row \in Registry
  PROVE  /\ Scanned \in Registry
         /\ \A n \in Model : Scanned[n].there /\ Scanned[n].managed => Recognised(n) \/ (row[n].there /\ row[n].managed)
         /\ \A n \in Exclusive : Scanned[n].enabled \/ ~row[n].enabled \/ \E m \in Exclusive : Scanned[m].enabled
<1> DEFINE found == {m \in Model : Recognised(m)}
           own(n) == IF n \in found THEN Upserted(row, n, "own", TRUE)[n] ELSE row[n]
           later(n) == {m \in found : n \in found => Position(m) > Position(n)}
           taken(n) == \E m \in later(n) : TakesOver(row, m, n)
<1>1. row \in [Model -> RegistryRows] /\ \A n \in Model : row[n].enabled => row[n].there
  BY DEF Registry
<1>1a. \A n \in Model : /\ Upserted(row, n, "own", TRUE)[n] \in RegistryRows
                        /\ Upserted(row, n, "own", TRUE)[n].enabled /\ Upserted(row, n, "own", TRUE)[n].there
  <2> TAKE n \in Model
  <2>1. "own" \in {"own", "local"} /\ TRUE \in BOOLEAN
    OBVIOUS
  <2>2. Upserted(row, n, "own", TRUE) \in Registry
    BY <2>1, UpsertedRows
  <2>3. Upserted(row, n, "own", TRUE)[n] =
          [there |-> TRUE, id |-> NewId(row, n), path |-> "own", managed |-> TRUE, enabled |-> TRUE]
    BY DEF Upserted
  <2> DEFINE r == Upserted(row, n, "own", TRUE)[n]
  <2>4. r \in RegistryRows
    BY <2>2 DEF Registry
  <2>5. r = [there |-> TRUE, id |-> NewId(row, n), path |-> "own", managed |-> TRUE, enabled |-> TRUE]
    BY <2>3
  <2> HIDE DEF r
  <2>6. r.enabled = TRUE /\ r.there = TRUE
    BY <2>5
  <2> QED BY <2>4, <2>6 DEF r
<1>2. \A n \in Model : own(n) \in RegistryRows
  BY <1>1, <1>1a, Zenon
<1>3. \A n \in found : own(n).enabled /\ own(n).there
  BY <1>1a, Zenon
<1>4. \A n \in Model \ found : own(n) = row[n]
  OBVIOUS
<1>5. /\ Scanned = [n \in Model |-> Scanned[n]]
      /\ \A n \in Model : Scanned[n] = IF taken(n) THEN [own(n) EXCEPT !.enabled = FALSE] ELSE own(n)
  BY DEF Scanned
<1>6. \A n \in Model : taken(n) => n \in Exclusive /\ row[n].enabled /\ \E m \in found : m \in Exclusive
  BY DEF TakesOver
<1>7. \A n \in Exclusive, m \in found \cap Exclusive :
         taken(n) \/ ~row[n].enabled \/ m = n \/ (n \in found /\ ~(Position(m) > Position(n)))
  BY DEF TakesOver, Exclusive
<1>7a. \A n \in found : taken(n) => \E m \in found \cap Exclusive : Position(m) > Position(n)
  BY DEF TakesOver
<1> HIDE DEF own, taken, found
<1>8. \A n \in Model : /\ Scanned[n] \in RegistryRows
                       /\ Scanned[n].there = own(n).there /\ Scanned[n].managed = own(n).managed
                       /\ Scanned[n].enabled => own(n).enabled
                       /\ ~taken(n) => Scanned[n] = own(n)
  BY <1>2, <1>5 DEF RegistryRows
<1>9. \A n \in Model : own(n).enabled => own(n).there
  BY <1>1, <1>3, <1>4
<1>10. Scanned \in Registry
  BY <1>5, <1>8, <1>9 DEF Registry
<1>11. \A n \in Model : Scanned[n].there /\ Scanned[n].managed => Recognised(n) \/ (row[n].there /\ row[n].managed)
  BY <1>4, <1>8 DEF found
<1>12. ASSUME NEW n \in Exclusive, row[n].enabled, ~Scanned[n].enabled
       PROVE  \E m \in Exclusive : Scanned[m].enabled
  <2> DEFINE S == found \cap Exclusive
  <2>1. n \in Model
    BY DEF Exclusive
  <2>2. S # {}
    <3>1. CASE taken(n)
      BY <2>1, <3>1, <1>6
    <3>2. CASE ~taken(n) /\ n \notin found
      BY <2>1, <3>2, <1>4, <1>8, <1>12
    <3>3. CASE n \in found
      BY <3>3
    <3> QED BY <3>1, <3>2, <3>3
  <2>3. IsFiniteSet(S)
    <3>1. S \subseteq Model
      BY DEF Exclusive
    <3> QED BY <3>1, InManifest, FS_Subset
  <2> DEFINE f == [m \in Model |-> Position(m)]
  <2>4. \A x \in S : f[x] \in Nat /\ f[x] = Position(x)
    BY InManifest DEF Exclusive
  <2> HIDE DEF S, f
  <2>5. PICK x \in S : \A y \in S : f[y] <= f[x]
    BY <2>2, <2>3, <2>4, Highest
  <2>6. ~taken(x)
    <3> SUFFICES ASSUME taken(x) PROVE FALSE
      OBVIOUS
    <3>1. PICK m \in S : Position(m) > Position(x)
      BY <1>7a DEF S
    <3>2. f[m] <= f[x] /\ f[m] \in Nat /\ f[x] \in Nat /\ f[m] > f[x]
      BY <2>4, <2>5, <3>1
    <3> QED BY <3>2
  <2>7. x \in Exclusive /\ x \in found /\ x \in Model
    BY DEF S, Exclusive
  <2>8. Scanned[x].enabled
    BY <1>3, <1>8, <2>6, <2>7
  <2> QED BY <2>7, <2>8
<1> QED BY <1>10, <1>11, <1>12

\* resolve_image_embedder keeps one of those that are enabled.
LEMMA HealedRows ==
  ASSUME NEW rows \in Registry
  PROVE  /\ Healed(rows) \in Registry
         /\ \A n \in Model : Healed(rows)[n].there = rows[n].there /\ Healed(rows)[n].managed = rows[n].managed
         /\ Enabled(rows) # {} => Enabled(Healed(rows)) # {}
<1> DEFINE new == Healed(rows)
           out(n) == n \in Enabled(rows) /\ \E m \in Enabled(rows) : rows[m].id > rows[n].id
<1>1. rows \in [Model -> RegistryRows] /\ \A n \in Model : rows[n].enabled => rows[n].there
  BY DEF Registry
<1>2. new = [n \in Model |-> new[n]] /\ \A n \in Model : new[n] = IF out(n) THEN [rows[n] EXCEPT !.enabled = FALSE] ELSE rows[n]
  BY DEF Healed
<1>3. ASSUME Enabled(rows) # {} PROVE \E x \in Enabled(rows) : ~out(x)
  <2> DEFINE S == Enabled(rows)
             f == [m \in Model |-> rows[m].id]
  <2>1. S \subseteq Model
    BY DEF Enabled, Exclusive
  <2>2. IsFiniteSet(S)
    BY <2>1, InManifest, FS_Subset
  <2>3. \A x \in S : f[x] \in Nat /\ f[x] = rows[x].id
    BY <1>1, <2>1 DEF RegistryRows
  <2>4. S # {}
    BY <1>3
  <2> HIDE DEF S, f
  <2>5. PICK x \in S : \A y \in S : f[y] <= f[x]
    BY <2>2, <2>3, <2>4, Highest
  <2>6. \A y \in S : ~(rows[y].id > rows[x].id)
    <3> TAKE y \in S
    <3>1. f[y] <= f[x] /\ f[y] \in Nat /\ f[x] \in Nat /\ f[y] = rows[y].id /\ f[x] = rows[x].id
      BY <2>3, <2>5
    <3> QED BY <3>1
  <2> QED BY <2>5, <2>6 DEF S
<1> HIDE DEF new, out
<1>4. \A n \in Model : /\ new[n] \in RegistryRows
                       /\ new[n].there = rows[n].there /\ new[n].managed = rows[n].managed
                       /\ new[n].enabled => rows[n].enabled
  BY <1>1, <1>2 DEF RegistryRows
<1>5. new \in Registry
  BY <1>1, <1>2, <1>4 DEF Registry
<1>6. Enabled(rows) # {} => Enabled(new) # {}
  BY <1>2, <1>3 DEF Enabled, Exclusive
<1> QED BY <1>4, <1>5, <1>6 DEF new

Columns == {"there", "id", "path", "managed", "enabled"}

\* A row some columns of which have been written over is a row.
LEMMA MixedRow ==
  ASSUME NEW v, NEW w \in RegistryRows, NEW r, NEW o \in RegistryRows,
         v = [c \in Columns |-> IF w[c] # r[c] THEN w[c] ELSE o[c]]
  PROVE  /\ v \in RegistryRows
         /\ \A c \in Columns : v[c] = IF w[c] # r[c] THEN w[c] ELSE o[c]
<1>1. \A c \in Columns : v[c] = IF w[c] # r[c] THEN w[c] ELSE o[c]
  OBVIOUS
<1>2. v = [c \in Columns |-> v[c]]
  OBVIOUS
<1>3. v = [there |-> v.there, id |-> v.id, path |-> v.path, managed |-> v.managed, enabled |-> v.enabled]
  BY <1>2 DEF Columns
<1>4. \A c \in Columns : v[c] \in {w[c], o[c]}
  BY <1>1
<1>5. v.there \in BOOLEAN
  BY <1>4 DEF Columns, RegistryRows
<1>6. v.managed \in BOOLEAN
  BY <1>4 DEF Columns, RegistryRows
<1>7. v.enabled \in BOOLEAN
  BY <1>4 DEF Columns, RegistryRows
<1>8. v.id \in Nat
  BY <1>4 DEF Columns, RegistryRows
<1>9. v.path \in {None, "own", "local"}
  BY <1>4 DEF Columns, RegistryRows
<1>10. v \in RegistryRows
  BY <1>3, <1>5, <1>6, <1>7, <1>8, <1>9 DEF RegistryRows
<1> QED BY <1>1, <1>10

\* A row is its columns.
LEMMA SameRow ==
  ASSUME NEW r \in RegistryRows, NEW o \in RegistryRows, \A c \in Columns : r[c] = o[c]
  PROVE  r = o
<1>1. r = [there |-> r.there, id |-> r.id, path |-> r.path, managed |-> r.managed, enabled |-> r.enabled]
  BY DEF RegistryRows
<1>2. o = [there |-> o.there, id |-> o.id, path |-> o.path, managed |-> o.managed, enabled |-> o.enabled]
  BY DEF RegistryRows
<1>3. r.there = o.there /\ r.id = o.id /\ r.path = o.path /\ r.managed = o.managed /\ r.enabled = o.enabled
  BY DEF Columns
<1> QED BY <1>1, <1>2, <1>3

\* What a registration wants of the registry it has read.
Wants(read, m, wanted) ==
    /\ wanted \in Registry /\ wanted[m].there = TRUE /\ wanted[m].enabled = TRUE
    /\ \A n \in Model \ {m} : wanted[n] = IF {m, n} \subseteq Exclusive /\ read[n].enabled
                                         THEN [read[n] EXCEPT !.enabled = FALSE] ELSE read[n]

\* Nobody has added or removed a row it writes.
Fresh(read, wanted) == \A n \in Model : wanted[n] # read[n] => row[n].there = read[n].there

\* What others have written meanwhile stays, and the model is enabled unless it was and no longer is.
RegistryMerged(read, m, wanted) ==
    LET new == Written(read, wanted)
    IN  /\ new \in Registry
        /\ \A n \in Model \ {m} : /\ new[n].there = row[n].there /\ new[n].managed = row[n].managed
                                  /\ (wanted[n] = read[n] => new[n] = row[n])
        /\ read[m].enabled = FALSE => new[m].enabled = TRUE
        /\ read[m].enabled = TRUE => new[m].enabled = row[m].enabled

\* What a registration writes over rows that others may have changed since it read them.
LEMMA WrittenRows ==
  ASSUME row \in Registry, NEW read \in Registry, NEW m \in Model, NEW wanted, Wants(read, m, wanted), Fresh(read, wanted)
  PROVE  RegistryMerged(read, m, wanted)
<1> DEFINE new == Written(read, wanted)
<1>0. /\ wanted \in Registry /\ wanted[m].there = TRUE /\ wanted[m].enabled = TRUE
      /\ \A n \in Model \ {m} : wanted[n] = IF {m, n} \subseteq Exclusive /\ read[n].enabled
                                            THEN [read[n] EXCEPT !.enabled = FALSE] ELSE read[n]
      /\ \A n \in Model : wanted[n] # read[n] => row[n].there = read[n].there
  BY DEF Wants, Fresh
<1>1. /\ row \in [Model -> RegistryRows] /\ \A n \in Model : row[n].enabled => row[n].there
      /\ read \in [Model -> RegistryRows] /\ wanted \in [Model -> RegistryRows]
  BY <1>0 DEF Registry
<1>2. DOMAIN NoRow = Columns
  BY DEF NoRow, Columns
<1>3. new = [n \in Model |-> new[n]]
  BY DEF Written
<1>4. \A n \in Model : new[n] = [c \in Columns |-> IF wanted[n][c] # read[n][c] THEN wanted[n][c] ELSE row[n][c]]
  BY <1>2 DEF Written
<1> HIDE DEF new
<1>5. \A n \in Model : /\ new[n] \in RegistryRows
                       /\ \A c \in Columns : new[n][c] = IF wanted[n][c] # read[n][c] THEN wanted[n][c] ELSE row[n][c]
  <2> TAKE n \in Model
  <2>1. wanted[n] \in RegistryRows /\ row[n] \in RegistryRows
    BY <1>1
  <2>2. new[n] = [c \in Columns |-> IF wanted[n][c] # read[n][c] THEN wanted[n][c] ELSE row[n][c]]
    BY <1>4
  <2> DEFINE v == new[n]  w == wanted[n]  r == read[n]  o == row[n]
  <2>3. /\ w \in RegistryRows /\ o \in RegistryRows
        /\ v = [c \in Columns |-> IF w[c] # r[c] THEN w[c] ELSE o[c]]
    BY <2>1, <2>2
  <2> HIDE DEF v, w, r, o
  <2>4. v \in RegistryRows /\ \A c \in Columns : v[c] = IF w[c] # r[c] THEN w[c] ELSE o[c]
    BY <2>3, MixedRow
  <2> QED BY <2>4 DEF v, w, r, o
<1>6. \A n \in Model : wanted[n] = read[n] => new[n] = row[n]
  <2> SUFFICES ASSUME NEW n \in Model, wanted[n] = read[n] PROVE new[n] = row[n]
    OBVIOUS
  <2>1. \A c \in Columns : new[n][c] = row[n][c]
    BY <1>5
  <2>2. new[n] \in RegistryRows /\ row[n] \in RegistryRows
    BY <1>1, <1>5
  <2> QED BY <2>1, <2>2, SameRow
<1>7. \A n \in Model \ {m} : new[n].there = row[n].there /\ new[n].managed = row[n].managed
                             /\ (wanted[n] # read[n] => new[n].enabled = FALSE)
  <2> TAKE n \in Model \ {m}
  <2>1. CASE wanted[n] = read[n]
    BY <1>6, <2>1
  <2>2. CASE wanted[n] # read[n]
    <3>1. wanted[n] = [read[n] EXCEPT !.enabled = FALSE] /\ read[n].enabled
      BY <1>0, <2>2
    <3>2. wanted[n].there = read[n].there /\ wanted[n].managed = read[n].managed /\ wanted[n].enabled = FALSE
      BY <1>1, <3>1 DEF RegistryRows
    <3>3. wanted[n].enabled # read[n].enabled
      BY <3>1, <3>2
    <3> QED BY <1>0, <1>5, <3>2, <3>3 DEF Columns
  <2> QED BY <2>1, <2>2
<1>8. /\ read[m].enabled = FALSE => new[m].enabled = TRUE
      /\ read[m].enabled = TRUE => new[m].enabled = row[m].enabled
      /\ wanted[m] # read[m] => new[m].there = TRUE
  <2>1. new[m].enabled = IF wanted[m].enabled # read[m].enabled THEN wanted[m].enabled ELSE row[m].enabled
    BY <1>5 DEF Columns
  <2>2. new[m].there = IF wanted[m].there # read[m].there THEN wanted[m].there ELSE row[m].there
    BY <1>5 DEF Columns
  <2>3. wanted[m] # read[m] => row[m].there = read[m].there
    BY <1>0
  <2>4. CASE wanted[m].there # read[m].there
    BY <1>0, <2>1, <2>2, <2>4
  <2>5. CASE wanted[m].there = read[m].there
    BY <1>0, <2>1, <2>2, <2>3, <2>5
  <2> QED BY <2>4, <2>5
<1>9. ASSUME NEW n \in Model, new[n].enabled PROVE new[n].there
  <2>1. CASE wanted[n] = read[n]
    BY <1>1, <1>6, <1>9, <2>1
  <2>2. CASE wanted[n] # read[n] /\ n # m
    BY <1>7, <1>9, <2>2
  <2>3. CASE wanted[n] # read[n] /\ n = m
    BY <1>8, <2>3
  <2> QED BY <2>1, <2>2, <2>3
<1>10. new \in Registry
  BY <1>3, <1>5, <1>9 DEF Registry
<1> QED BY <1>6, <1>7, <1>8, <1>10 DEF new, RegistryMerged

------------------------------------------------------------------------------
(* What is to show of a step                                                *)

\* The files of a model are among two.
LEMMA FilesAre == \A m \in Model : Files(m) \subseteq {1, 2} /\ 1 \in Files(m) /\ (form[m] # "plain" => Files(m) = {1})
BY DEF Files

\* What a step leaves of a model.
Untouched(n) ==
    /\ disk'[n] = disk[n] /\ part'[n] = part[n] /\ unpacked'[n] = unpacked[n]
    /\ Of(n)' = Of(n) /\ \A j \in Of(n) : job'[j] = job[j]
    /\ n \in cut => n \in cut'
    /\ n \in deleting' => n \in deleting
    /\ n \notin deleting' /\ row'[n].there /\ row'[n].managed =>
          Recognised(n) \/ (n \notin deleting /\ row[n].there /\ row[n].managed)

\* It leaves it as sound as it was.
LEMMA Frame ==
  ASSUME NEW n \in Model, Sound(n), UNCHANGED fixed, Untouched(n)
  PROVE  Sound(n)'
<1>1. form' = form /\ hashed' = hashed /\ Files(n)' = Files(n)
  BY DEF fixed, Files
<1>2. /\ disk'[n] = disk[n] /\ part'[n] = part[n] /\ unpacked'[n] = unpacked[n]
      /\ Of(n)' = Of(n) /\ \A j \in Of(n) : job'[j] = job[j]
  BY DEF Untouched
<1>3. Complete(n)' <=> Complete(n)
  BY <1>1, <1>2 DEF Complete
<1>4. Recognised(n)' <=> Recognised(n)
  BY <1>1, <1>2 DEF Recognised
<1>5. \A j \in Of(n) : OnTrack(n, j)' <=> OnTrack(n, j)
  BY <1>1, <1>2, <1>3 DEF OnTrack
<1>6. Usable(n) => Usable(n)'
  BY <1>1, <1>2, <1>3 DEF Usable, Untouched
<1>7. FilesSound(n)' <=> FilesSound(n)
  BY <1>1, <1>2 DEF FilesSound, Parts
<1> QED BY <1>2, <1>4, <1>5, <1>6, <1>7 DEF Sound, Untouched

\* A step of a job changes no other.
OnlyJob(j) == job' = [k \in DOMAIN job |-> job'[k]] /\ \A k \in DOMAIN job \ {j} : job'[k] = job[k]

\* It is under way before and after, or has ended.
LEMMA OtherJobs ==
  ASSUME MType, NEW j \in Active, OnlyJob(j), job'[j].model = job[j].model
  PROVE  /\ \A n \in Model \ {job[j].model} : Of(n)' = Of(n) /\ \A k \in Of(n) : job'[k] = job[k]
         /\ Of(job[j].model)' = IF job'[j].at \in Ended THEN Of(job[j].model) \ {j} ELSE Of(job[j].model)
         /\ DOMAIN job' = DOMAIN job
<1>1. j \in DOMAIN job /\ DOMAIN job' = DOMAIN job
  BY DEF Active, OnlyJob
<1>2. \A k \in DOMAIN job \ {j} : job'[k] = job[k]
  BY DEF OnlyJob
<1>3. \A n : Of(n)' = {k \in DOMAIN job : job'[k].at \notin Ended /\ job'[k].model = n}
  BY <1>1 DEF Of, Active
<1>4. \A n : Of(n) = {k \in DOMAIN job : job[k].at \notin Ended /\ job[k].model = n}
  BY DEF Of, Active
<1>5. j \in Of(job[j].model)
  BY DEF Of
<1>6. ASSUME NEW n \in Model \ {job[j].model} PROVE Of(n)' = Of(n) /\ \A k \in Of(n) : job'[k] = job[k]
  BY <1>1, <1>2, <1>3, <1>4
<1>7. Of(job[j].model)' = IF job'[j].at \in Ended THEN Of(job[j].model) \ {j} ELSE Of(job[j].model)
  BY <1>1, <1>2, <1>3, <1>4, <1>5
<1> QED BY <1>1, <1>6, <1>7

\* What is to show of a step of a job.
LEMMA JobStep ==
  ASSUME MInv, NEW j \in Active, NEW m, m = job[j].model,
         OnlyJob(j), IsJob(job'[j]), job'[j].model = m,
         UNCHANGED <<fixed, deleting, mixed>>, cut \subseteq cut',
         TwoFiles(disk)', TwoFiles(part)', unpacked' \in [Model -> SUBSET {1, 2}], row' \in Registry,
         \A n \in Model \ {m} : /\ disk'[n] = disk[n] /\ part'[n] = part[n] /\ unpacked'[n] = unpacked[n]
                                /\ row'[n].there = row[n].there /\ row'[n].managed = row[n].managed,
         m \notin mixed =>
            /\ FilesSound(m)'
            /\ form[m] = "plain" /\ Complete(m) => Complete(m)'
            /\ job'[j].at \notin Ended => OnTrack(m, j)'
            /\ job'[j].at \in Ended => m \in cut' \/ Complete(m)'
            /\ row'[m].there /\ row'[m].managed => Complete(m)' \/ (row[m].there /\ row[m].managed)
  PROVE  MInv'
<1>1. m \in Model /\ j \in Of(m) /\ j \in DOMAIN job /\ MType
  BY DEF MInv, MType, IsJob, Of, Active
<1>2. form' = form /\ hashed' = hashed
  BY DEF fixed
<1>3. MType'
  <2>1. job' = [k \in DOMAIN job' |-> job'[k]] /\ \A k \in DOMAIN job' : IsJob(job'[k])
    BY <1>1, OtherJobs DEF MType, OnlyJob
  <2>2. Model' = Model /\ Registry' = Registry
    BY DEF Model, Registry
  <2>3. \A k \in DOMAIN job' : IsJob(job[k])'
    BY <2>1, <2>2 DEF IsJob
  <2> QED BY <1>1, <1>2, <2>1, <2>2, <2>3 DEF MType
<1>4. ASSUME NEW n \in Model \ {m}, n \notin mixed' PROVE Sound(n)'
  <2>1. Sound(n)
    BY <1>4 DEF MInv
  <2>2. Untouched(n)
    BY <1>1, <1>4, OtherJobs DEF Untouched
  <2> QED BY <2>1, <2>2, Frame DEF fixed
<1>5. ASSUME m \notin mixed' PROVE Sound(m)'
  <2>1. Sound(m) /\ m \notin mixed
    BY <1>1, <1>5 DEF MInv
  <2>2. Of(m) = {j} /\ m \notin deleting /\ m \notin deleting'
    BY <1>1, <2>1 DEF Sound
  <2>3. Of(m)' = IF job'[j].at \in Ended THEN {} ELSE {j}
    <3>1. Of(m)' = IF job'[j].at \in Ended THEN Of(m) \ {j} ELSE Of(m)
      BY <1>1, OtherJobs
    <3> QED BY <2>2, <3>1
  <2>4. \A k \in Of(m)' : OnTrack(m, k)'
    BY <2>1, <2>3
  <2>5. form[m] # "plain" => Usable(m)'
    BY <1>2, <2>1, <2>3 DEF Usable
  <2>6. form[m] = "plain" /\ Usable(m) => Usable(m)'
    BY <1>2, <2>1 DEF Usable
  <2>7. Recognised(m)' => Usable(m)'
    <3>1. CASE form[m] # "plain"
      BY <2>5, <3>1
    <3>2. CASE form[m] = "plain"
      BY <1>2, <3>2 DEF Recognised, Usable, Complete
    <3> QED BY <3>1, <3>2
  <2>8. row'[m].there /\ row'[m].managed => Usable(m)'
    <3>1. row[m].there /\ row[m].managed => Usable(m)
      BY <2>1, <2>2 DEF Sound
    <3>2. Complete(m)' => Usable(m)'
      BY DEF Usable
    <3> QED BY <2>1, <2>5, <2>6, <3>1, <3>2
  <2> QED BY <2>1, <2>2, <2>3, <2>4, <2>7, <2>8 DEF Sound
<1> QED BY <1>3, <1>4, <1>5 DEF MInv

\* The first pieces of a file are a sequence, and one more piece makes the next one.
LEMMA Firsts ==
  /\ First(0) = <<>> /\ Whole = First(Size)
  /\ \A k \in Nat : /\ First(k) \in Seq(Nat) /\ Len(First(k)) = k /\ First(k) # NoFile
                    /\ Append(First(k), k + 1) = First(k + 1) /\ Placed(First(k), k + 1) = First(k + 1)
<1>1. First(0) = <<>>
  BY DEF First
<1>2. Whole = First(Size)
  BY DEF Whole, First
<1>3. ASSUME NEW k \in Nat
      PROVE  /\ First(k) \in Seq(Nat) /\ Len(First(k)) = k /\ First(k) # NoFile
             /\ Append(First(k), k + 1) = First(k + 1) /\ Placed(First(k), k + 1) = First(k + 1)
  <2>1. First(k) \in [1..k -> Nat]
    BY DEF First
  <2>2. First(k) \in Seq(Nat) /\ Len(First(k)) = k
    BY <2>1
  <2>3. First(k) # NoFile
    <3>1. CASE k = 1
      BY <3>1 DEF First, NoFile
    <3>2. CASE k # 1
      <4>1. Len(NoFile) = 1
        BY DEF NoFile
      <4> QED BY <2>2, <3>2, <4>1
    <3> QED BY <3>1, <3>2
  <2>4. Append(First(k), k + 1) = First(k + 1)
    <3>1. Append(First(k), k + 1) = [i \in 1..k + 1 |-> IF i = k + 1 THEN k + 1 ELSE First(k)[i]]
      BY <2>2
    <3>2. \A i \in 1..k + 1 : (IF i = k + 1 THEN k + 1 ELSE First(k)[i]) = i
      BY DEF First
    <3> QED BY <3>1, <3>2 DEF First
  <2>5. Max({k + 1, k}) = k + 1
    <3>1. IsFiniteSet({k + 1, k}) /\ {k + 1, k} \subseteq Int /\ {k + 1, k} # {}
      <4>1. IsFiniteSet({k}) /\ {k + 1, k} = {k} \cup {k + 1}
        BY FS_Singleton
      <4>2. IsFiniteSet({k} \cup {k + 1})
        BY <4>1, FS_AddElement
      <4> QED BY <4>1, <4>2
    <3>2. Max({k + 1, k}) \in {k + 1, k} /\ \A y \in {k + 1, k} : y <= Max({k + 1, k})
      BY <3>1, Largest
    <3> QED BY <3>2
  <2>6. Placed(First(k), k + 1) = First(k + 1)
    <3>1. Placed(First(k), k + 1) = [i \in 1..k + 1 |-> IF i = k + 1 THEN k + 1 ELSE IF i <= k THEN First(k)[i] ELSE -1]
      BY <2>2, <2>5 DEF Placed
    <3>2. \A i \in 1..k + 1 : (IF i = k + 1 THEN k + 1 ELSE IF i <= k THEN First(k)[i] ELSE -1) = i
      BY DEF First
    <3> QED BY <3>1, <3>2 DEF First
  <2> QED BY <2>2, <2>3, <2>4, <2>6
<1> QED BY <1>1, <1>2, <1>3

FilePut(s, t, m, f, v) == t = [s EXCEPT ![m][f] = v]

\* A file that is written or goes.
LEMMA FileSet ==
  ASSUME NEW s, TwoFiles(s), NEW m \in Model, NEW f \in {1, 2}, NEW v, NEW t, FilePut(s, t, m, f, v)
  PROVE  /\ TwoFiles(t) /\ t[m][f] = v
         /\ \A g \in {1, 2} \ {f} : t[m][g] = s[m][g]
         /\ \A n \in Model \ {m} : t[n] = s[n]
<1>1. DOMAIN s = Model /\ \A n \in Model : s[n] = [g \in {1, 2} |-> s[n][g]]
  BY DEF TwoFiles
<1>2. t = [n \in Model |-> IF n = m THEN [s[m] EXCEPT ![f] = v] ELSE s[n]]
  BY <1>1 DEF TwoFiles, FilePut
<1>3. t[m] = [g \in {1, 2} |-> IF g = f THEN v ELSE s[m][g]]
  BY <1>1, <1>2
<1>4. \A n \in Model : t[n] = [g \in {1, 2} |-> t[n][g]]
  BY <1>1, <1>2, <1>3
<1>5. t = [n \in Model |-> t[n]]
  BY <1>2
<1>6. TwoFiles(t)
  BY <1>4, <1>5 DEF TwoFiles
<1> QED BY <1>2, <1>3, <1>6

\* The record of a job under way, and what is known of its model.
LEMMA AtWork ==
  ASSUME MInv, NEW j \in DOMAIN job, job[j].at \notin Ended
  PROVE  /\ j \in Active /\ job[j].model \in Model /\ job[j].file \in {1, 2}
         /\ DOMAIN job[j] = {"model", "at", "file", "from", "append", "read"}
         /\ job = [k \in DOMAIN job |-> job[k]]
         /\ job[j].model \notin mixed =>
               Sound(job[j].model) /\ OnTrack(job[j].model, j) /\ FilesSound(job[j].model)
BY DEF MInv, MType, IsJob, Active, Of, Sound

\* A job that fails leaves its model cut off.
LEMMA FailStep ==
  ASSUME MInv, NEW j \in Active, NEW m, m = job[j].model, Fails(j)
  PROVE  MInv'
<1>1. j \in DOMAIN job /\ m \in Model
  BY AtWork DEF Active
<1>2. job' = [job EXCEPT ![j] = New(m, "error")] /\ m \in cut' /\ cut \subseteq cut' /\ UNCHANGED <<fixed, files, row, deleting, mixed>>
  BY DEF Fails, End
<1>3. IsJob(job'[j]) /\ job'[j].model = m /\ job'[j].at \in Ended /\ OnlyJob(j)
  <2>1. job'[j] = New(m, "error") /\ OnlyJob(j)
    BY <1>1, <1>2 DEF MInv, MType, OnlyJob
  <2> QED BY <1>1, <2>1 DEF IsJob, New, Ended
<1>4. /\ TwoFiles(disk)' /\ TwoFiles(part)' /\ unpacked' \in [Model -> SUBSET {1, 2}] /\ row' \in Registry
      /\ \A n \in Model : /\ disk'[n] = disk[n] /\ part'[n] = part[n] /\ unpacked'[n] = unpacked[n]
                          /\ row'[n].there = row[n].there /\ row'[n].managed = row[n].managed
  BY <1>2 DEF files, MInv, MType, TwoFiles
<1>5. ASSUME m \notin mixed PROVE FilesSound(m)' /\ (Complete(m) => Complete(m)')
  <2>1. FilesSound(m)
    BY <1>1, <1>5, AtWork DEF Active
  <2>2. disk' = disk /\ part' = part /\ unpacked' = unpacked /\ form' = form
    BY <1>2 DEF files, fixed
  <2>3. Files(m)' = Files(m)
    BY <2>2 DEF Files
  <2> QED BY <2>1, <2>2, <2>3 DEF FilesSound, Parts, Complete
<1>7. m \notin mixed =>
         /\ FilesSound(m)'
         /\ form[m] = "plain" /\ Complete(m) => Complete(m)'
         /\ job'[j].at \notin Ended => OnTrack(m, j)'
         /\ job'[j].at \in Ended => m \in cut' \/ Complete(m)'
         /\ row'[m].there /\ row'[m].managed => Complete(m)' \/ (row[m].there /\ row[m].managed)
  BY <1>1, <1>2, <1>3, <1>4, <1>5
<1>8. UNCHANGED <<fixed, deleting, mixed>>
  BY <1>2
<1> QED BY <1>2, <1>3, <1>4, <1>7, <1>8, JobStep

------------------------------------------------------------------------------
(* The steps of a download                                                  *)

\* A step of a download that writes nothing but one partial file, if that.
LEMMA PartStep ==
  ASSUME MInv, NEW j \in Active, NEW m, m = job[j].model, NEW f \in {1, 2}, NEW v,
         OnlyJob(j), IsJob(job'[j]), job'[j].model = m, job'[j].at \notin Ended,
         UNCHANGED <<fixed, disk, unpacked, row, deleting, ghosts>>,
         part' = part \/ part' = [part EXCEPT ![m][f] = v],
         m \notin mixed => OnTrack(m, j)' /\ (part' = part \/ v \in Parts)
  PROVE  MInv'
<1>1. /\ m \in Model /\ MType /\ UNCHANGED <<fixed, deleting, mixed>> /\ form' = form /\ hashed' = hashed
      /\ disk' = disk /\ unpacked' = unpacked /\ row' = row /\ cut' = cut
  BY AtWork DEF MInv, fixed, ghosts, Active
<1>2. /\ TwoFiles(part') /\ \A n \in Model \ {m} : part'[n] = part[n]
      /\ \A g \in {1, 2} : part'[m][g] \in {part[m][g], v}
      /\ \A g \in {1, 2} : part' # part /\ part'[m][g] # part[m][g] => g = f
  <2>1. CASE part' = part
    BY <1>1, <2>1 DEF MType
  <2>2. CASE part' = [part EXCEPT ![m][f] = v]
    <3> PICK s : s = part
      OBVIOUS
    <3> PICK t : t = part'
      OBVIOUS
    <3>1. TwoFiles(s) /\ FilePut(s, t, m, f, v)
      BY <1>1, <2>2 DEF MType, FilePut
    <3>2. /\ TwoFiles(t) /\ t[m][f] = v
          /\ \A g \in {1, 2} \ {f} : t[m][g] = s[m][g]
          /\ \A n \in Model \ {m} : t[n] = s[n]
      BY <1>1, <3>1, FileSet
    <3> QED BY <3>2
  <2> QED BY <2>1, <2>2
<1>3. TwoFiles(disk)' /\ TwoFiles(part)' /\ unpacked' \in [Model -> SUBSET {1, 2}] /\ row' \in Registry
  BY <1>1, <1>2 DEF MType, TwoFiles
<1>4. ASSUME m \notin mixed PROVE FilesSound(m)' /\ OnTrack(m, j)' /\ (Complete(m) => Complete(m)')
  <2>1. FilesSound(m)
    BY <1>1, <1>4, AtWork DEF Active
  <2>2. Files(m)' = Files(m) /\ Files(m) \subseteq {1, 2} /\ Parts' = Parts
    BY <1>1, FilesAre DEF Files, Parts, First
  <2>3. \A g \in Files(m) : part'[m][g] \in Parts
    BY <1>2, <1>4, <2>1, <2>2 DEF FilesSound
  <2>4. FilesSound(m)'
    BY <1>1, <2>1, <2>2, <2>3 DEF FilesSound
  <2>5. Complete(m) => Complete(m)'
    BY <1>1, <2>2 DEF Complete
  <2> QED BY <1>4, <2>4, <2>5
<1>5. m \notin mixed =>
         /\ FilesSound(m)'
         /\ form[m] = "plain" /\ Complete(m) => Complete(m)'
         /\ job'[j].at \notin Ended => OnTrack(m, j)'
         /\ job'[j].at \in Ended => m \in cut' \/ Complete(m)'
         /\ row'[m].there /\ row'[m].managed => Complete(m)' \/ (row[m].there /\ row[m].managed)
  BY <1>1, <1>4
<1>6. \A n \in Model \ {m} : /\ disk'[n] = disk[n] /\ part'[n] = part[n] /\ unpacked'[n] = unpacked[n]
                             /\ row'[n].there = row[n].there /\ row'[n].managed = row[n].managed
  BY <1>1, <1>2
<1>7. cut \subseteq cut'
  BY <1>1
<1> QED BY <1>1, <1>3, <1>5, <1>6, <1>7, JobStep

\* Measuring what an earlier attempt has left.
LEMMA MeasureStep ==
  ASSUME MInv, NEW j \in DOMAIN job, Measure(j)
  PROVE  MInv'
<1> PICK m : m = job[j].model
  OBVIOUS
<1> PICK f : f = job[j].file
  OBVIOUS
<1> DEFINE n == IF part[m][f] = NoFile THEN 0 ELSE Len(part[m][f])
<1>1. job[j].at = "begin" /\ job[j].at \notin Ended
  BY DEF Measure, Ended
<1>2. /\ j \in Active /\ m \in Model /\ f \in {1, 2}
      /\ DOMAIN job[j] = {"model", "at", "file", "from", "append", "read"} /\ job = [k \in DOMAIN job |-> job[k]]
      /\ m \notin mixed => OnTrack(m, j) /\ FilesSound(m)
  BY <1>1, AtWork
<1>3. job' = [job EXCEPT ![j].at = "ask", ![j].from = n]
  BY DEF Measure
<1>4. part' = part /\ UNCHANGED <<fixed, disk, unpacked, row, deleting, ghosts>>
  BY DEF Measure, files
<1> HIDE DEF n
<1>5. /\ OnlyJob(j) /\ job'[j].model = m /\ job'[j].file = f /\ job'[j].at = "ask" /\ job'[j].from = n
      /\ IsJob(job'[j]) /\ job'[j].at \notin Ended
  BY <1>2, <1>3 DEF OnlyJob, IsJob, Ended
<1>6. ASSUME m \notin mixed PROVE OnTrack(m, j)'
  <2>1. f \in Files(m) /\ \A g \in Files(m) : g < f => disk[m][g] # NoFile
    BY <1>1, <1>2, <1>6 DEF OnTrack
  <2>2. part[m][f] \in Parts
    BY <1>2, <1>6, <2>1 DEF FilesSound
  <2>3. n \in 0..Size /\ (n > 0 => part[m][f] = First(n))
    BY <2>2, Firsts, SizeAssumption DEF Parts, n
  <2>4. Files(m)' = Files(m)
    BY <1>4 DEF Files, fixed
  <2> QED BY <1>4, <1>5, <2>1, <2>3, <2>4 DEF OnTrack, First
<1> QED BY <1>2, <1>4, <1>5, <1>6, PartStep

\* The server sends the whole file.
LEMMA FromStartStep ==
  ASSUME MInv, NEW j \in DOMAIN job, FromStart(j)
  PROVE  MInv'
<1> PICK m : m = job[j].model
  OBVIOUS
<1> PICK f : f = job[j].file
  OBVIOUS
<1>1. job[j].at = "ask" /\ job[j].at \notin Ended
  BY DEF FromStart, Ended
<1>2. /\ j \in Active /\ m \in Model /\ f \in {1, 2}
      /\ DOMAIN job[j] = {"model", "at", "file", "from", "append", "read"} /\ job = [k \in DOMAIN job |-> job[k]]
      /\ m \notin mixed => OnTrack(m, j) /\ FilesSound(m)
  BY <1>1, AtWork
<1>3. /\ job' = [job EXCEPT ![j].at = "read", ![j].from = 0, ![j].append = FALSE]
      /\ part' = [part EXCEPT ![m][f] = <<>>] /\ UNCHANGED <<fixed, disk, unpacked, row, deleting, ghosts>>
  BY DEF FromStart, Writes
<1>4. /\ OnlyJob(j) /\ job'[j].model = m /\ job'[j].file = f /\ job'[j].at = "read" /\ job'[j].from = 0
      /\ IsJob(job'[j]) /\ job'[j].at \notin Ended
  BY <1>2, <1>3 DEF OnlyJob, IsJob, Ended
<1>5. <<>> \in Parts
  <2>1. 0 \in 0..Size
    BY SizeAssumption
  <2>2. First(0) \in Parts
    BY <2>1 DEF Parts
  <2> QED BY <2>2, Firsts
<1>6. ASSUME m \notin mixed PROVE OnTrack(m, j)'
  <2>1. f \in Files(m) /\ \A g \in Files(m) : g < f => disk[m][g] # NoFile
    BY <1>1, <1>2, <1>6 DEF OnTrack
  <2>2. part'[m][f] = First(0)
    <3>1. DOMAIN part = Model /\ DOMAIN part[m] = {1, 2}
      BY <1>2 DEF MInv, MType, TwoFiles
    <3> QED BY <1>2, <1>3, <3>1, Firsts
  <2>3. Files(m)' = Files(m) /\ disk' = disk
    BY <1>3 DEF Files, fixed
  <2>4. 0 \in 0..Size - 1
    BY SizeAssumption
  <2> QED BY <1>4, <2>1, <2>2, <2>3, <2>4 DEF OnTrack, First
<1> QED BY <1>2, <1>3, <1>4, <1>5, <1>6, PartStep

\* The server sends the rest.
LEMMA FromRestStep ==
  ASSUME MInv, NEW j \in DOMAIN job, FromRest(j)
  PROVE  MInv'
<1> PICK m : m = job[j].model
  OBVIOUS
<1> PICK f : f = job[j].file
  OBVIOUS
<1> PICK v : v = IF part[m][f] = NoFile THEN <<>> ELSE part[m][f]
  OBVIOUS
<1>1. job[j].at = "ask" /\ job[j].at \notin Ended /\ job[j].from \in 1..Size - 1
  BY DEF FromRest, Ended
<1>2. /\ j \in Active /\ m \in Model /\ f \in {1, 2}
      /\ DOMAIN job[j] = {"model", "at", "file", "from", "append", "read"} /\ job = [k \in DOMAIN job |-> job[k]]
      /\ m \notin mixed => OnTrack(m, j) /\ FilesSound(m)
  BY <1>1, AtWork
<1>3. /\ job' = [job EXCEPT ![j].at = "read", ![j].from = job[j].from, ![j].append = TRUE]
      /\ part' = [part EXCEPT ![m][f] = v] /\ UNCHANGED <<fixed, disk, unpacked, row, deleting, ghosts>>
  BY DEF FromRest, Writes
<1>4. /\ OnlyJob(j) /\ job'[j].model = m /\ job'[j].file = f /\ job'[j].at = "read" /\ job'[j].from = job[j].from
      /\ IsJob(job'[j]) /\ job'[j].at \notin Ended
  BY <1>2, <1>3 DEF OnlyJob, IsJob, Ended
<1>6. ASSUME m \notin mixed PROVE OnTrack(m, j)' /\ v \in Parts
  <2>1. f \in Files(m) /\ (\A g \in Files(m) : g < f => disk[m][g] # NoFile) /\ part[m][f] = First(job[j].from)
    BY <1>1, <1>2, <1>6, SizeAssumption DEF OnTrack
  <2>2. v = First(job[j].from) /\ v \in Parts
    BY <1>1, <2>1, Firsts, SizeAssumption DEF Parts
  <2>3. part'[m][f] = v
    <3>1. DOMAIN part = Model /\ DOMAIN part[m] = {1, 2}
      BY <1>2 DEF MInv, MType, TwoFiles
    <3> QED BY <1>2, <1>3, <3>1
  <2>4. Files(m)' = Files(m) /\ disk' = disk
    BY <1>3 DEF Files, fixed
  <2>5. job[j].from \in 0..Size - 1
    BY <1>1, SizeAssumption
  <2> QED BY <1>4, <2>1, <2>2, <2>3, <2>4, <2>5 DEF OnTrack, First
<1> QED BY <1>2, <1>3, <1>4, <1>6, PartStep

\* There is no rest.
LEMMA NoRestStep ==
  ASSUME MInv, NEW j \in DOMAIN job, NoRest(j)
  PROVE  MInv'
<1> PICK m : m = job[j].model
  OBVIOUS
<1> PICK f : f = job[j].file
  OBVIOUS
<1>1. job[j].at = "ask" /\ job[j].at \notin Ended
  BY DEF NoRest, Ended
<1>2. /\ j \in Active /\ m \in Model /\ f \in {1, 2}
      /\ DOMAIN job[j] = {"model", "at", "file", "from", "append", "read"} /\ job = [k \in DOMAIN job |-> job[k]]
      /\ m \notin mixed => OnTrack(m, j) /\ FilesSound(m)
  BY <1>1, AtWork
<1>3. /\ job' = [job EXCEPT ![j].from = 0]
      /\ part' = [part EXCEPT ![m][f] = NoFile] /\ UNCHANGED <<fixed, disk, unpacked, row, deleting, ghosts>>
  BY DEF NoRest
<1>4. /\ OnlyJob(j) /\ job'[j].model = m /\ job'[j].file = f /\ job'[j].at = "ask" /\ job'[j].from = 0
      /\ IsJob(job'[j]) /\ job'[j].at \notin Ended
  BY <1>1, <1>2, <1>3 DEF OnlyJob, IsJob, Ended
<1>5. NoFile \in Parts
  BY DEF Parts
<1>6. ASSUME m \notin mixed PROVE OnTrack(m, j)'
  <2>1. f \in Files(m) /\ \A g \in Files(m) : g < f => disk[m][g] # NoFile
    BY <1>1, <1>2, <1>6 DEF OnTrack
  <2>2. Files(m)' = Files(m) /\ disk' = disk
    BY <1>3 DEF Files, fixed
  <2>3. 0 \in 0..Size /\ ~(0 > 0)
    BY SizeAssumption
  <2> QED BY <1>4, <2>1, <2>2, <2>3 DEF OnTrack
<1> QED BY <1>2, <1>3, <1>4, <1>5, <1>6, PartStep

\* The next piece.
LEMMA ReadStep ==
  ASSUME MInv, NEW j \in DOMAIN job, Read(j)
  PROVE  MInv'
<1> PICK m : m = job[j].model
  OBVIOUS
<1> PICK f : f = job[j].file
  OBVIOUS
<1> PICK i : i = job[j].from + 1
  OBVIOUS
<1> PICK v : v = IF job[j].append THEN Append(part[m][f], i) ELSE Placed(part[m][f], i)
  OBVIOUS
<1>1. job[j].at = "read" /\ job[j].at \notin Ended
  BY DEF Read, Ended
<1>2. /\ j \in Active /\ m \in Model /\ f \in {1, 2}
      /\ DOMAIN job[j] = {"model", "at", "file", "from", "append", "read"} /\ job = [k \in DOMAIN job |-> job[k]]
      /\ m \notin mixed => OnTrack(m, j) /\ FilesSound(m)
  BY <1>1, AtWork
<1> PICK at : at = IF i < Size THEN "read" ELSE "verify"
  OBVIOUS
<1>3. /\ job' = [job EXCEPT ![j].from = i, ![j].at = at]
      /\ part' = [part EXCEPT ![m][f] = v] /\ UNCHANGED <<fixed, disk, unpacked, row, deleting, ghosts>>
  <2>1. part' = [part EXCEPT ![m][f] = v]
    BY Zenon DEF Read
  <2> QED BY <2>1 DEF Read
<1>4. /\ OnlyJob(j) /\ job'[j].model = m /\ job'[j].file = f /\ job'[j].at = at /\ job'[j].from = i
      /\ IsJob(job'[j]) /\ job'[j].at \notin Ended
  BY <1>1, <1>2, <1>3 DEF OnlyJob, IsJob, Ended
<1>6. ASSUME m \notin mixed PROVE OnTrack(m, j)' /\ v \in Parts
  <2>1. /\ f \in Files(m) /\ (\A g \in Files(m) : g < f => disk[m][g] # NoFile)
        /\ job[j].from \in 0..Size - 1 /\ part[m][f] = First(job[j].from)
    BY <1>1, <1>2, <1>6 DEF OnTrack
  <2>2. i \in 1..Size /\ (i < Size => i \in 0..Size - 1) /\ (~(i < Size) => i = Size) /\ job[j].from \in Nat
    BY <2>1, SizeAssumption
  <2>3. v = First(i) /\ v \in Parts
    <3>1. Append(First(job[j].from), job[j].from + 1) = First(job[j].from + 1) /\ Placed(First(job[j].from), job[j].from + 1) = First(job[j].from + 1)
      BY <2>2, Firsts
    <3>2. v = First(i)
      BY <2>1, <3>1
    <3>3. i \in 0..Size
      BY <2>2, SizeAssumption
    <3>4. First(i) \in Parts
      BY <3>3 DEF Parts
    <3> QED BY <3>2, <3>4
  <2>4. part'[m][f] = v
    <3>1. DOMAIN part = Model /\ DOMAIN part[m] = {1, 2}
      BY <1>2 DEF MInv, MType, TwoFiles
    <3> QED BY <1>2, <1>3, <3>1
  <2>5. Files(m)' = Files(m) /\ disk' = disk
    BY <1>3 DEF Files, fixed
  <2>6. First(job[j].from)' = First(job'[j].from) /\ Whole' = First(Size)
    BY Firsts DEF First, Whole
  <2> QED BY <1>4, <2>1, <2>2, <2>3, <2>4, <2>5, <2>6 DEF OnTrack
<1> QED BY <1>2, <1>3, <1>4, <1>6, PartStep

\* A registration reads the registry.
LEMMA RegisterReadStep ==
  ASSUME MInv, NEW j \in DOMAIN job, RegisterRead(j)
  PROVE  MInv'
<1> PICK m : m = job[j].model
  OBVIOUS
<1> PICK f : f = job[j].file
  OBVIOUS
<1>1. job[j].at = "register" /\ job[j].at \notin Ended
  BY DEF RegisterRead, Ended
<1>2. /\ j \in Active /\ m \in Model /\ f \in {1, 2}
      /\ DOMAIN job[j] = {"model", "at", "file", "from", "append", "read"} /\ job = [k \in DOMAIN job |-> job[k]]
      /\ m \notin mixed => OnTrack(m, j) /\ FilesSound(m)
  BY <1>1, AtWork
<1>3. /\ job' = [job EXCEPT ![j].at = "commit", ![j].read = row] /\ row \in Registry
      /\ part' = part /\ UNCHANGED <<fixed, disk, unpacked, row, deleting, ghosts>>
  BY DEF RegisterRead, files, MInv, MType
<1>4. /\ OnlyJob(j) /\ job'[j].model = m /\ job'[j].file = f /\ job'[j].at = "commit"
      /\ IsJob(job'[j]) /\ job'[j].at \notin Ended
  BY <1>1, <1>2, <1>3 DEF OnlyJob, IsJob, Ended
<1>6. ASSUME m \notin mixed PROVE OnTrack(m, j)'
  <2>1. f \in Files(m) /\ Complete(m)
    BY <1>1, <1>2, <1>6 DEF OnTrack
  <2>2. Files(m)' = Files(m) /\ Complete(m)'
    BY <1>3, <2>1 DEF Files, fixed, Complete
  <2> QED BY <1>4, <2>1, <2>2 DEF OnTrack
<1> QED BY <1>2, <1>3, <1>4, <1>6, PartStep

\* A file is checked.
LEMMA VerifyStep ==
  ASSUME MInv, NEW j \in DOMAIN job, Verify(j)
  PROVE  MInv'
<1> PICK m : m = job[j].model
  OBVIOUS
<1> PICK f : f = job[j].file
  OBVIOUS
<1>1. job[j].at = "verify" /\ job[j].at \notin Ended
  BY DEF Verify, Ended
<1>2. /\ j \in Active /\ m \in Model /\ f \in {1, 2}
      /\ DOMAIN job[j] = {"model", "at", "file", "from", "append", "read"} /\ job = [k \in DOMAIN job |-> job[k]]
      /\ m \notin mixed => OnTrack(m, j) /\ FilesSound(m)
  BY <1>1, AtWork
<1>3. UNCHANGED <<fixed, disk, unpacked, row, deleting, mixed>>
  BY DEF Verify
<1>4. CASE m \in hashed /\ part[m][f] # Whole
  <2>1. m \in mixed
    BY <1>1, <1>2, <1>4 DEF OnTrack
  <2>2. job' = [job EXCEPT ![j] = New(m, "error")] /\ cut' = cut \cup {m}
    BY <1>4 DEF Verify, End
  <2>3. IsJob(job'[j]) /\ job'[j].model = m /\ OnlyJob(j)
    <3>1. job'[j] = New(m, "error") /\ OnlyJob(j)
      BY <1>2, <2>2 DEF OnlyJob
    <3> QED BY <1>2, <3>1 DEF IsJob, New
  <2>4. part' = part \/ part' = [part EXCEPT ![m][f] = NoFile]
    BY <1>4 DEF Verify
  <2>5. TwoFiles(part') /\ \A n \in Model \ {m} : part'[n] = part[n]
    <3>1. CASE part' = part
      BY <3>1 DEF MInv, MType
    <3>2. CASE part' = [part EXCEPT ![m][f] = NoFile]
      <4> PICK s : s = part
        OBVIOUS
      <4> PICK t : t = part'
        OBVIOUS
      <4> PICK v : v = NoFile
        OBVIOUS
      <4>1. TwoFiles(s) /\ FilePut(s, t, m, f, v)
        BY <3>2 DEF MInv, MType, FilePut
      <4>2. TwoFiles(t) /\ \A n \in Model \ {m} : t[n] = s[n]
        BY <1>2, <4>1, FileSet
      <4> QED BY <4>2
    <3> QED BY <2>4, <3>1, <3>2
  <2>6. TwoFiles(disk)' /\ TwoFiles(part)' /\ unpacked' \in [Model -> SUBSET {1, 2}] /\ row' \in Registry
    BY <1>3, <2>5 DEF MInv, MType, TwoFiles
  <2>7. \A n \in Model \ {m} : /\ disk'[n] = disk[n] /\ part'[n] = part[n] /\ unpacked'[n] = unpacked[n]
                               /\ row'[n].there = row[n].there /\ row'[n].managed = row[n].managed
    BY <1>3, <2>5
  <2>8. UNCHANGED <<fixed, deleting, mixed>> /\ cut \subseteq cut'
    BY <1>3, <2>2
  <2> QED BY <1>2, <2>1, <2>3, <2>6, <2>7, <2>8, JobStep
<1>5. CASE ~(m \in hashed /\ part[m][f] # Whole)
  <2>1. job' = [job EXCEPT ![j].at = "rename"] /\ part' = part /\ cut' = cut
    BY <1>5 DEF Verify, To
  <2>2. /\ OnlyJob(j) /\ job'[j].model = m /\ job'[j].file = f /\ job'[j].at = "rename"
        /\ IsJob(job'[j]) /\ job'[j].at \notin Ended
    BY <1>2, <2>1 DEF OnlyJob, IsJob, Ended
  <2>3. ASSUME m \notin mixed PROVE OnTrack(m, j)'
    <3>1. f \in Files(m) /\ (\A g \in Files(m) : g < f => disk[m][g] # NoFile) /\ part[m][f] = Whole
      BY <1>1, <1>2, <2>3 DEF OnTrack
    <3>2. Files(m)' = Files(m) /\ Whole' = Whole /\ disk' = disk
      BY <1>3 DEF Files, fixed, Whole
    <3> QED BY <2>1, <2>2, <3>1, <3>2 DEF OnTrack
  <2>4. UNCHANGED <<fixed, disk, unpacked, row, deleting, ghosts>>
    BY <1>3, <2>1 DEF ghosts
  <2> QED BY <1>2, <2>1, <2>2, <2>3, <2>4, PartStep
<1> QED BY <1>4, <1>5

\* A file gets its name.
LEMMA RenameStep ==
  ASSUME MInv, NEW j \in DOMAIN job, Rename(j)
  PROVE  MInv'
<1> PICK m : m = job[j].model
  OBVIOUS
<1> PICK f : f = job[j].file
  OBVIOUS
<1>1. job[j].at = "rename" /\ job[j].at \notin Ended
  BY DEF Rename, Ended
<1>2. /\ j \in Active /\ m \in Model /\ f \in {1, 2}
      /\ DOMAIN job[j] = {"model", "at", "file", "from", "append", "read"} /\ job = [k \in DOMAIN job |-> job[k]]
      /\ m \notin mixed => OnTrack(m, j) /\ FilesSound(m)
  BY <1>1, AtWork
<1>3. /\ UNCHANGED <<fixed, unpacked, row, deleting, mixed, cut>> /\ form' = form
      /\ disk' = [disk EXCEPT ![m][f] = part[m][f]] /\ part' = [part EXCEPT ![m][f] = NoFile]
      /\ job' = IF f + 1 \in Files(m) THEN [job EXCEPT ![j].at = "begin", ![j].file = f + 1]
                ELSE [job EXCEPT ![j].at = IF form[m] = "bundle" THEN "unpack" ELSE "register"]
  BY DEF Rename, ghosts, fixed
<1>4. /\ TwoFiles(disk') /\ disk'[m][f] = part[m][f] /\ (\A g \in {1, 2} \ {f} : disk'[m][g] = disk[m][g])
      /\ \A n \in Model \ {m} : disk'[n] = disk[n]
  <2> PICK s : s = disk
    OBVIOUS
  <2> PICK t : t = disk'
    OBVIOUS
  <2> PICK v : v = part[m][f]
    OBVIOUS
  <2>1. TwoFiles(s) /\ FilePut(s, t, m, f, v)
    BY <1>3 DEF MInv, MType, FilePut
  <2>2. TwoFiles(t) /\ t[m][f] = v /\ (\A g \in {1, 2} \ {f} : t[m][g] = s[m][g]) /\ \A n \in Model \ {m} : t[n] = s[n]
    BY <1>2, <2>1, FileSet
  <2> QED BY <2>2
<1>5. /\ TwoFiles(part') /\ part'[m][f] = NoFile /\ (\A g \in {1, 2} \ {f} : part'[m][g] = part[m][g])
      /\ \A n \in Model \ {m} : part'[n] = part[n]
  <2> PICK s : s = part
    OBVIOUS
  <2> PICK t : t = part'
    OBVIOUS
  <2> PICK v : v = NoFile
    OBVIOUS
  <2>1. TwoFiles(s) /\ FilePut(s, t, m, f, v)
    BY <1>3 DEF MInv, MType, FilePut
  <2>2. TwoFiles(t) /\ t[m][f] = v /\ (\A g \in {1, 2} \ {f} : t[m][g] = s[m][g]) /\ \A n \in Model \ {m} : t[n] = s[n]
    BY <1>2, <2>1, FileSet
  <2> QED BY <2>2
<1>6. /\ Files(m) \subseteq {1, 2} /\ 1 \in Files(m) /\ (form[m] # "plain" => Files(m) = {1})
      /\ Files(m)' = Files(m) /\ Parts' = Parts /\ Whole' = Whole /\ Whole # NoFile
  <2>1. Whole # NoFile
    BY Firsts, SizeAssumption
  <2> QED BY <1>2, <1>3, <2>1, FilesAre DEF Files, Parts, First, Whole
<1>7. /\ OnlyJob(j) /\ job'[j].model = m
      /\ job'[j].file = (IF f + 1 \in Files(m) THEN f + 1 ELSE f)
      /\ job'[j].at = (IF f + 1 \in Files(m) THEN "begin" ELSE IF form[m] = "bundle" THEN "unpack" ELSE "register")
  BY <1>2, <1>3 DEF OnlyJob
<1>8. IsJob(job'[j]) /\ job'[j].at \notin Ended
  <2>1. DOMAIN job'[j] = {"model", "at", "file", "from", "append", "read"}
    BY <1>2, <1>3
  <2>2. job'[j].file \in {1, 2}
    BY <1>2, <1>6, <1>7
  <2>3. job'[j].at \in {"begin", "unpack", "register"}
    BY <1>7
  <2> QED BY <1>2, <1>7, <2>1, <2>2, <2>3 DEF IsJob, Ended
<1>9. ASSUME m \notin mixed
      PROVE  FilesSound(m)' /\ (form[m] = "plain" /\ Complete(m) => Complete(m)') /\ OnTrack(m, j)'
  <2>1. /\ f \in Files(m) /\ (\A g \in Files(m) : g < f => disk[m][g] # NoFile) /\ part[m][f] = Whole
        /\ \A g \in Files(m) : disk[m][g] \in {NoFile, Whole} /\ part[m][g] \in Parts
    BY <1>1, <1>2, <1>9 DEF OnTrack, FilesSound
  <2>2. \A g \in Files(m) : disk'[m][g] \in {disk[m][g], Whole} /\ (g = f => disk'[m][g] = Whole)
    BY <1>4, <1>6, <2>1
  <2>3. NoFile \in Parts
    BY DEF Parts
  <2>4. \A g \in Files(m) : part'[m][g] \in Parts
    BY <1>5, <1>6, <2>1, <2>3
  <2>5. FilesSound(m)'
    BY <1>6, <2>1, <2>2, <2>4 DEF FilesSound, Whole
  <2>6. form[m] = "plain" /\ Complete(m) => Complete(m)'
    BY <1>3, <1>6, <2>2 DEF Complete
  <2>7. \A g \in Files(m) : g < f + 1 => disk'[m][g] # NoFile
    <3> SUFFICES ASSUME NEW g \in Files(m), g < f + 1 PROVE disk'[m][g] # NoFile
      OBVIOUS
    <3>1. g = f \/ g < f
      BY <1>2, <1>6
    <3> QED BY <1>6, <2>1, <2>2, <3>1
  <2>8. OnTrack(m, j)'
    <3>1. CASE f + 1 \in Files(m)
      <4>1. job'[j].at = "begin" /\ job'[j].file = f + 1
        BY <1>7, <3>1
      <4> QED BY <1>6, <2>7, <3>1, <4>1 DEF OnTrack
    <3>2. CASE f + 1 \notin Files(m)
      <4>1. job'[j].file = f
        BY <1>7, <3>2
      <4>2. CASE form[m] = "bundle"
        <5>1. job'[j].at = "unpack" /\ f = 1
          BY <1>6, <1>7, <2>1, <3>2, <4>2
        <5>2. disk'[m][1] = Whole
          BY <2>1, <2>2, <5>1
        <5> QED BY <1>3, <1>6, <2>1, <4>1, <4>2, <5>1, <5>2 DEF OnTrack
      <4>3. CASE form[m] # "bundle"
        <5>1. job'[j].at = "register"
          BY <1>7, <3>2, <4>3
        <5>2. \A g \in Files(m) : g < f + 1
          BY <1>2, <1>6, <3>2
        <5>3. Complete(m)'
          BY <1>3, <1>6, <2>7, <4>3, <5>2 DEF Complete
        <5> QED BY <1>6, <2>1, <4>1, <5>1, <5>3 DEF OnTrack
      <4> QED BY <4>2, <4>3
    <3> QED BY <3>1, <3>2
  <2> QED BY <2>5, <2>6, <2>8
<1>10. TwoFiles(disk)' /\ TwoFiles(part)' /\ unpacked' \in [Model -> SUBSET {1, 2}] /\ row' \in Registry
  BY <1>3, <1>4, <1>5 DEF MInv, MType, TwoFiles
<1>11. \A n \in Model \ {m} : /\ disk'[n] = disk[n] /\ part'[n] = part[n] /\ unpacked'[n] = unpacked[n]
                              /\ row'[n].there = row[n].there /\ row'[n].managed = row[n].managed
  BY <1>3, <1>4, <1>5
<1>12. m \notin mixed =>
         /\ FilesSound(m)'
         /\ form[m] = "plain" /\ Complete(m) => Complete(m)'
         /\ job'[j].at \notin Ended => OnTrack(m, j)'
         /\ job'[j].at \in Ended => m \in cut' \/ Complete(m)'
         /\ row'[m].there /\ row'[m].managed => Complete(m)' \/ (row[m].there /\ row[m].managed)
  BY <1>3, <1>8, <1>9
<1>13. UNCHANGED <<fixed, deleting, mixed>> /\ cut \subseteq cut'
  BY <1>3
<1> QED BY <1>2, <1>7, <1>8, <1>10, <1>11, <1>12, <1>13, JobStep

\* A part of a bundle is extracted, or the archive goes.
LEMMA UnpackStep ==
  ASSUME MInv, NEW j \in DOMAIN job, Unpack(j)
  PROVE  MInv'
<1> PICK m : m = job[j].model
  OBVIOUS
<1> PICK f : f = job[j].file
  OBVIOUS
<1>1. job[j].at = "unpack" /\ job[j].at \notin Ended /\ disk[m][1] = Whole
  BY DEF Unpack, Ended
<1>2. /\ j \in Active /\ m \in Model /\ f \in {1, 2}
      /\ DOMAIN job[j] = {"model", "at", "file", "from", "append", "read"} /\ job = [k \in DOMAIN job |-> job[k]]
      /\ m \notin mixed => OnTrack(m, j) /\ FilesSound(m)
  BY <1>1, AtWork
<1>3. UNCHANGED <<fixed, part, row, deleting, mixed, cut>> /\ form' = form
  BY DEF Unpack, ghosts, fixed
<1>4. Files(m) \subseteq {1, 2} /\ Files(m)' = Files(m) /\ Parts' = Parts /\ Whole' = Whole
  BY <1>2, <1>3, FilesAre DEF Files, Parts, First, Whole
<1>5. m \notin mixed => form[m] = "bundle" /\ f \in Files(m) /\ \A g \in Files(m) : disk[m][g] \in {NoFile, Whole} /\ part[m][g] \in Parts
  BY <1>1, <1>2 DEF OnTrack, FilesSound
<1>6. UNCHANGED <<fixed, deleting, mixed>> /\ cut \subseteq cut'
  BY <1>3
<1>7. CASE unpacked[m] # {1, 2}
  <2>1. PICK p \in {1, 2} \ unpacked[m] : unpacked' = [unpacked EXCEPT ![m] = @ \cup {p}]
    BY <1>7 DEF Unpack
  <2>2. disk' = disk /\ job' = job
    BY <1>7 DEF Unpack
  <2>3. unpacked' \in [Model -> SUBSET {1, 2}] /\ \A n \in Model \ {m} : unpacked'[n] = unpacked[n]
    BY <1>2, <2>1 DEF MInv, MType
  <2>4. OnlyJob(j) /\ IsJob(job'[j]) /\ job'[j].model = m /\ job'[j].at \notin Ended
    BY <1>1, <1>2, <2>2 DEF OnlyJob, MInv, MType
  <2>5. TwoFiles(disk)' /\ TwoFiles(part)' /\ row' \in Registry
    BY <1>3, <2>2 DEF MInv, MType, TwoFiles
  <2>6. \A n \in Model \ {m} : /\ disk'[n] = disk[n] /\ part'[n] = part[n] /\ unpacked'[n] = unpacked[n]
                               /\ row'[n].there = row[n].there /\ row'[n].managed = row[n].managed
    BY <1>3, <2>2, <2>3
  <2>7. m \notin mixed =>
         /\ FilesSound(m)'
         /\ form[m] = "plain" /\ Complete(m) => Complete(m)'
         /\ job'[j].at \notin Ended => OnTrack(m, j)'
         /\ job'[j].at \in Ended => m \in cut' \/ Complete(m)'
         /\ row'[m].there /\ row'[m].managed => Complete(m)' \/ (row[m].there /\ row[m].managed)
    BY <1>1, <1>3, <1>4, <1>5, <2>2, <2>4 DEF FilesSound, OnTrack
  <2> QED BY <1>2, <1>6, <2>3, <2>4, <2>5, <2>6, <2>7, JobStep
<1>8. CASE unpacked[m] = {1, 2}
  <2>1. disk' = [disk EXCEPT ![m][1] = NoFile] /\ job' = [job EXCEPT ![j].at = "register"] /\ unpacked' = unpacked
    BY <1>8 DEF Unpack, To
  <2>2. /\ TwoFiles(disk') /\ disk'[m][1] = NoFile /\ (\A g \in {1, 2} \ {1} : disk'[m][g] = disk[m][g])
        /\ \A n \in Model \ {m} : disk'[n] = disk[n]
    <3> PICK s : s = disk
      OBVIOUS
    <3> PICK t : t = disk'
      OBVIOUS
    <3> PICK v : v = NoFile
      OBVIOUS
    <3> PICK g1 : g1 = 1
      OBVIOUS
    <3>1. TwoFiles(s) /\ FilePut(s, t, m, g1, v)
      BY <2>1 DEF MInv, MType, FilePut
    <3>2. TwoFiles(t) /\ t[m][g1] = v /\ (\A g \in {1, 2} \ {g1} : t[m][g] = s[m][g]) /\ \A n \in Model \ {m} : t[n] = s[n]
      BY <1>2, <3>1, FileSet
    <3> QED BY <3>2
  <2>3. /\ OnlyJob(j) /\ job'[j].model = m /\ job'[j].file = f /\ job'[j].at = "register"
        /\ IsJob(job'[j]) /\ job'[j].at \notin Ended
    BY <1>2, <2>1 DEF OnlyJob, IsJob, Ended
  <2>4. TwoFiles(disk)' /\ TwoFiles(part)' /\ unpacked' \in [Model -> SUBSET {1, 2}] /\ row' \in Registry
    BY <1>3, <2>1, <2>2 DEF MInv, MType, TwoFiles
  <2>5. \A n \in Model \ {m} : /\ disk'[n] = disk[n] /\ part'[n] = part[n] /\ unpacked'[n] = unpacked[n]
                               /\ row'[n].there = row[n].there /\ row'[n].managed = row[n].managed
    BY <1>3, <2>1, <2>2
  <2>6. ASSUME m \notin mixed PROVE FilesSound(m)' /\ Complete(m)' /\ OnTrack(m, j)'
    <3>1. \A g \in Files(m) : disk'[m][g] \in {NoFile, Whole}
      BY <1>4, <1>5, <2>2, <2>6
    <3>2. FilesSound(m)'
      BY <1>3, <1>4, <1>5, <2>6, <3>1 DEF FilesSound
    <3>3. Complete(m)'
      BY <1>3, <1>5, <1>8, <2>1, <2>6 DEF Complete
    <3> QED BY <1>4, <1>5, <2>3, <2>6, <3>2, <3>3 DEF OnTrack
  <2>7. m \notin mixed =>
         /\ FilesSound(m)'
         /\ form[m] = "plain" /\ Complete(m) => Complete(m)'
         /\ job'[j].at \notin Ended => OnTrack(m, j)'
         /\ job'[j].at \in Ended => m \in cut' \/ Complete(m)'
         /\ row'[m].there /\ row'[m].managed => Complete(m)' \/ (row[m].there /\ row[m].managed)
    BY <2>6
  <2> QED BY <1>2, <1>6, <2>3, <2>4, <2>5, <2>7, JobStep
<1> QED BY <1>7, <1>8

\* What a registration wants of the registry it has read.
LEMMA Wanted ==
  ASSUME NEW read \in Registry, NEW m \in Model
  PROVE  Wants(read, m, Upserted(read, m, "own", TRUE))
<1>1. "own" \in {"own", "local"} /\ TRUE \in BOOLEAN
  OBVIOUS
<1>2. Upserted(read, m, "own", TRUE) \in Registry
  BY <1>1, UpsertedRows
<1>3. Upserted(read, m, "own", TRUE)[m] =
        [there |-> TRUE, id |-> NewId(read, m), path |-> "own", managed |-> TRUE, enabled |-> TRUE]
  BY DEF Upserted
<1>4. Upserted(read, m, "own", TRUE)[m].there = TRUE /\ Upserted(read, m, "own", TRUE)[m].enabled = TRUE
  <2> DEFINE w == Upserted(read, m, "own", TRUE)[m]
  <2>1. w = [there |-> TRUE, id |-> NewId(read, m), path |-> "own", managed |-> TRUE, enabled |-> TRUE]
    BY <1>3
  <2> HIDE DEF w
  <2>2. w.there = TRUE /\ w.enabled = TRUE
    BY <2>1
  <2> QED BY <2>2 DEF w
<1>5. \A n \in Model \ {m} : Upserted(read, m, "own", TRUE)[n] = IF {m, n} \subseteq Exclusive /\ read[n].enabled
                                                       THEN [read[n] EXCEPT !.enabled = FALSE] ELSE read[n]
  BY DEF Upserted, TakesOver
<1> QED BY <1>2, <1>4, <1>5 DEF Wants

\* What the registration of a model has read and wants.
LEMMA Registration ==
  ASSUME MInv, NEW j \in DOMAIN job, NEW m, NEW read, NEW wanted, m = job[j].model, read = job[j].read,
         job[j].at = "commit", wanted = Upserted(read, m, "own", TRUE)
  PROVE  m \in Model /\ row \in Registry /\ read \in Registry /\ Wants(read, m, wanted)
<1>1. m \in Model /\ row \in Registry /\ read \in Registry
  BY DEF MInv, MType, IsJob
<1> QED BY <1>1, Wanted

\* A registration is committed.
LEMMA RegisterCommitStep ==
  ASSUME MInv, NEW j \in DOMAIN job, RegisterCommit(j)
  PROVE  MInv'
<1> PICK m : m = job[j].model
  OBVIOUS
<1> PICK f : f = job[j].file
  OBVIOUS
<1> PICK read : read = job[j].read
  OBVIOUS
<1> PICK wanted : wanted = Upserted(read, m, "own", TRUE)
  OBVIOUS
<1>1. job[j].at = "commit" /\ job[j].at \notin Ended
  BY DEF RegisterCommit, Ended
<1>2. /\ j \in Active /\ m \in Model /\ f \in {1, 2} /\ job = [k \in DOMAIN job |-> job[k]]
      /\ m \notin mixed => OnTrack(m, j) /\ FilesSound(m)
  BY <1>1, AtWork
<1>3. CASE \E n \in Model : wanted[n] # read[n] /\ row[n].there # read[n].there
  <2>1. Fails(j)
    BY <1>3 DEF RegisterCommit
  <2> QED BY <1>2, <2>1, FailStep
<1>4. CASE ~ \E n \in Model : wanted[n] # read[n] /\ row[n].there # read[n].there
  <2>1. End(j, "done") /\ row' = Written(read, wanted) /\ UNCHANGED <<fixed, files, deleting, page, ghosts>>
    BY <1>4 DEF RegisterCommit
  <2>2. UNCHANGED <<fixed, disk, part, unpacked, deleting, mixed, cut>> /\ form' = form
    BY <2>1 DEF files, ghosts, fixed
  <2>3. row' \in Registry /\ \A n \in Model \ {m} : row'[n].there = row[n].there /\ row'[n].managed = row[n].managed
    <3>1. m \in Model /\ row \in Registry /\ read \in Registry /\ Wants(read, m, wanted)
      BY <1>1, Registration
    <3>2. Fresh(read, wanted)
      BY <1>4 DEF Fresh
    <3>3. RegistryMerged(read, m, wanted)
      BY <3>1, <3>2, WrittenRows
    <3> QED BY <2>1, <3>3 DEF RegistryMerged
  <2>4. IsJob(job'[j]) /\ job'[j].model = m /\ job'[j].at \in Ended /\ OnlyJob(j)
    <3>1. job'[j] = New(m, "done") /\ OnlyJob(j)
      BY <1>2, <2>1 DEF OnlyJob, End
    <3> QED BY <1>2, <3>1 DEF IsJob, New, Ended
  <2>5. TwoFiles(disk)' /\ TwoFiles(part)' /\ unpacked' \in [Model -> SUBSET {1, 2}]
    BY <2>2 DEF MInv, MType, TwoFiles
  <2>6. ASSUME m \notin mixed PROVE FilesSound(m)' /\ Complete(m)'
    <3>1. FilesSound(m) /\ Complete(m)
      BY <1>1, <1>2, <2>6 DEF OnTrack
    <3> QED BY <2>2, <3>1 DEF FilesSound, Complete, Files, Parts
  <2>7. m \notin mixed =>
         /\ FilesSound(m)'
         /\ form[m] = "plain" /\ Complete(m) => Complete(m)'
         /\ job'[j].at \notin Ended => OnTrack(m, j)'
         /\ job'[j].at \in Ended => m \in cut' \/ Complete(m)'
         /\ row'[m].there /\ row'[m].managed => Complete(m)' \/ (row[m].there /\ row[m].managed)
    BY <2>4, <2>6
  <2>8. UNCHANGED <<fixed, deleting, mixed>> /\ cut \subseteq cut'
    BY <2>2
  <2>9. \A n \in Model \ {m} : /\ disk'[n] = disk[n] /\ part'[n] = part[n] /\ unpacked'[n] = unpacked[n]
                               /\ row'[n].there = row[n].there /\ row'[n].managed = row[n].managed
    BY <2>2, <2>3
  <2> QED BY <1>2, <2>3, <2>4, <2>5, <2>7, <2>8, <2>9, JobStep
<1> QED BY <1>3, <1>4

------------------------------------------------------------------------------
(* The registry, deletions and restarts                                     *)

\* A step that neither downloads nor touches a file.
LEMMA RowStep ==
  ASSUME MInv, UNCHANGED <<fixed, files, job, ghosts>>, deleting' \subseteq deleting, row' \in Registry,
         \A n \in Model \ deleting' : row'[n].there /\ row'[n].managed =>
            Recognised(n) \/ (n \notin deleting /\ row[n].there /\ row[n].managed)
  PROVE  MInv'
<1>1. disk' = disk /\ part' = part /\ unpacked' = unpacked /\ form' = form /\ mixed' = mixed /\ cut' = cut /\ job' = job
  BY DEF files, fixed, ghosts
<1>2. MType'
  BY <1>1 DEF MInv, MType, TwoFiles, IsJob, Registry, Model
<1>3. ASSUME NEW n \in Model, n \notin mixed' PROVE Sound(n)'
  <2>1. Sound(n)
    BY <1>1, <1>3 DEF MInv
  <2>2. Untouched(n)
    BY <1>1 DEF Untouched, Of, Active
  <2> QED BY <2>1, <2>2, Frame
<1> QED BY <1>2, <1>3 DEF MInv

\* The row of a deleted model goes.
LEMMA DeleteRowStep ==
  ASSUME MInv, NEW m \in Model, DeleteRow(m)
  PROVE  MInv'
<1>1. row \in [Model -> RegistryRows] /\ \A n \in Model : row[n].enabled => row[n].there
  BY DEF MInv, MType, Registry
<1>2. NoRow \in RegistryRows /\ ~NoRow.there /\ ~NoRow.enabled
  BY DEF NoRow, RegistryRows
<1>3. row' = [row EXCEPT ![m] = NoRow] /\ deleting' = deleting \ {m} /\ UNCHANGED <<fixed, files, job, ghosts>>
  BY DEF DeleteRow
<1>4. row' \in Registry
  BY <1>1, <1>2, <1>3 DEF Registry
<1>5. \A n \in Model \ deleting' : row'[n].there /\ row'[n].managed => n \notin deleting /\ row[n].there /\ row[n].managed
  BY <1>1, <1>2, <1>3
<1> QED BY <1>3, <1>4, <1>5, RowStep

\* A model is bound in place.
LEMMA RegisterLocalStep ==
  ASSUME MInv, NEW m \in Model, RegisterLocal(m)
  PROVE  MInv'
<1> PICK new : new = Upserted(row, m, "local", FALSE)
  OBVIOUS
<1>1. row \in Registry
  BY DEF MInv, MType
<1>2. UNCHANGED <<fixed, files, job, deleting, ghosts>> /\ row' \in {row, new}
  BY DEF RegisterLocal
<1>3. new \in Registry /\ new[m].managed = FALSE /\ \A n \in Model \ {m} : new[n].there = row[n].there /\ new[n].managed = row[n].managed
  <2>1. "local" \in {"own", "local"} /\ FALSE \in BOOLEAN
    OBVIOUS
  <2>2. Upserted(row, m, "local", FALSE) \in Registry
    BY <1>1, <2>1, UpsertedRows
  <2>3. new[m] = [there |-> TRUE, id |-> NewId(row, m), path |-> "local", managed |-> FALSE, enabled |-> TRUE]
    BY DEF Upserted
  <2>4. new[m].managed = FALSE
    <3> DEFINE w == new[m]
    <3>1. w = [there |-> TRUE, id |-> NewId(row, m), path |-> "local", managed |-> FALSE, enabled |-> TRUE]
      BY <2>3
    <3> HIDE DEF w
    <3>2. w.managed = FALSE
      BY <3>1
    <3> QED BY <3>2 DEF w
  <2>5. \A n \in Model \ {m} : new[n] = IF TakesOver(row, m, n) THEN [row[n] EXCEPT !.enabled = FALSE] ELSE row[n]
    BY DEF Upserted
  <2>6. \A n \in Model \ {m} : new[n].there = row[n].there /\ new[n].managed = row[n].managed
    BY <1>1, <2>5 DEF Registry, RegistryRows
  <2> QED BY <2>2, <2>4, <2>6
<1>4. row' \in Registry /\ deleting' = deleting
  BY <1>1, <1>2, <1>3
<1>5. \A n \in Model : row'[n].there /\ row'[n].managed => row[n].there /\ row[n].managed
  BY <1>2, <1>3
<1> QED BY <1>2, <1>4, <1>5, RowStep

\* A scan registers what it recognises.
LEMMA ScanStep ==
  ASSUME MInv, Scan
  PROVE  MInv'
<1>1. row \in Registry
  BY DEF MInv, MType
<1>2. UNCHANGED <<fixed, files, job, deleting, ghosts>> /\ row' = Scanned
  BY DEF Scan
<1>3. row' \in Registry /\ \A n \in Model : row'[n].there /\ row'[n].managed => Recognised(n) \/ (row[n].there /\ row[n].managed)
  BY <1>1, <1>2, ScannedRows
<1> QED BY <1>2, <1>3, RowStep

\* The registry is healed.
LEMMA HealStep ==
  ASSUME MInv, UNCHANGED <<fixed, files, job, deleting, ghosts>>, row' \in {row, Healed(row)}
  PROVE  MInv'
<1>1. row \in Registry
  BY DEF MInv, MType
<1>2. row' \in Registry /\ \A n \in Model : row'[n].there = row[n].there /\ row'[n].managed = row[n].managed
  <2>1. CASE row' = row
    BY <1>1, <2>1
  <2>2. CASE row' = Healed(row)
    BY <1>1, <2>2, HealedRows
  <2> QED BY <2>1, <2>2
<1> QED BY <1>2, RowStep

\* A download is asked for.
LEMMA DownloadStep ==
  ASSUME MInv, NEW m \in Model, NEW j \in Job, Download(m, j)
  PROVE  MInv'
<1>1. /\ j \notin DOMAIN job /\ UNCHANGED <<fixed, files, row, deleting, cut>>
      /\ job' = [k \in DOMAIN job \cup {j} |-> IF k = j THEN New(m, "begin") ELSE job[k]]
      /\ mixed' = IF Of(m) # {} \/ m \in deleting THEN mixed \cup {m} ELSE mixed
  BY DEF Download
<1>2. disk' = disk /\ part' = part /\ unpacked' = unpacked /\ form' = form /\ row' = row /\ deleting' = deleting /\ cut' = cut
  BY <1>1 DEF files, fixed
<1>3. /\ DOMAIN New(m, "begin") = {"model", "at", "file", "from", "append", "read"}
      /\ New(m, "begin").model = m /\ New(m, "begin").at = "begin" /\ New(m, "begin").file = 1
  BY DEF New
<1>4. DOMAIN job' = DOMAIN job \cup {j} /\ job'[j] = New(m, "begin") /\ \A k \in DOMAIN job : job'[k] = job[k]
  BY <1>1
<1>5. MType'
  <2>1. \A k \in DOMAIN job' : IsJob(job'[k])
    BY <1>3, <1>4 DEF MInv, MType, IsJob
  <2>2. job' = [k \in DOMAIN job' |-> job'[k]]
    BY <1>1
  <2>3. \A k \in DOMAIN job' : IsJob(job[k])'
    BY <2>1 DEF IsJob, Registry, Model
  <2>4. TwoFiles(disk)' /\ TwoFiles(part)' /\ unpacked' \in [Model -> SUBSET {1, 2}] /\ row' \in Registry
    BY <1>2 DEF MInv, MType, TwoFiles
  <2>5. form' \in [Model -> {"hf", "bundle", "plain", "none"}]
    BY <1>2 DEF MInv, MType
  <2> QED BY <2>2, <2>3, <2>4, <2>5 DEF MType, Registry, Model
<1>6. \A n \in Model : Of(n)' = IF n = m THEN Of(n) \cup {j} ELSE Of(n)
  BY <1>1, <1>3, <1>4 DEF Of, Active, Ended
<1>7. ASSUME NEW n \in Model \ {m}, n \notin mixed' PROVE Sound(n)'
  <2>1. Sound(n)
    BY <1>1, <1>7 DEF MInv
  <2>2. \A k \in Of(n) : k \in DOMAIN job
    BY DEF Of, Active
  <2>3. Untouched(n)
    BY <1>2, <1>4, <1>6, <2>2 DEF Untouched
  <2> QED BY <1>1, <2>1, <2>3, Frame
<1>8. ASSUME m \notin mixed' PROVE Sound(m)'
  <2>1. Of(m) = {} /\ m \notin deleting /\ m \notin mixed /\ Sound(m)
    BY <1>1, <1>8 DEF MInv
  <2>2. Of(m)' = {j}
    BY <1>6, <2>1
  <2>3. Files(m)' = Files(m) /\ 1 \in Files(m) /\ Parts' = Parts /\ Whole' = Whole
    BY <1>2, FilesAre DEF Files, Parts, First, Whole
  <2>4. OnTrack(m, j)'
    <3>1. \A g \in Files(m) : ~(g < 1)
      BY FilesAre
    <3> QED BY <1>3, <1>4, <2>3, <3>1 DEF OnTrack
  <2>5. FilesSound(m)' /\ (Complete(m)' <=> Complete(m)) /\ (Recognised(m)' <=> Recognised(m))
    BY <1>1, <1>2, <2>1, <2>3 DEF Sound, FilesSound, Complete, Recognised, fixed
  <2>6. Usable(m) => Usable(m)'
    BY <1>2, <2>2, <2>5 DEF Usable
  <2> QED BY <1>2, <2>1, <2>2, <2>4, <2>5, <2>6 DEF Sound
<1> QED BY <1>5, <1>7, <1>8 DEF MInv

\* The files of a model go.
LEMMA DeleteFilesStep ==
  ASSUME MInv, NEW m \in Model, DeleteFiles(m)
  PROVE  MInv'
<1> PICK held : held = {f \in Files(m) : Open(m, f) # {}}
  OBVIOUS
<1>1. PICK kept \in SUBSET Files(m), parts \in SUBSET unpacked[m] :
         /\ ~row[m].managed => kept = Files(m) /\ parts = unpacked[m]
         /\ row[m].managed /\ (held = {} \/ form[m] = "bundle") => kept = {} /\ parts = {}
         /\ unpacked' = [unpacked EXCEPT ![m] = parts]
         /\ IF form[m] = "bundle" THEN UNCHANGED <<disk, part>>
            ELSE /\ disk' = [disk EXCEPT ![m] = [f \in DOMAIN disk[m] |-> IF f \in kept THEN disk[m][f] ELSE NoFile]]
                 /\ part' = [part EXCEPT ![m] = [f \in DOMAIN part[m] |-> IF f \in kept \cup held THEN part[m][f] ELSE NoFile]]
  BY DEF DeleteFiles
<1>2. /\ UNCHANGED <<fixed, row, job, cut>> /\ form' = form /\ deleting' = deleting \cup {m}
      /\ mixed' = IF Of(m) # {} THEN mixed \cup {m} ELSE mixed
  BY DEF DeleteFiles, fixed
<1>3. /\ DOMAIN disk = Model /\ DOMAIN part = Model /\ unpacked \in [Model -> SUBSET {1, 2}]
      /\ \A n \in Model : disk[n] = [g \in {1, 2} |-> disk[n][g]] /\ part[n] = [g \in {1, 2} |-> part[n][g]]
  BY DEF MInv, MType, TwoFiles
<1>4. DOMAIN disk[m] = {1, 2} /\ DOMAIN part[m] = {1, 2}
  BY <1>3
<1>5. /\ unpacked' \in [Model -> SUBSET {1, 2}] /\ unpacked'[m] = parts
      /\ \A n \in Model \ {m} : unpacked'[n] = unpacked[n]
  BY <1>1, <1>3
<1>6. CASE form[m] = "bundle"
  <2>1. disk' = disk /\ part' = part
    BY <1>1, <1>6
  <2>2. MType'
    BY <1>2, <1>5, <2>1 DEF MInv, MType, TwoFiles, IsJob, Registry, Model
  <2>3. ASSUME NEW n \in Model \ {m}, n \notin mixed' PROVE Sound(n)'
    <3>1. Sound(n)
      BY <1>2, <2>3 DEF MInv
    <3>2. Untouched(n)
      BY <1>2, <1>5, <2>1, <2>3 DEF Untouched, Of, Active
    <3> QED BY <1>2, <3>1, <3>2, Frame
  <2>4. ASSUME m \notin mixed' PROVE Sound(m)'
    <3>1. Sound(m) /\ Of(m) = {}
      BY <1>2, <2>4 DEF MInv
    <3>2. Of(m)' = {}
      BY <1>2, <3>1 DEF Of, Active
    <3>3. FilesSound(m)'
      BY <1>2, <2>1, <3>1 DEF Sound, FilesSound, Files, Parts
    <3>4. Recognised(m)' => Usable(m)'
      <4>1. CASE row[m].managed
        BY <1>1, <1>2, <1>5, <1>6, <4>1 DEF Recognised
      <4>2. CASE ~row[m].managed
        <5>1. unpacked'[m] = unpacked[m]
          BY <1>1, <1>5, <4>2
        <5>2. Recognised(m)' => Recognised(m)
          BY <1>2, <1>6, <5>1 DEF Recognised
        <5>3. Usable(m) => Usable(m)'
          BY <1>2, <1>6, <3>1, <5>1 DEF Usable, Complete
        <5> QED BY <3>1, <5>2, <5>3 DEF Sound
      <4> QED BY <4>1, <4>2
    <3> QED BY <1>2, <3>2, <3>3, <3>4 DEF Sound
  <2> QED BY <2>2, <2>3, <2>4 DEF MInv
<1>7. CASE form[m] # "bundle"
  <2>1. /\ disk' = [n \in Model |-> IF n = m THEN [f \in {1, 2} |-> IF f \in kept THEN disk[m][f] ELSE NoFile] ELSE disk[n]]
        /\ part' = [n \in Model |-> IF n = m THEN [f \in {1, 2} |-> IF f \in kept \cup held THEN part[m][f] ELSE NoFile] ELSE part[n]]
    BY <1>1, <1>3, <1>4, <1>7
  <2>2. /\ \A f \in {1, 2} : /\ disk'[m][f] = IF f \in kept THEN disk[m][f] ELSE NoFile
                             /\ part'[m][f] = IF f \in kept \cup held THEN part[m][f] ELSE NoFile
        /\ \A n \in Model \ {m} : disk'[n] = disk[n] /\ part'[n] = part[n]
    BY <2>1
  <2>3. TwoFiles(disk') /\ TwoFiles(part')
    BY <1>3, <2>1 DEF TwoFiles
  <2>4. MType'
    BY <1>2, <1>5, <2>3 DEF MInv, MType, TwoFiles, IsJob, Registry, Model
  <2>5. ASSUME NEW n \in Model \ {m}, n \notin mixed' PROVE Sound(n)'
    <3>1. Sound(n)
      BY <1>2, <2>5 DEF MInv
    <3>2. Untouched(n)
      BY <1>2, <1>5, <2>2, <2>5 DEF Untouched, Of, Active
    <3> QED BY <1>2, <3>1, <3>2, Frame
  <2>6. ASSUME m \notin mixed' PROVE Sound(m)'
    <3>1. Sound(m) /\ Of(m) = {} /\ held = {}
      BY <1>2, <2>6 DEF MInv, Open
    <3>2. Of(m)' = {}
      BY <1>2, <3>1 DEF Of, Active
    <3>3. Files(m)' = Files(m) /\ Files(m) \subseteq {1, 2} /\ 1 \in Files(m) /\ Parts' = Parts /\ Whole' = Whole
      BY <1>2, FilesAre DEF Files, Parts, First, Whole
    <3>4. FilesSound(m)'
      <4>1. \A f \in Files(m) : disk'[m][f] \in {disk[m][f], NoFile} /\ part'[m][f] \in {part[m][f], NoFile}
        BY <2>2, <3>3
      <4>2. NoFile \in Parts
        BY DEF Parts
      <4>3. \A f \in Files(m) : disk[m][f] \in {NoFile, Whole} /\ part[m][f] \in Parts
        BY <3>1 DEF Sound, FilesSound
      <4>4. \A f \in Files(m) : disk'[m][f] \in {NoFile, Whole} /\ part'[m][f] \in Parts
        BY <4>1, <4>2, <4>3
      <4> QED BY <3>3, <4>4 DEF FilesSound
    <3>5. Recognised(m)' => Usable(m)'
      <4>1. CASE row[m].managed
        <5>1. \A f \in Files(m) : disk'[m][f] = NoFile /\ part'[m][f] = NoFile
          BY <1>1, <2>2, <3>1, <3>3, <4>1
        <5> QED BY <1>2, <1>7, <3>3, <5>1 DEF Recognised
      <4>2. CASE ~row[m].managed
        <5>1. \A f \in Files(m) : disk'[m][f] = disk[m][f] /\ part'[m][f] = part[m][f]
          BY <1>1, <2>2, <3>3, <4>2
        <5>2. Recognised(m)' => Recognised(m)
          BY <1>2, <1>7, <3>3, <5>1 DEF Recognised, fixed
        <5>3. Usable(m) => Usable(m)'
          BY <1>2, <1>7, <3>1, <3>3, <5>1 DEF Usable, Complete
        <5> QED BY <3>1, <5>2, <5>3 DEF Sound
      <4> QED BY <4>1, <4>2
    <3> QED BY <1>2, <3>2, <3>4, <3>5 DEF Sound
  <2> QED BY <2>4, <2>5, <2>6 DEF MInv
<1> QED BY <1>6, <1>7

\* The backend starts again.
LEMMA RestartStep ==
  ASSUME MInv, Restart
  PROVE  MInv'
<1>1. /\ UNCHANGED <<fixed, files>> /\ disk' = disk /\ part' = part /\ unpacked' = unpacked /\ form' = form
      /\ row' = Healed(Scanned) /\ deleting' = {} /\ mixed' = mixed \cup deleting
      /\ cut' = cut \cup {job[j].model : j \in Active}
      /\ job' = [j \in DOMAIN job |-> IF j \in Active THEN New(job[j].model, "gone") ELSE job[j]]
  BY DEF Restart, files, fixed
<1>2. /\ row' \in Registry
      /\ \A n \in Model : row'[n].there /\ row'[n].managed => Recognised(n) \/ (row[n].there /\ row[n].managed)
  <2>1. row \in Registry
    BY DEF MInv, MType
  <2>2. /\ Scanned \in Registry
        /\ \A n \in Model : Scanned[n].there /\ Scanned[n].managed => Recognised(n) \/ (row[n].there /\ row[n].managed)
    BY <2>1, ScannedRows
  <2>3. /\ Healed(Scanned) \in Registry
        /\ \A n \in Model : Healed(Scanned)[n].there = Scanned[n].there /\ Healed(Scanned)[n].managed = Scanned[n].managed
    BY <2>2, HealedRows
  <2> QED BY <1>1, <2>2, <2>3
<1>3. \A j \in DOMAIN job' : IsJob(job'[j]) /\ job'[j].at \in Ended
  <2> SUFFICES ASSUME NEW j \in DOMAIN job PROVE IsJob(job'[j]) /\ job'[j].at \in Ended
    BY <1>1
  <2>1. IsJob(job[j])
    BY DEF MInv, MType
  <2>2. CASE j \in Active
    <3>1. job'[j] = New(job[j].model, "gone")
      BY <1>1, <2>2
    <3> QED BY <2>1, <3>1 DEF IsJob, New, Ended
  <2>3. CASE j \notin Active
    <3>1. job'[j] = job[j] /\ job[j].at \in Ended
      BY <1>1, <2>3 DEF Active
    <3> QED BY <2>1, <3>1
  <2> QED BY <2>2, <2>3
<1>4. MType'
  <2>1. \A j \in DOMAIN job' : IsJob(job[j])'
    BY <1>3 DEF IsJob, Registry, Model
  <2>2. job' = [j \in DOMAIN job' |-> job'[j]]
    BY <1>1
  <2> QED BY <1>1, <1>2, <2>1, <2>2 DEF MInv, MType, TwoFiles, Registry, Model
<1>5. ASSUME NEW n \in Model, n \notin mixed' PROVE Sound(n)'
  <2>1. Sound(n) /\ n \notin deleting
    BY <1>1, <1>5 DEF MInv
  <2>2. Of(n)' = {}
    BY <1>3 DEF Of, Active
  <2>3. FilesSound(n)' /\ (Complete(n)' <=> Complete(n)) /\ (Recognised(n)' <=> Recognised(n))
    BY <1>1, <2>1 DEF Sound, FilesSound, Complete, Recognised, fixed, Files, Parts
  <2>4. Of(n) # {} => n \in cut'
    BY <1>1 DEF Of
  <2>5. Usable(n) => Usable(n)'
    BY <1>1, <2>3, <2>4 DEF Usable
  <2> QED BY <1>1, <1>2, <2>1, <2>2, <2>3, <2>5 DEF Sound
<1> QED BY <1>4, <1>5 DEF MInv

\* A download, and what ends it.
LEMMA GoesStep ==
  ASSUME MInv, NEW j \in DOMAIN job, Goes(j) \/ Broken(j)
  PROVE  MInv'
<1> PICK m : m = job[j].model
  OBVIOUS
<1>1. CASE Barred(j) \/ Broken(j) \/ RenameFails(j) \/ UnpackFails(j)
  <2>1. Fails(j) /\ job[j].at \notin Ended
    BY <1>1 DEF Barred, Broken, RenameFails, UnpackFails, Ended
  <2>2. j \in Active
    BY <2>1 DEF Active
  <2> QED BY <2>1, <2>2, FailStep
<1> QED BY <1>1, MeasureStep, FromStartStep, FromRestStep, NoRestStep, ReadStep, VerifyStep, RenameStep, UnpackStep,
           RegisterReadStep, RegisterCommitStep DEF Goes

\* A step of another part.
LEMMA OtherStep ==
  ASSUME MInv, UNCHANGED <<fixed, files, row, job, deleting, ghosts>>
  PROVE  MInv'
BY HealStep

\* Embedding, classification and the page.
LEMMA OthersHeal ==
  ASSUME VectorSteps \/ ClassSteps \/ Browse
  PROVE  UNCHANGED <<fixed, files, job, deleting, ghosts>> /\ row' \in {row, Healed(row)}
<1>1. CASE VectorSteps
  <2>1. ASSUME NEW l \in Lanes, NEW p \in Ids, NEW spaces, EmbedStart(l, p, spaces)
        PROVE  UNCHANGED <<fixed, files, job, deleting, ghosts>> /\ row' = Healed(row)
    BY <2>1 DEF EmbedStart
  <2>2. ASSUME NEW l \in Lanes, EmbedLook(l) \/ EmbedWrite(l) PROVE UNCHANGED vars
    BY <2>2 DEF EmbedLook, EmbedWrite
  <2>3. ASSUME \/ (\E l \in Lanes : EmbedFails(l)) \/ RebuildLoad
               \/ (\E pic \in Pictures, who \in People : ImportPhoto(pic, who)) \/ \E p \in Ids : TrashAll(p)
        PROVE  UNCHANGED <<fixed, files, row, job, deleting, ghosts>>
    BY <2>3 DEF EmbedFails, RebuildLoad, ImportPhoto, TrashAll
  <2>4. ASSUME RebuildWrite \/ \E p \in Ids : PurgePhoto(p) PROVE UNCHANGED vars
    BY <2>4 DEF RebuildWrite, PurgePhoto
  <2>5. UNCHANGED vars => UNCHANGED <<fixed, files, row, job, deleting, ghosts>>
    BY DEF vars
  <2> QED BY <1>1, <2>1, <2>2, <2>3, <2>4, <2>5 DEF VectorSteps
<1>2. CASE ClassSteps
  <2>1. ASSUME NEW l \in Lanes, ClassifyWrite(l) \/ \E p \in Ids : ClassifyStart(l, p)
        PROVE  UNCHANGED <<fixed, files, job, deleting, ghosts>> /\ row' \in {row, Healed(row)}
    BY <2>1 DEF ClassifyWrite, ClassifyStart, vars
  <2>2. ASSUME \/ \E mode \in {"single", "multi"} : CreateCategory(mode)
               \/ \E c \in Cats : PatchCategory(c) \/ DeleteCategory(c)
               \/ \E c \in Cats, name \in Prompts, tags \in {{}, Tags} : CreateLabel(c, name, tags)
               \/ \E x \in Labels : PatchLabel(x) \/ DeleteLabel(x)
        PROVE  Changed
    BY <2>2 DEF CreateCategory, PatchCategory, DeleteCategory, CreateLabel, PatchLabel, DeleteLabel
  <2>3. ASSUME Changed \/ \E p \in Ids, t \in Tags : Retag(p, t)
        PROVE  UNCHANGED <<fixed, files, job, deleting, ghosts>> /\ row' \in {row, Healed(row)}
    BY <2>3 DEF Changed, Retag
  <2> QED BY <1>2, <2>1, <2>2, <2>3 DEF ClassSteps
<1>3. CASE Browse
  BY <1>3 DEF Browse, Choose, Reload, Enter, LoadMore, PageArrives, PageLost, BulkTrash, TrashShown, ToggleFavourite, Still, vars
<1> QED BY <1>1, <1>2, <1>3

------------------------------------------------------------------------------
(* The invariant                                                            *)

\* At the start nothing is downloaded and what is registered was bound in place.
LEMMA InitMInv == GInit => MInv
<1> SUFFICES ASSUME GInit PROVE MInv
  OBVIOUS
<1>1. PICK w \in Worlds : InitIn(w)
  BY DEF GInit
<1>2. /\ form = w.form /\ row = w.row /\ disk = [m \in Model |-> [f \in {1, 2} |-> NoFile]] /\ part = disk
      /\ unpacked = [m \in Model |-> {}] /\ job = <<>> /\ deleting = {}
  BY <1>1 DEF InitIn
<1>3. /\ form \in [Model -> {"hf", "bundle", "plain", "none"}] /\ row \in [Model -> RegistryRows]
      /\ \A m \in Model : ~row[m].managed /\ (row[m].enabled => row[m].there)
  BY <1>2, StartAssumption
<1>4. \A m \in Model, f \in {1, 2} : disk[m][f] = NoFile /\ part[m][f] = NoFile
  BY <1>2
<1>5. DOMAIN job = {} /\ job = [j \in DOMAIN job |-> job[j]]
  BY <1>2
<1>6. TwoFiles(disk) /\ TwoFiles(part)
  BY <1>2 DEF TwoFiles
<1>7. MType
  BY <1>2, <1>3, <1>5, <1>6 DEF MType, Registry
<1>8. ASSUME NEW m \in Model PROVE Sound(m)
  <2>1. Of(m) = {}
    BY <1>5 DEF Of, Active
  <2>2. FilesSound(m)
    BY <1>4, FilesAre DEF FilesSound, Parts
  <2>3. ~Recognised(m)
    BY <1>2, <1>4, FilesAre DEF Recognised
  <2> QED BY <1>2, <1>3, <2>1, <2>2, <2>3 DEF Sound
<1> QED BY <1>7, <1>8 DEF MInv

\* Every step of the system keeps it.
LEMMA StepMInv == MInv /\ [GNext]_All => MInv'
<1> SUFFICES ASSUME MInv, [GNext]_All PROVE MInv'
  OBVIOUS
<1>1. CASE Runs
  <2>1. ASSUME NEW j \in DOMAIN job, Answer(j) \/ Tell(j) PROVE MInv'
    <3>1. UNCHANGED <<fixed, files, row, job, deleting, ghosts>>
      BY <2>1 DEF Answer, Tell
    <3> QED BY <3>1, OtherStep
  <2> QED BY <1>1, <2>1, GoesStep, DeleteRowStep DEF Runs
<1>2. CASE Aside
  <2>1. CASE Resolve
    <3>1. UNCHANGED <<fixed, files, job, deleting, ghosts>> /\ row' \in {row, Healed(row)}
      BY <2>1 DEF Resolve
    <3> QED BY <3>1, HealStep
  <2> QED BY <1>2, <2>1, GoesStep, RegisterLocalStep, DeleteFilesStep, DownloadStep, ScanStep DEF Aside
<1>3. CASE Restart
  BY <1>3, RestartStep
<1>4. CASE VectorSteps \/ ClassSteps \/ Browse
  BY <1>4, OthersHeal, HealStep
<1>5. CASE UNCHANGED All
  <2>1. UNCHANGED <<fixed, files, row, job, deleting, ghosts>>
    BY <1>5 DEF All, vars
  <2> QED BY <2>1, OtherStep
<1> QED BY <1>1, <1>2, <1>3, <1>4, <1>5 DEF GNext, ModelRuns

\* Downloads that are cut off, resumed and run beside each other leave every model sound, through every
\* step of the system.
THEOREM ModelInvariant == GSpec => []MInv
BY InitMInv, StepMInv, PTL DEF GSpec

\* A file under its own name is whole, and a managed row has its files.
THEOREM ModelsStayUsable == GSpec => []ModelsUsable
<1>1. MInv => ModelsUsable
  BY DEF MInv, ModelsUsable, FilesWhole, Sound, FilesSound, Usable
<1> QED BY <1>1, ModelInvariant, PTL

------------------------------------------------------------------------------
(* The embedder                                                             *)

\* A registration that is committed leaves an embedder enabled.
LEMMA CommitKeepsEmbedder ==
  ASSUME MInv, NEW j \in DOMAIN job, RegisterCommit(j), Enabled(row) # {},
         Cardinality(Enabled(job[j].read)) <= 1
  PROVE  Enabled(row') # {}
<1> PICK m : m = job[j].model
  OBVIOUS
<1> PICK read : read = job[j].read
  OBVIOUS
<1> PICK wanted : wanted = Upserted(read, m, "own", TRUE)
  OBVIOUS
<1>1. job[j].at = "commit"
  BY DEF RegisterCommit
<1>2. m \in Model /\ row \in Registry /\ read \in Registry /\ Wants(read, m, wanted)
  BY <1>1, Registration
<1>3. CASE row' = row
  BY <1>3 DEF Enabled
<1>4. CASE row' # row
  <2>1. row' = Written(read, wanted) /\ ~ \E n \in Model : wanted[n] # read[n] /\ row[n].there # read[n].there
    BY <1>4 DEF RegisterCommit, Fails
  <2>2. Fresh(read, wanted)
    BY <2>1 DEF Fresh
  <2>3. RegistryMerged(read, m, wanted)
    BY <1>2, <2>2, WrittenRows
  <2>4. /\ \A n \in Model \ {m} : wanted[n] = read[n] => row'[n] = row[n]
        /\ read[m].enabled = FALSE => row'[m].enabled = TRUE
        /\ read[m].enabled = TRUE => row'[m].enabled = row[m].enabled
    BY <2>1, <2>3 DEF RegistryMerged
  <2>5. \A n \in Model \ {m} : m \notin Exclusive \/ n \notin Exclusive \/ read[n].enabled = FALSE => wanted[n] = read[n]
    BY <1>2 DEF Wants
  <2>6. \A n \in Model : read[n].enabled \in BOOLEAN
    BY <1>2 DEF Registry, RegistryRows
  <2>7. Exclusive \subseteq Model
    BY DEF Exclusive
  <2>8. CASE m \notin Exclusive
    <3>1. \A n \in Exclusive : row'[n] = row[n]
      BY <2>4, <2>5, <2>7, <2>8
    <3> QED BY <3>1 DEF Enabled
  <2>9. CASE m \in Exclusive /\ read[m].enabled = FALSE
    BY <2>4, <2>9 DEF Enabled
  <2>10. CASE m \in Exclusive /\ read[m].enabled = TRUE
    <3>1. \A n \in Model \ {m} : n \in Exclusive => read[n].enabled = FALSE
      <4> SUFFICES ASSUME NEW n \in Exclusive \ {m}, read[n].enabled = TRUE PROVE FALSE
        BY <2>6, <2>7
      <4>1. {m, n} \subseteq Enabled(read)
        BY <2>10 DEF Enabled
      <4>2. IsFiniteSet(Enabled(read))
        <5>1. Enabled(read) \subseteq Model
          BY <2>7 DEF Enabled
        <5> QED BY <5>1, InManifest, FS_Subset
      <4>3. Cardinality({m, n}) <= Cardinality(Enabled(read)) /\ Cardinality(Enabled(read)) \in Nat
        BY <4>1, <4>2, FS_Subset, FS_CardinalityType
      <4>4. Cardinality({m, n}) = 2
        <5>1. IsFiniteSet({n}) /\ Cardinality({n}) = 1 /\ m \notin {n} /\ {m, n} = {n} \cup {m}
          BY FS_Singleton
        <5>2. Cardinality({n} \cup {m}) = Cardinality({n}) + 1
          BY <5>1, FS_AddElement
        <5> QED BY <5>1, <5>2
      <4>5. Cardinality(Enabled(read)) <= 1
        OBVIOUS
      <4> QED BY <4>3, <4>4, <4>5
    <3>2. \A n \in Exclusive : row'[n].enabled = row[n].enabled
      <4>1. row'[m].enabled = row[m].enabled
        BY <2>4, <2>10
      <4>2. \A n \in Exclusive \ {m} : row'[n] = row[n]
        BY <2>4, <2>5, <2>7, <3>1
      <4> QED BY <4>1, <4>2
    <3> QED BY <3>2 DEF Enabled
  <2> QED BY <1>2, <2>6, <2>8, <2>9, <2>10
<1> QED BY <1>3, <1>4

\* So does any other step that takes no row away.
LEMMA OthersKeepEmbedder ==
  ASSUME MInv, Enabled(row) # {}, \A m \in Exclusive : row'[m].there = row[m].there,
         \/ \E m \in Model : DeleteRow(m) \/ RegisterLocal(m)
         \/ Scan \/ Restart \/ row' \in {row, Healed(row)}
  PROVE  Enabled(row') # {}
<1>1. row \in Registry /\ Exclusive \subseteq Model /\ row \in [Model -> RegistryRows] /\ \A n \in Model : row[n].enabled => row[n].there
  BY DEF MInv, MType, Exclusive, Registry
<1>2. ASSUME NEW m \in Model, DeleteRow(m) PROVE Enabled(row') # {}
  <2>1. row' = [row EXCEPT ![m] = NoRow]
    BY <1>2 DEF DeleteRow
  <2>2. row'[m].there = FALSE /\ \A n \in Model \ {m} : row'[n] = row[n]
    BY <1>1, <2>1 DEF NoRow
  <2>3. m \notin Enabled(row)
    BY <1>1, <2>2 DEF Enabled
  <2> QED BY <1>1, <2>2, <2>3 DEF Enabled
<1>3. ASSUME NEW m \in Model, RegisterLocal(m) PROVE Enabled(row') # {}
  <2> DEFINE new == Upserted(row, m, "local", FALSE)
  <2>1. row' \in {row, new}
    BY <1>3 DEF RegisterLocal
  <2>2. new[m] = [there |-> TRUE, id |-> NewId(row, m), path |-> "local", managed |-> FALSE, enabled |-> TRUE]
    BY DEF Upserted
  <2>3. \A n \in Model \ {m} : new[n] = IF TakesOver(row, m, n) THEN [row[n] EXCEPT !.enabled = FALSE] ELSE row[n]
    BY DEF Upserted
  <2> HIDE DEF new
  <2>4. CASE m \in Exclusive
    <3>1. m \in Enabled(new)
      BY <2>2, <2>4 DEF Enabled
    <3> QED BY <2>1, <3>1
  <2>5. CASE m \notin Exclusive
    <3>1. \A n \in Exclusive : new[n] = row[n]
      BY <1>1, <2>3, <2>5 DEF TakesOver
    <3>2. Enabled(new) = Enabled(row)
      BY <3>1 DEF Enabled
    <3> QED BY <2>1, <3>2
  <2> QED BY <2>4, <2>5
<1>4. Enabled(Scanned) # {} /\ Scanned \in Registry
  BY <1>1, ScannedRows DEF Enabled
<1>5. CASE Scan
  BY <1>4, <1>5 DEF Scan
<1>6. CASE Restart
  BY <1>4, <1>6, HealedRows DEF Restart
<1>7. CASE row' \in {row, Healed(row)}
  BY <1>1, <1>7, HealedRows
<1> QED BY <1>2, <1>3, <1>5, <1>6, <1>7

\* As long as an embedder is enabled and no row goes, none of the steps of any part of the system
\* leaves none, unless a registration has read two as enabled.
THEOREM EmbedderIsKept == GSpec => EmbedderStays
<1> DEFINE Remains == (/\ Enabled(row) # {} /\ \A m \in Exclusive : row'[m].there = row[m].there
                    /\ \A j \in Active : job[j].at = "commit" => Cardinality(Enabled(job[j].read)) <= 1)
                       => Enabled(row') # {}
<1>1. MInv /\ [GNext]_All => Remains
  <2> SUFFICES ASSUME MInv, [GNext]_All, Enabled(row) # {}, \A m \in Exclusive : row'[m].there = row[m].there,
                      \A j \in Active : job[j].at = "commit" => Cardinality(Enabled(job[j].read)) <= 1
               PROVE  Enabled(row') # {}
    OBVIOUS
  <2>1. ASSUME NEW j \in DOMAIN job, RegisterCommit(j) PROVE Enabled(row') # {}
    <3>1. job[j].at = "commit" /\ j \in Active
      BY <2>1 DEF RegisterCommit, Active, Ended
    <3> QED BY <2>1, <3>1, CommitKeepsEmbedder
  <2>2. ASSUME NEW j \in DOMAIN job, Goes(j) \/ Broken(j), ~RegisterCommit(j) PROVE row' = row
    BY <2>2 DEF Goes, Broken, Measure, FromStart, FromRest, Writes, NoRest, Barred, Read, Verify, Rename, RenameFails,
       Unpack, UnpackFails, RegisterRead, Fails, files
  <2>3. ASSUME NEW j \in DOMAIN job, Answer(j) \/ Tell(j) PROVE row' = row
    BY <2>3 DEF Answer, Tell
  <2>4. ASSUME NEW m \in Model, DeleteFiles(m) \/ \E j \in Job : Download(m, j) PROVE row' = row
    BY <2>4 DEF DeleteFiles, Download
  <2>5. ASSUME Resolve PROVE row' = Healed(row)
    BY <2>5 DEF Resolve
  <2>6. UNCHANGED All => row' = row
    BY DEF All, vars
  <2>7. CASE Runs
    BY <2>1, <2>2, <2>3, <2>7, OthersKeepEmbedder DEF Runs
  <2>8. CASE Aside
    <3>1. ASSUME NEW j \in DOMAIN job, Broken(j) PROVE row' = row
      BY <3>1 DEF Broken, Fails
    <3> QED BY <2>4, <2>5, <2>8, <3>1, OthersKeepEmbedder DEF Aside
  <2>9. CASE Restart
    BY <2>9, OthersKeepEmbedder
  <2>10. CASE VectorSteps \/ ClassSteps \/ Browse
    BY <2>10, OthersHeal, OthersKeepEmbedder
  <2>11. CASE UNCHANGED All
    BY <2>6, <2>11, OthersKeepEmbedder
  <2> QED BY <2>7, <2>8, <2>9, <2>10, <2>11 DEF GNext, ModelRuns
<1>2. EmbedderStays <=> [][Remains]_vars
  BY PTL DEF EmbedderStays
<1> HIDE DEF Remains
<1>3. MInv /\ [GNext]_All => [Remains]_vars
  BY <1>1
<1> QED BY <1>2, <1>3, ModelInvariant, PTL DEF GSpec
=============================================================================
