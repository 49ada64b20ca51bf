---------------------------- MODULE CropsProofs ----------------------------
(***************************************************************************)
(* Proofs about Crops for any number of uploads at a time, any persons,     *)
(* batches, folders and rows. Whoever names, writes, moves or reads a crop  *)
(* does so beside the others; the property says of every step that it keeps *)
(* the files in order or does one of three things, and each action is taken *)
(* apart by which file and which row it touches. The scan needs an          *)
(* invariant besides, about the crops that it has still to come to.         *)
(***************************************************************************)
EXTENDS Crops, FiniteSetTheorems, TLAPS

-----------------------------------------------------------------------------
(* Least and largest numbers, free names and free ids.                       *)

\* In a finite set that is not empty some element comes before all others that R compares it with.
LEMMA First ==
  ASSUME NEW S, IsFiniteSet(S), S # {}, NEW R,
         \A x \in S : <<x, x>> \notin R,
         \A x, y, z \in S : <<x, y>> \in R /\ <<y, z>> \in R => <<x, z>> \in R
  PROVE  \E x \in S : \A y \in S : <<y, x>> \notin R
<1> DEFINE Below(x) == {y \in S : <<y, x>> \in R}
           T        == {Below(x) : x \in S}
           O        == StrictSubsetOrdering(S)
<1>1. (\A x \in S : Below(x) \in T) /\ (\A D \in T : \E x \in S : D = Below(x))
  <2> HIDE DEF Below
  <2> QED OBVIOUS
<1>2. \A x \in S : Below(x) \in SUBSET S /\ IsFiniteSet(Below(x))
  BY FS_Subset
<1> HIDE DEF T
<1>3. T \subseteq FiniteSubsetsOf(S) /\ T # {}
  <2> HIDE DEF Below
  <2> QED BY <1>1, <1>2 DEF FiniteSubsetsOf
<1>4. PICK D \in T : \A E \in T : <<E, D>> \notin O
  <2>1. IsWellFoundedOn(O, FiniteSubsetsOf(S))
    BY FS_StrictSubsetOrderingWellFounded
  <2> HIDE DEF O
  <2> QED BY <1>3, <2>1, WFMin
<1>5. PICK x \in S : D = Below(x)
  BY <1>1
<1>6. ASSUME NEW y \in S, <<y, x>> \in R PROVE FALSE
  <2>1. Below(y) \subseteq Below(x) /\ y \in Below(x) /\ y \notin Below(y)
    BY <1>6
  <2>2. Below(y) \in T
    BY <1>1
  <2>3. Below(y) \in SUBSET S /\ Below(x) \in SUBSET S
    OBVIOUS
  <2>4. <<Below(y), Below(x)>> \notin O
    BY <1>4, <1>5, <2>2
  <2> HIDE DEF Below
  <2> QED BY <2>1, <2>3, <2>4 DEF StrictSubsetOrdering
<1> QED BY <1>6

\* So a set of numbers has a smallest element, and a largest.
LEMMA Smallest ==
  ASSUME NEW S, IsFiniteSet(S), S \subseteq Int, S # {}
  PROVE  Min(S) \in S
<1> DEFINE R == {x \in S \X S : x[1] < x[2]}
<1>1. \A x, y \in S : <<x, y>> \in R <=> x < y
  OBVIOUS
<1> HIDE DEF R
<1>2. \E x \in S : \A y \in S : <<y, x>> \notin R
  <2>1. \A x \in S : <<x, x>> \notin R
    BY <1>1
  <2>2. \A x, y, z \in S : <<x, y>> \in R /\ <<y, z>> \in R => <<x, z>> \in R
    BY <1>1
  <2> QED BY <2>1, <2>2, First
<1>3. \E x \in S : \A y \in S : x <= y
  <2>1. PICK x \in S : \A y \in S : <<y, x>> \notin R
    BY <1>2
  <2>2. \A y \in S : ~(y < x) /\ x \in Int /\ y \in Int
    BY <1>1, <2>1
  <2> QED BY <2>2
<1> QED BY <1>3 DEF Min

\* And a largest one.
LEMMA Largest ==
  ASSUME NEW S, IsFiniteSet(S), S \subseteq Int, S # {}
  PROVE  Max(S) \in S /\ \A y \in S : y <= Max(S)
<1> DEFINE R == {x \in S \X S : x[1] > x[2]}
<1>1. \A x, y \in S : <<x, y>> \in R <=> x > y
  OBVIOUS
<1> HIDE DEF R
<1>2. \E x \in S : \A y \in S : <<y, x>> \notin R
  <2>1. \A x \in S : <<x, x>> \notin R
    BY <1>1
  <2>2. \A x, y, z \in S : <<x, y>> \in R /\ <<y, z>> \in R => <<x, z>> \in R
    BY <1>1
  <2> QED BY <2>1, <2>2, First
<1>3. \E x \in S : \A y \in S : x >= y
  <2>1. PICK x \in S : \A y \in S : <<y, x>> \notin R
    BY <1>2
  <2>2. \A y \in S : ~(y > x) /\ x \in Int /\ y \in Int
    BY <1>1, <2>1
  <2> QED BY <2>2
<1>4. Max(S) \in S /\ \A y \in S : Max(S) >= y
  BY <1>3 DEF Max
<1> QED BY <1>4

\* A free name is found, since the numbers are one more than the files.
LEMMA FreeVacant ==
  ASSUME NEW files, IsFiniteSet(DOMAIN files), NEW x \in CropPaths
  PROVE  Vacant(files, x) \in CropPaths \ DOMAIN files
<1> DEFINE Numbered(k) == [x EXCEPT !.name = Append(@, k)]
           n  == Cardinality(DOMAIN files)
           I  == 1..(n + 1)
           ks == {k \in I : Numbered(k) \notin DOMAIN files}
           f  == [k \in I |-> Numbered(k)]
<1>1. n \in Nat
  BY FS_CardinalityType
<1>2. x = [top |-> x.top, dir |-> x.dir, sub |-> x.sub, name |-> x.name] /\ x.name \in Seq(STRING \cup Nat)
  BY DEF CropPaths
<1>3. \A k \in Nat : Numbered(k) = [top |-> x.top, dir |-> x.dir, sub |-> x.sub, name |-> Append(x.name, k)]
  <2> TAKE k \in Nat
  <2>1. PICK a, b, c, d : x = [top |-> a, dir |-> b, sub |-> c, name |-> d]
    BY <1>2
  <2> QED BY <2>1
<1>4. \A k \in Nat : Append(x.name, k) \in Seq(STRING \cup Nat)
  BY <1>2
<1>5. \A k \in Nat : Numbered(k) \in CropPaths
  BY <1>3, <1>4 DEF CropPaths
<1>6. \A k, j \in Nat : Numbered(k) = Numbered(j) => k = j
  <2> SUFFICES ASSUME NEW k \in Nat, NEW j \in Nat, Append(x.name, k) = Append(x.name, j) PROVE k = j
    BY <1>3
  <2>1. Append(x.name, k)[Len(x.name) + 1] = k /\ Append(x.name, j)[Len(x.name) + 1] = j
    BY <1>2
  <2> QED BY <2>1
<1> HIDE DEF Numbered, n
<1>7. IsFiniteSet(I) /\ Cardinality(I) = n + 1 /\ I \subseteq Nat
  <2> DEFINE m == n + 1
  <2>1. m \in Int /\ 1 \in Int
    BY <1>1
  <2> HIDE DEF m
  <2>2. IsFiniteSet(1..m) /\ Cardinality(1..m) = IF 1 > m THEN 0 ELSE m - 1 + 1
    BY <2>1, FS_Interval
  <2> QED BY <1>1, <2>2 DEF m
<1>8. ks # {}
  <2> SUFFICES ASSUME ks = {} PROVE FALSE
    OBVIOUS
  <2>1. f \in Injection(I, DOMAIN files)
    BY <1>6, <1>7 DEF Injection, IsInjective
  <2> HIDE DEF f, I
  <2>2. Cardinality(I) <= n
    BY <2>1, FS_Injection DEF n
  <2> QED BY <1>1, <1>7, <2>2
<1>9. IsFiniteSet(ks) /\ ks \subseteq Int
  BY <1>1, <1>7, FS_Subset
<1> DEFINE k == Min(ks)
<1>10. k \in ks
  BY <1>8, <1>9, Smallest
<1>11. Vacant(files, x) = IF x \notin DOMAIN files THEN x ELSE Numbered(k)
  BY DEF Vacant, Numbered, n
<1> HIDE DEF k
<1>12. k \in Nat /\ Numbered(k) \notin DOMAIN files
  BY <1>7, <1>10
<1> QED BY <1>5, <1>11, <1>12

\* A new row has an id that no row has.
LEMMA FreeId ==
  ASSUME NEW f, IsFiniteSet(DOMAIN f), DOMAIN f \subseteq Nat
  PROVE  NewId(f) \in Nat \ DOMAIN f
<1> DEFINE m == Max(DOMAIN f \cup {0})
<1>1. IsFiniteSet(DOMAIN f \cup {0})
  BY FS_AddElement
<1>2. m \in DOMAIN f \cup {0} /\ \A y \in DOMAIN f \cup {0} : y <= m
  BY <1>1, Largest
<1>3. NewId(f) = 1 + m
  BY DEF NewId
<1> HIDE DEF m
<1>4. m \in Nat /\ 1 + m \notin DOMAIN f
  BY <1>2
<1> QED BY <1>3, <1>4

-----------------------------------------------------------------------------
(* What the rows, files, uploads, assignments and the scan are.              *)

\* A function of finitely many arguments, all in S.
IsTable(f, S) == f = [x \in DOMAIN f |-> f[x]] /\ IsFiniteSet(DOMAIN f) /\ DOMAIN f \subseteq S

IsUpload(u) ==
    /\ u = [at |-> u.at, person |-> u.person, todo |-> u.todo, path |-> u.path]
    /\ u.at \in {"rest", "next", "named", "written"}
    /\ u.at \in {"rest", "next"} => u.path = Nowhere
    /\ u.at \in {"named", "written"} => u.path \in CropPaths
    /\ u.at # "rest" => u.person \in Keepers /\ u.todo \in Seq(Pics) \ {<<>>}

IsMove(r) == /\ r = [id |-> r.id, was |-> r.was, to |-> r.to, person |-> r.person]
             /\ IsRow(r.was) /\ r.to \in CropPaths

IsWalk(w) ==
    /\ w = [at |-> w.at, known |-> w.known, dirs |-> w.dirs, list |-> w.list, file |-> w.file, pic |-> w.pic,
            stray |-> w.stray]
    /\ w.at \in {"off", "start", "walking"}
    /\ w.file \in CropPaths \cup {Nowhere}
    /\ w.at # "walking" => w.dirs = {} /\ w.list = {} /\ w.file = Nowhere /\ w.stray = {}

CropsTyped ==
    /\ IsTable(cropFile, CropPaths)
    /\ IsTable(faceRow, Nat) /\ \A i \in DOMAIN faceRow : IsRow(faceRow[i])
    /\ upload = [c \in Calls |-> upload[c]] /\ \A c \in Calls : IsUpload(upload[c])
    /\ \A r \in assigns : IsMove(r)
    /\ IsWalk(walk)
    /\ uses = [u \in DOMAIN uses |-> uses[u]] /\ \A u \in DOMAIN uses : uses[u] \in Nat

\* g is f but for k, where it is v.
HasPut(g, f, k, v) ==
    DOMAIN g = DOMAIN f \cup {k} /\ \A z \in DOMAIN f \cup {k} : g[z] = IF z = k THEN v ELSE f[z]

\* g is f without T.
HasLess(g, f, T) == DOMAIN g = DOMAIN f \ T /\ \A z \in DOMAIN f \ T : g[z] = f[z]

\* g is f, with what was at x now at y.
HasMoved(g, f, x, y) ==
    /\ x \notin DOMAIN f => g = f
    /\ x \in DOMAIN f => /\ DOMAIN g = (DOMAIN f \ {x}) \cup {y}
                         /\ \A z \in (DOMAIN f \ {x}) \cup {y} : g[z] = IF z = y THEN f[x] ELSE f[z]

\* Tables stay tables.
LEMMA PutTable ==
  ASSUME NEW S, NEW f, IsTable(f, S), NEW k \in S, NEW v
  PROVE  IsTable(Put(f, k, v), S) /\ HasPut(Put(f, k, v), f, k, v)
<1>1. DOMAIN Put(f, k, v) = DOMAIN f \cup {k} /\ \A z \in DOMAIN f \cup {k} : Put(f, k, v)[z] = IF z = k THEN v ELSE f[z]
  BY DEF Put
<1>2. IsFiniteSet(DOMAIN f \cup {k})
  BY FS_AddElement DEF IsTable
<1>3. Put(f, k, v) = [z \in DOMAIN Put(f, k, v) |-> Put(f, k, v)[z]]
  BY DEF Put
<1> QED BY <1>1, <1>2, <1>3 DEF IsTable, HasPut

\* Without some of its arguments.
LEMMA WithoutTable ==
  ASSUME NEW S, NEW f, IsTable(f, S), NEW T
  PROVE  IsTable(Without(f, T), S) /\ HasLess(Without(f, T), f, T)
<1>1. DOMAIN Without(f, T) = DOMAIN f \ T /\ \A z \in DOMAIN f \ T : Without(f, T)[z] = f[z]
  BY DEF Without
<1>2. IsFiniteSet(DOMAIN f \ T)
  <2>1. DOMAIN f \ T \in SUBSET DOMAIN f
    OBVIOUS
  <2> QED BY <2>1, FS_Subset DEF IsTable
<1>3. Without(f, T) = [z \in DOMAIN Without(f, T) |-> Without(f, T)[z]]
  BY DEF Without
<1> QED BY <1>1, <1>2, <1>3 DEF IsTable, HasLess

\* With one argument in place of another.
LEMMA MovedTable ==
  ASSUME NEW S, NEW f, IsTable(f, S), NEW x, NEW y \in S
  PROVE  IsTable(Moved(f, x, y), S) /\ HasMoved(Moved(f, x, y), f, x, y)
<1>1. x \notin DOMAIN f => Moved(f, x, y) = f
  BY DEF Moved
<1>2. ASSUME x \in DOMAIN f
      PROVE  /\ DOMAIN Moved(f, x, y) = (DOMAIN f \ {x}) \cup {y}
             /\ \A z \in (DOMAIN f \ {x}) \cup {y} : Moved(f, x, y)[z] = IF z = y THEN f[x] ELSE f[z]
             /\ Moved(f, x, y) = [z \in DOMAIN Moved(f, x, y) |-> Moved(f, x, y)[z]]
  BY <1>2 DEF Moved
<1>3. IsFiniteSet((DOMAIN f \ {x}) \cup {y})
  <2>1. IsFiniteSet(DOMAIN f \ {x})
    BY FS_RemoveElement DEF IsTable
  <2> QED BY <2>1, FS_AddElement
<1>4. IsTable(Moved(f, x, y), S)
  BY <1>1, <1>2, <1>3 DEF IsTable
<1> QED BY <1>1, <1>2, <1>4 DEF HasMoved

\* Where a crop lands: nowhere, on a free name, or where there is one already, since it is there or was moved before.
LEMMA Lands ==
  ASSUME NEW f, IsTable(f, CropPaths), NEW x \in CropPaths, NEW y \in CropPaths, NEW at, at = Landing(f, x, y)
  PROVE  /\ at \in CropPaths \cup {Nowhere}
         /\ x \in DOMAIN f => at \in CropPaths /\ (at = x \/ at \notin DOMAIN f)
         /\ x \notin DOMAIN f => (at = y /\ y \in DOMAIN f) \/ (at = Nowhere /\ y \notin DOMAIN f)
<1>1. Vacant(f, y) \in CropPaths \ DOMAIN f
  BY FreeVacant DEF IsTable
<1>2. CASE x \in DOMAIN f
  <2>1. at = IF x = y THEN x ELSE Vacant(f, y)
    BY <1>2 DEF Landing
  <2> QED BY <1>1, <1>2, <2>1
<1>3. CASE x \notin DOMAIN f
  <2>1. at = IF y \in DOMAIN f THEN y ELSE Nowhere
    BY <1>3 DEF Landing
  <2> QED BY <1>3, <2>1
<1> QED BY <1>2, <1>3

\* Another folder has a path, too.
LEMMA OtherFolder ==
  ASSUME NEW x \in CropPaths, NEW p \in Keepers
  PROVE  [x EXCEPT !.dir = p] \in CropPaths
BY DEF CropPaths

\* A free name for an upload.
LEMMA NameFree ==
  ASSUME CropsTyped, NEW p \in Keepers, NEW todo \in Seq(Pics) \ {<<>>}
  PROVE  FreeName(p, Head(todo).name) \in CropPaths \ DOMAIN cropFile
<1>1. Head(todo) \in Pics
  OBVIOUS
<1>2. Head(todo).name \in Seq(STRING)
  BY <1>1, BatchesAssumption
<1>3. Head(todo).name \in Seq(STRING \cup Nat)
  BY <1>2
<1>4. CropPath(p, Head(todo).name) \in CropPaths
  BY <1>3 DEF CropPath, In, CropPaths
<1>5. IsFiniteSet(DOMAIN cropFile)
  BY DEF CropsTyped, IsTable
<1> QED BY <1>4, <1>5, FreeVacant DEF FreeName

\* What is spent was there.
LEMMA SpentTyped ==
  ASSUME CropsTyped, NEW u, Spend(u)
  PROVE  uses' = [v \in DOMAIN uses' |-> uses'[v]] /\ (\A v \in DOMAIN uses' : uses'[v] \in Nat) /\ uses' # uses
<1>1. uses' = [v \in DOMAIN uses |-> IF v = u THEN uses[u] - 1 ELSE uses[v]]
  BY DEF Spend, CropsTyped
<1>2. u \in DOMAIN uses /\ uses[u] \in Nat \ {0}
  BY DEF Spend, CropsTyped
<1>3. uses'[u] # uses[u]
  BY <1>1, <1>2
<1> QED BY <1>1, <1>2, <1>3 DEF CropsTyped

\* What begins an upload has a name, is in a folder and holds something.
LEMMA NamedTyped ==
  ASSUME CropsTyped, NEW u, NEW at, NEW p \in Keepers, NEW todo \in Seq(Pics) \ {<<>>}, NEW x,
         u = [at |-> at, person |-> p, todo |-> todo, path |-> x], NEW v, v = Named(u)
  PROVE  /\ IsUpload(v) /\ v.path \notin DOMAIN cropFile /\ v.path \in CropPaths
         /\ v = [at |-> "named", person |-> p, todo |-> todo, path |-> v.path]
<1>1. u.person = p /\ u.todo = todo
  OBVIOUS
<1>2. PICK y : y = FreeName(p, Head(todo).name)
  OBVIOUS
<1>3. v = [u EXCEPT !.at = "named", !.path = y]
  BY <1>1, <1>2 DEF Named
<1>4. v = [at |-> "named", person |-> p, todo |-> todo, path |-> y]
  BY <1>3
<1>5. y \in CropPaths \ DOMAIN cropFile
  BY <1>2, NameFree
<1> QED BY <1>4, <1>5 DEF IsUpload

-----------------------------------------------------------------------------
(* Where a crop is, and what the uploads do.                                 *)

\* Where the crop of face i is, by these rows and assignments.
CropIn(rows, moves, i) ==
    LET moving == {r \in moves : r.id = i} IN IF moving = {} THEN rows[i].path ELSE (CHOOSE r \in moving : TRUE).to

\* It is at the path of its row, or where the only assignment of the face has moved it.
LEMMA CropIs ==
  ASSUME NEW rows, NEW moves, NEW i
  PROVE  /\ (\A r \in moves : r.id # i) => CropIn(rows, moves, i) = rows[i].path
         /\ \A r \in moves : r.id = i /\ (\A q \in moves : q.id = i => q = r) => CropIn(rows, moves, i) = r.to
<1>1. ASSUME \A r \in moves : r.id # i PROVE CropIn(rows, moves, i) = rows[i].path
  BY <1>1 DEF CropIn
<1>2. ASSUME NEW r \in moves, r.id = i, \A q \in moves : q.id = i => q = r
      PROVE  CropIn(rows, moves, i) = r.to
  <2>1. {q \in moves : q.id = i} = {r}
    BY <1>2
  <2>2. CropIn(rows, moves, i) = (CHOOSE q \in {r} : TRUE).to
    BY <2>1 DEF CropIn
  <2> QED BY <2>2
<1> QED BY <1>1, <1>2

\* It depends on its own row and assignments only.
LEMMA CropSame ==
  ASSUME NEW rows, NEW moves, NEW i, NEW rows2, NEW moves2, rows2[i].path = rows[i].path,
         \A r \in moves \cup moves2 : r.id = i => r \in moves /\ r \in moves2
  PROVE  CropIn(rows2, moves2, i) = CropIn(rows, moves, i)
<1>1. PICK S : S = {r \in moves : r.id = i}
  OBVIOUS
<1>2. S = {r \in moves2 : r.id = i}
  BY <1>1
<1>3. CropIn(rows, moves, i) = IF S = {} THEN rows[i].path ELSE (CHOOSE r \in S : TRUE).to
  BY <1>1 DEF CropIn
<1>4. CropIn(rows2, moves2, i) = IF S = {} THEN rows2[i].path ELSE (CHOOSE r \in S : TRUE).to
  BY <1>2 DEF CropIn
<1> QED BY <1>3, <1>4

\* Now and after the step.
LEMMA CropOfIn == \A i : CropOf(i) = CropIn(faceRow, assigns, i) /\ CropOf(i)' = CropIn(faceRow', assigns', i)
BY DEF CropOf, CropIn

\* Rows and assignments stay: so do the places of the crops.
LEMMA CropsStay ==
  ASSUME faceRow' = faceRow, assigns' = assigns
  PROVE  \A i : CropOf(i)' = CropOf(i)
BY CropOfIn

\* An upload has a free name.
LEMMA NamesFree ==
  ASSUME CropsTyped, NEW c \in Calls, NEW v, IsUpload(v), v.at = "named", v.path \notin DOMAIN cropFile,
         upload' = [upload EXCEPT ![c] = v], cropFile' = cropFile, faceRow' = faceRow, assigns' = assigns, walk' = walk,
         CropsInOrder
  PROVE  CropsInOrder'
<1>1. \A i : CropOf(i)' = CropOf(i)
  BY CropsStay
<1>2. \A e \in Calls : upload'[e] = IF e = c THEN v ELSE upload[e]
  BY DEF CropsTyped
<1>3. FacesInOrder' /\ AssignsInOrder'
  BY <1>1 DEF CropsInOrder, FacesInOrder, AssignsInOrder
<1>4. UploadsInOrder'
  <2> SUFFICES ASSUME NEW e \in Calls
               PROVE  /\ upload'[e].at = "named" => upload'[e].path \notin DOMAIN cropFile
                      /\ upload'[e].at = "written" =>
                            /\ upload'[e].path \in DOMAIN cropFile
                            /\ cropFile[upload'[e].path] = Head(upload'[e].todo).pic
                            /\ \A i \in DOMAIN faceRow : CropOf(i) # upload'[e].path
                            /\ \A d \in Calls \ {e} : upload'[d].path # upload'[e].path
    BY <1>1 DEF UploadsInOrder
  <2>1. CASE e = c
    BY <1>2, <2>1
  <2>2. CASE e # c
    BY <1>2, <2>2 DEF CropsInOrder, UploadsInOrder
  <2> QED BY <2>1, <2>2
<1>5. WalkInOrder'
  BY <1>1, <1>2 DEF CropsInOrder, WalkInOrder
<1> QED BY <1>3, <1>4, <1>5 DEF CropsInOrder

\* The file is written, where none was and nobody else will write one.
LEMMA WriteOrder ==
  ASSUME CropsTyped, NEW c \in Calls, WriteCrop(c), CropsInOrder, ~NameTaken
  PROVE  CropsInOrder'
<1> DEFINE u == upload[c]
           x == u.path
<1>1. u = [at |-> u.at, person |-> u.person, todo |-> u.todo, path |-> x] /\ u.at = "named" /\ x \in CropPaths
  BY DEF WriteCrop, CropsTyped, IsUpload
<1>2. DOMAIN cropFile' = DOMAIN cropFile \cup {x}
      /\ \A z \in DOMAIN cropFile \cup {x} : cropFile'[z] = IF z = x THEN Head(u.todo).pic ELSE cropFile[z]
  <2>1. PICK pic : pic = Head(u.todo).pic
    OBVIOUS
  <2>2. IsTable(cropFile, CropPaths) /\ cropFile' = Put(cropFile, x, pic)
    BY <2>1 DEF CropsTyped, WriteCrop
  <2> HIDE DEF x, u
  <2>3. HasPut(Put(cropFile, x, pic), cropFile, x, pic)
    BY <1>1, <2>2, PutTable
  <2> QED BY <2>1, <2>2, <2>3 DEF HasPut
<1>3. \A e \in Calls : upload'[e].path = upload[e].path /\ upload'[e].todo = upload[e].todo
                       /\ upload'[e].at = IF e = c THEN "written" ELSE upload[e].at
  BY <1>1 DEF WriteCrop, CropsTyped
<1>4. faceRow' = faceRow /\ assigns' = assigns /\ walk' = walk
  BY DEF WriteCrop
<1>5. \A i : CropOf(i)' = CropOf(i)
  BY <1>4, CropsStay
<1>6. x \notin DOMAIN cropFile
  BY <1>1 DEF CropsInOrder, UploadsInOrder
<1>7. FacesInOrder' /\ AssignsInOrder'
  BY <1>2, <1>4, <1>5, <1>6 DEF CropsInOrder, FacesInOrder, AssignsInOrder
<1>8. \A e \in Calls \ {c} : upload[e].path # x
  <2> TAKE e \in Calls \ {c}
  <2>1. CASE upload[e].at = "named"
    <3>1. upload'[e].path \notin DOMAIN cropFile'
      BY <1>3, <2>1 DEF NameTaken
    <3> QED BY <1>2, <1>3, <3>1
  <2>2. CASE upload[e].at = "written"
    BY <1>6, <2>2 DEF CropsInOrder, UploadsInOrder
  <2>3. CASE upload[e].at \in {"rest", "next"}
    BY <1>1, <2>3, KeepersAssumption DEF CropsTyped, IsUpload
  <2> QED BY <2>1, <2>2, <2>3 DEF CropsTyped, IsUpload
<1>9. UploadsInOrder'
  <2> SUFFICES ASSUME NEW e \in Calls
               PROVE  /\ upload'[e].at = "named" => upload'[e].path \notin DOMAIN cropFile'
                      /\ upload'[e].at = "written" =>
                            /\ upload'[e].path \in DOMAIN cropFile'
                            /\ cropFile'[upload'[e].path] = Head(upload'[e].todo).pic
                            /\ \A i \in DOMAIN faceRow : CropOf(i) # upload'[e].path
                            /\ \A d \in Calls \ {e} : upload'[d].path # upload'[e].path
    BY <1>4, <1>5 DEF UploadsInOrder
  <2>1. CASE e = c
    <3>1. \A i \in DOMAIN faceRow : CropOf(i) \in DOMAIN cropFile
      BY DEF CropsInOrder, FacesInOrder
    <3> QED BY <1>2, <1>3, <1>6, <1>8, <2>1, <3>1
  <2>2. CASE e # c
    BY <1>2, <1>3, <1>8, <2>2 DEF CropsInOrder, UploadsInOrder
  <2> QED BY <2>1, <2>2
<1>10. WalkInOrder'
  <2>1. walk.file # Nowhere => walk.file \in DOMAIN cropFile
    BY DEF CropsInOrder, WalkInOrder
  <2> QED BY <1>2, <1>3, <1>4, <1>5, <1>6, <2>1 DEF CropsInOrder, WalkInOrder
<1> QED BY <1>7, <1>9, <1>10 DEF CropsInOrder

\* A row more, with a crop at its path; the other crops are where they were.
RowAdded(n, x, pic) ==
    /\ n \in Nat \ DOMAIN faceRow /\ DOMAIN faceRow' = DOMAIN faceRow \cup {n}
    /\ faceRow'[n].path = x /\ faceRow'[n].pic = pic
    /\ \A i \in DOMAIN faceRow : faceRow'[i] = faceRow[i]
    /\ AssignsInOrder => CropOf(n)' = x /\ \A i \in DOMAIN faceRow : CropOf(i)' = CropOf(i)

\* A new row is one more, and in order.
LEMMA AddsRow ==
  ASSUME CropsTyped, NEW x \in CropPaths, NEW p, NEW pic, faceRow' = NewRow(x, p, pic), assigns' = assigns
  PROVE  /\ \E n \in Nat : RowAdded(n, x, pic)
         /\ IsTable(faceRow', Nat) /\ \A i \in DOMAIN faceRow' : IsRow(faceRow'[i])
<1>0. PICK n : n = NewId(faceRow)
  OBVIOUS
<1>1. IsTable(faceRow, Nat)
  BY DEF CropsTyped
<1>2. n \in Nat \ DOMAIN faceRow
  BY <1>0, <1>1, FreeId DEF IsTable
<1>3. PICK q : q = [path |-> x, person |-> p, pic |-> pic]
  OBVIOUS
<1>4. faceRow' = Put(faceRow, n, q)
  BY <1>0, <1>3 DEF NewRow
<1>5. /\ IsTable(faceRow', Nat) /\ DOMAIN faceRow' = DOMAIN faceRow \cup {n}
      /\ \A i \in DOMAIN faceRow \cup {n} : faceRow'[i] = IF i = n THEN q ELSE faceRow[i]
  <2>1. n \in Nat
    BY <1>2
  <2>2. IsTable(Put(faceRow, n, q), Nat) /\ HasPut(Put(faceRow, n, q), faceRow, n, q)
    BY <1>1, <2>1, PutTable
  <2> QED BY <1>4, <2>2 DEF HasPut
<1>6. IsRow(q) /\ q.path = x /\ q.pic = pic
  BY <1>3 DEF IsRow
<1>7. \A i \in DOMAIN faceRow' : IsRow(faceRow'[i])
  BY <1>5, <1>6 DEF CropsTyped
<1>8. ASSUME AssignsInOrder PROVE CropOf(n)' = x /\ \A i \in DOMAIN faceRow : CropOf(i)' = CropOf(i)
  <2>1. \A r \in assigns' : r.id # n
    BY <1>2, <1>8 DEF AssignsInOrder
  <2>2. CropIn(faceRow', assigns', n) = faceRow'[n].path
    BY <2>1, CropIs
  <2>3. \A i \in DOMAIN faceRow : CropIn(faceRow', assigns', i) = CropIn(faceRow, assigns, i)
    <3> TAKE i \in DOMAIN faceRow
    <3>1. faceRow'[i].path = faceRow[i].path
      BY <1>2, <1>5
    <3> QED BY <3>1, CropSame
  <2> QED BY <1>2, <1>5, <1>6, <2>2, <2>3, CropOfIn
<1>9. RowAdded(n, x, pic)
  BY <1>2, <1>5, <1>6, <1>8 DEF RowAdded
<1> QED BY <1>2, <1>5, <1>7, <1>9

\* What is left of an upload after a file.
LEMMA RestTyped ==
  ASSUME NEW u, IsUpload(u), u.at = "written", NEW v, v = AfterFile(u)
  PROVE  IsUpload(v) /\ v.at \in {"rest", "next"} /\ v.path = Nowhere
<1>1. CASE Len(u.todo) = 1
  BY <1>1 DEF Rest, IsUpload, AfterFile
<1>2. CASE Len(u.todo) # 1
  <2>1. PICK t : t = Tail(u.todo)
    OBVIOUS
  <2>2. u.todo \in Seq(Pics) \ {<<>>} /\ u.person \in Keepers
    BY DEF IsUpload
  <2>3. t \in Seq(Pics) /\ Len(t) = Len(u.todo) - 1 /\ Len(u.todo) \in Nat \ {0}
    BY <2>1, <2>2
  <2>4. t # <<>>
    <3>1. Len(t) # 0 /\ Len(<<>>) = 0
      BY <1>2, <2>3
    <3> QED BY <3>1
  <2>5. PICK a, b, c, d : u = [at |-> a, person |-> b, todo |-> c, path |-> d]
    BY DEF IsUpload
  <2>6. v = [u EXCEPT !.at = "next", !.todo = t, !.path = Nowhere]
    BY <1>2, <2>1, <2>5 DEF AfterFile
  <2>7. v = [at |-> "next", person |-> b, todo |-> t, path |-> Nowhere] /\ u.person = b
    BY <2>5, <2>6
  <2>8. v.at = "next" /\ v.person \in Keepers /\ v.todo \in Seq(Pics) \ {<<>>} /\ v.path = Nowhere
    <3>1. v.at = "next" /\ v.person = b /\ v.todo = t /\ v.path = Nowhere
      BY <2>7
    <3> QED BY <2>2, <2>3, <2>4, <2>7, <3>1
  <2>9. v = [at |-> v.at, person |-> v.person, todo |-> v.todo, path |-> v.path]
    BY <2>7
  <2> QED BY <2>8, <2>9 DEF IsUpload
<1> QED BY <1>1, <1>2

\* The row is committed.
LEMMA RegisterOrder ==
  ASSUME CropsTyped, NEW c \in Calls, RegisterCrop(c)
  PROVE  CropsTyped' /\ (CropsInOrder => CropsInOrder')
<1> DEFINE u == upload[c]
           x == u.path
           pic == Head(u.todo).pic
<1>1. u = [at |-> u.at, person |-> u.person, todo |-> u.todo, path |-> x] /\ u.at = "written" /\ x \in CropPaths
      /\ IsUpload(u)
  BY DEF RegisterCrop, CropsTyped, IsUpload
<1>2. PICK v : v = AfterFile(u)
  OBVIOUS
<1>3. IsUpload(v) /\ v.at \in {"rest", "next"} /\ v.path = Nowhere
  BY <1>1, <1>2, RestTyped
<1>4. upload' = [upload EXCEPT ![c] = v] /\ cropFile' = cropFile /\ assigns' = assigns /\ walk' = walk /\ uses' = uses
      /\ faceRow' = NewRow(x, u.person, pic)
  BY <1>2 DEF RegisterCrop
<1>5. PICK n \in Nat : RowAdded(n, x, pic)
  BY <1>1, <1>4, AddsRow
<1>6. IsTable(faceRow', Nat) /\ \A i \in DOMAIN faceRow' : IsRow(faceRow'[i])
  BY <1>1, <1>4, AddsRow
<1>7. \A e \in Calls : upload'[e] = IF e = c THEN v ELSE upload[e]
  BY <1>4 DEF CropsTyped
<1>8. CropsTyped'
  <2>1. upload' = [e \in Calls |-> upload'[e]] /\ \A e \in Calls : IsUpload(upload'[e])
    BY <1>3, <1>4, <1>7 DEF CropsTyped
  <2> QED BY <1>4, <1>6, <2>1 DEF CropsTyped
<1>9. ASSUME CropsInOrder PROVE CropsInOrder'
  <2>1. /\ CropOf(n)' = x /\ \A i \in DOMAIN faceRow : CropOf(i)' = CropOf(i)
        /\ n \notin DOMAIN faceRow /\ DOMAIN faceRow' = DOMAIN faceRow \cup {n} /\ faceRow'[n].pic = pic
        /\ \A i \in DOMAIN faceRow : faceRow'[i] = faceRow[i]
    BY <1>5, <1>9 DEF RowAdded, CropsInOrder
  <2>2. /\ x \in DOMAIN cropFile /\ cropFile[x] = pic /\ \A i \in DOMAIN faceRow : CropOf(i) # x
        /\ \A e \in Calls \ {c} : upload[e].path # x
    BY <1>1, <1>9 DEF CropsInOrder, UploadsInOrder
  <2> HIDE DEF pic, x
  <2>3. FacesInOrder'
    BY <1>4, <1>9, <2>1, <2>2 DEF CropsInOrder, FacesInOrder
  <2>4. AssignsInOrder'
    BY <1>4, <1>9, <2>1 DEF CropsInOrder, AssignsInOrder
  <2>5. UploadsInOrder'
    <3> SUFFICES ASSUME NEW e \in Calls
                 PROVE  /\ upload'[e].at = "named" => upload'[e].path \notin DOMAIN cropFile
                        /\ upload'[e].at = "written" =>
                              /\ upload'[e].path \in DOMAIN cropFile
                              /\ cropFile[upload'[e].path] = Head(upload'[e].todo).pic
                              /\ \A i \in DOMAIN faceRow' : CropOf(i)' # upload'[e].path
                              /\ \A d \in Calls \ {e} : upload'[d].path # upload'[e].path
      BY <1>4 DEF UploadsInOrder
    <3>1. CASE e = c
      BY <1>3, <1>7, <3>1
    <3>2. CASE e # c
      <4>1. upload'[e] = upload[e] /\ upload[e].path # x
        BY <1>7, <2>2, <3>2
      <4>2. upload[e].at = "written" => upload[e].path \in CropPaths
        BY DEF CropsTyped, IsUpload
      <4>3. upload[e].at = "named" => upload[e].path \notin DOMAIN cropFile
        BY <1>9 DEF CropsInOrder, UploadsInOrder
      <4>4. ASSUME upload[e].at = "written"
            PROVE  /\ upload[e].path \in DOMAIN cropFile
                   /\ cropFile[upload[e].path] = Head(upload[e].todo).pic
                   /\ \A i \in DOMAIN faceRow : CropOf(i) # upload[e].path
                   /\ \A d \in Calls \ {e} : upload[d].path # upload[e].path
        BY <1>9, <4>4 DEF CropsInOrder, UploadsInOrder
      <4>5. ASSUME upload[e].at = "written"
            PROVE  /\ \A i \in DOMAIN faceRow' : CropOf(i)' # upload[e].path
                   /\ \A d \in Calls \ {e} : upload'[d].path # upload[e].path
        BY <1>3, <1>7, <2>1, <4>1, <4>2, <4>4, <4>5, KeepersAssumption
      <4> QED BY <4>1, <4>3, <4>4, <4>5
    <3> QED BY <3>1, <3>2
  <2>6. WalkInOrder'
    <3>1. walk.file # Nowhere => walk.file # x
      BY <1>1, <1>9 DEF CropsInOrder, WalkInOrder, x
    <3> QED BY <1>3, <1>4, <1>7, <1>9, <2>1, <3>1 DEF CropsInOrder, WalkInOrder
  <2> QED BY <2>3, <2>4, <2>5, <2>6 DEF CropsInOrder
<1> QED BY <1>8, <1>9

-----------------------------------------------------------------------------
(* One face is deleted, or given to another person.                          *)

\* The scan forgets a crop, and nothing else.
LEMMA Forgets ==
  ASSUME IsWalk(walk), NEW i
  PROVE  /\ IsWalk(Forgotten(i))
         /\ Forgotten(i).stray = walk.stray \ {faceRow[i].path}
         /\ Forgotten(i).at = walk.at /\ Forgotten(i).file = walk.file /\ Forgotten(i).pic = walk.pic
         /\ Forgotten(i).known = walk.known /\ Forgotten(i).dirs = walk.dirs /\ Forgotten(i).list = walk.list
<1>1. PICK a, b, c, d, e, f, g :
         walk = [at |-> a, known |-> b, dirs |-> c, list |-> d, file |-> e, pic |-> f, stray |-> g]
  BY DEF IsWalk
<1>2. PICK h : h = g \ {faceRow[i].path}
  OBVIOUS
<1>3. PICK w : w = Forgotten(i)
  OBVIOUS
<1>4. w = [walk EXCEPT !.stray = h]
  BY <1>1, <1>2, <1>3 DEF Forgotten
<1>5. w = [at |-> a, known |-> b, dirs |-> c, list |-> d, file |-> e, pic |-> f, stray |-> h]
  BY <1>1, <1>4
<1>6. IsWalk(w)
  BY <1>1, <1>2, <1>5 DEF IsWalk
<1> QED BY <1>1, <1>2, <1>3, <1>5, <1>6

\* A face is deleted with its crop, which is where its row says.
LEMMA DeleteOrder ==
  ASSUME CropsTyped, NEW i \in DOMAIN faceRow, DeleteCrop(i)
  PROVE  CropsTyped' /\ (CropsInOrder /\ ~Overtaken => CropsInOrder')
<1> DEFINE x == faceRow[i].path
<1>1. /\ cropFile' = Without(cropFile, {x}) /\ faceRow' = Without(faceRow, {i}) /\ walk' = Forgotten(i)
      /\ upload' = upload /\ assigns' = assigns
  BY DEF DeleteCrop
<1>2. IsTable(cropFile, CropPaths) /\ IsTable(faceRow, Nat)
  BY DEF CropsTyped
<1>3. /\ IsTable(cropFile', CropPaths) /\ DOMAIN cropFile' = DOMAIN cropFile \ {x}
      /\ \A z \in DOMAIN cropFile \ {x} : cropFile'[z] = cropFile[z]
  <2>1. IsTable(cropFile', CropPaths) /\ HasLess(cropFile', cropFile, {x})
    BY <1>1, <1>2, WithoutTable
  <2> QED BY <2>1 DEF HasLess
<1>4. /\ IsTable(faceRow', Nat) /\ DOMAIN faceRow' = DOMAIN faceRow \ {i}
      /\ \A j \in DOMAIN faceRow \ {i} : faceRow'[j] = faceRow[j]
  <2>1. IsTable(faceRow', Nat) /\ HasLess(faceRow', faceRow, {i})
    BY <1>1, <1>2, WithoutTable
  <2> QED BY <2>1 DEF HasLess
<1>5. IsWalk(walk') /\ walk'.file = walk.file /\ walk'.pic = walk.pic
  BY <1>1, Forgets DEF CropsTyped
<1>6. CropsTyped'
  <2>1. uses' = [v \in DOMAIN uses' |-> uses'[v]] /\ (\A v \in DOMAIN uses' : uses'[v] \in Nat)
    BY SpentTyped DEF DeleteCrop
  <2>2. \A j \in DOMAIN faceRow' : IsRow(faceRow'[j])
    BY <1>4 DEF CropsTyped
  <2> QED BY <1>1, <1>3, <1>4, <1>5, <2>1, <2>2 DEF CropsTyped
<1>7. ASSUME CropsInOrder, ~Overtaken PROVE CropsInOrder'
  <2>1. \A r \in assigns : r.id # i
    BY <1>1, <1>4, <1>7 DEF Overtaken
  <2>2. CropOf(i) = x
    BY <2>1, CropIs, CropOfIn
  <2>3. \A j \in DOMAIN faceRow \ {i} : CropOf(j)' = CropOf(j)
    <3> TAKE j \in DOMAIN faceRow \ {i}
    <3>1. faceRow'[j].path = faceRow[j].path
      BY <1>4
    <3>2. CropIn(faceRow', assigns', j) = CropIn(faceRow, assigns, j)
      BY <1>1, <3>1, CropSame
    <3> QED BY <3>2, CropOfIn
  <2>4. \A j \in DOMAIN faceRow \ {i} : CropOf(j) \in DOMAIN cropFile /\ CropOf(j) # x
    BY <1>7, <2>2 DEF CropsInOrder, FacesInOrder
  <2> HIDE DEF x
  <2>5. FacesInOrder'
    BY <1>3, <1>4, <1>7, <2>3, <2>4 DEF CropsInOrder, FacesInOrder
  <2>6. AssignsInOrder'
    BY <1>1, <1>4, <1>7, <2>1 DEF CropsInOrder, AssignsInOrder
  <2>7. \A e \in Calls : upload[e].at = "written" => upload[e].path # x
    BY <1>7, <2>2 DEF CropsInOrder, UploadsInOrder
  <2>8. UploadsInOrder'
    BY <1>1, <1>3, <1>4, <1>7, <2>3, <2>7 DEF CropsInOrder, UploadsInOrder
  <2>9. WalkInOrder'
    <3>1. walk.file # Nowhere => walk.file # x
      BY <1>7, <2>2 DEF CropsInOrder, WalkInOrder
    <3> QED BY <1>1, <1>3, <1>4, <1>5, <1>7, <2>3, <3>1 DEF CropsInOrder, WalkInOrder
  <2> QED BY <2>5, <2>6, <2>8, <2>9 DEF CropsInOrder
<1> QED BY <1>6, <1>7

\* An assignment has moved a crop: as the row is not written, it is where the assignment says.
LEMMA MoveOrder ==
  ASSUME CropsTyped, NEW i \in DOMAIN faceRow, NEW p \in Keepers, MoveToPerson(i, p)
  PROVE  CropsTyped' /\ (CropsInOrder /\ ~Overtaken /\ ~NameTaken => CropsInOrder')
<1>1. PICK x : x = faceRow[i].path
  OBVIOUS
<1>2. PICK y : y = [x EXCEPT !.dir = p]
  OBVIOUS
<1>3. PICK at : at = Landing(cropFile, x, y)
  OBVIOUS
<1>4. PICK m : m = [id |-> i, was |-> faceRow[i], to |-> IF at = Nowhere THEN x ELSE at, person |-> p]
  OBVIOUS
<1>5. /\ cropFile' = IF at = Nowhere THEN cropFile ELSE Moved(cropFile, x, at)
      /\ assigns' = assigns \cup {m} /\ walk' = Forgotten(i) /\ faceRow' = faceRow /\ upload' = upload
  BY <1>1, <1>2, <1>3, <1>4 DEF MoveToPerson
<1>6. IsTable(cropFile, CropPaths) /\ IsRow(faceRow[i]) /\ x \in CropPaths
  BY <1>1 DEF CropsTyped, IsRow
<1>7. y \in CropPaths
  BY <1>2, <1>6, OtherFolder
<1>8. /\ at \in CropPaths \cup {Nowhere}
      /\ x \in DOMAIN cropFile => at \in CropPaths /\ (at = x \/ at \notin DOMAIN cropFile)
      /\ x \notin DOMAIN cropFile => (at = y /\ y \in DOMAIN cropFile) \/ (at = Nowhere /\ y \notin DOMAIN cropFile)
  BY <1>3, <1>6, <1>7, Lands
<1>9. IsWalk(walk') /\ walk'.file = walk.file /\ walk'.pic = walk.pic
  BY <1>5, Forgets DEF CropsTyped
<1>10. m.id = i /\ m.was = faceRow[i] /\ m.to \in CropPaths /\ m.to = IF at = Nowhere THEN x ELSE at
  BY <1>4, <1>6, <1>8
<1>11. at # Nowhere => IsTable(Moved(cropFile, x, at), CropPaths) /\ HasMoved(Moved(cropFile, x, at), cropFile, x, at)
  BY <1>6, <1>8, MovedTable
<1>12. CropsTyped'
  <2>1. uses' = [v \in DOMAIN uses' |-> uses'[v]] /\ (\A v \in DOMAIN uses' : uses'[v] \in Nat)
    BY SpentTyped DEF MoveToPerson
  <2>2. IsMove(m)
    BY <1>4, <1>6, <1>10 DEF IsMove
  <2>3. IsTable(cropFile', CropPaths)
    BY <1>5, <1>6, <1>11
  <2> QED BY <1>5, <1>9, <2>1, <2>2, <2>3 DEF CropsTyped
<1>13. ASSUME CropsInOrder, ~Overtaken, ~NameTaken PROVE CropsInOrder'
  <2>1. \A r \in assigns : r.id = i => r = m
    BY <1>5, <1>10, <1>13 DEF Overtaken
  <2>2. CropOf(i)' = m.to
    <3>1. m \in assigns' /\ \A r \in assigns' : r.id = i => r = m
      BY <1>5, <2>1
    <3> QED BY <1>10, <3>1, CropIs, CropOfIn
  <2>3. \A j \in DOMAIN faceRow \ {i} : CropOf(j)' = CropOf(j)
    <3> TAKE j \in DOMAIN faceRow \ {i}
    <3>1. CropIn(faceRow', assigns', j) = CropIn(faceRow, assigns, j)
      BY <1>5, <1>10, CropSame
    <3> QED BY <3>1, CropOfIn
  <2>4. CropOf(i) \in DOMAIN cropFile /\ cropFile[CropOf(i)] = faceRow[i].pic
        /\ \A j \in DOMAIN faceRow \ {i} : CropOf(j) # CropOf(i) /\ CropOf(j) \in DOMAIN cropFile
                                          /\ cropFile[CropOf(j)] = faceRow[j].pic
    BY <1>13 DEF CropsInOrder, FacesInOrder
  <2>5. AssignsInOrder'
    BY <1>5, <1>10, <1>13 DEF CropsInOrder, AssignsInOrder
  <2>6. CASE CropOf(i) = m.to /\ cropFile' = cropFile
    <3>1. \A j \in DOMAIN faceRow : CropOf(j)' = CropOf(j)
      BY <2>2, <2>3, <2>6
    <3>2. FacesInOrder' /\ UploadsInOrder' /\ WalkInOrder'
      BY <1>5, <1>9, <1>13, <2>6, <3>1 DEF CropsInOrder, FacesInOrder, UploadsInOrder, WalkInOrder
    <3> QED BY <2>5, <3>2 DEF CropsInOrder
  <2>7. CASE ~(CropOf(i) = m.to /\ cropFile' = cropFile)
    <3>1. CropOf(i) = x
      <4>1. m \notin assigns
        <5> SUFFICES ASSUME m \in assigns PROVE FALSE
          OBVIOUS
        <5>1. CropOf(i) = m.to
          BY <1>10, <2>1, CropIs, CropOfIn
        <5>2. m.to \in DOMAIN cropFile
          BY <2>4, <5>1
        <5>3. at = x /\ x \in DOMAIN cropFile
          BY <1>5, <1>8, <1>10, <1>11, <2>7, <5>1, <5>2 DEF HasMoved
        <5>4. cropFile' = cropFile
          <6>1. cropFile' = Moved(cropFile, x, x) /\ x # Nowhere
            BY <1>5, <1>6, <5>3, KeepersAssumption
          <6>2. Moved(cropFile, x, x) = cropFile
            BY <1>6, <1>11, <5>3, <6>1 DEF IsTable, HasMoved, Moved
          <6> QED BY <6>1, <6>2
        <5> QED BY <2>7, <5>1, <5>4
      <4>2. \A r \in assigns : r.id # i
        BY <2>1, <4>1
      <4> QED BY <1>1, <4>2, CropIs, CropOfIn
    <3>2. x \in DOMAIN cropFile /\ cropFile[x] = faceRow[i].pic
      BY <2>4, <3>1
    <3>3. at # Nowhere /\ m.to = at /\ (at = x \/ at \notin DOMAIN cropFile)
      BY <1>8, <1>10, <3>2, KeepersAssumption
    <3>4. /\ DOMAIN cropFile' = (DOMAIN cropFile \ {x}) \cup {at}
          /\ \A z \in (DOMAIN cropFile \ {x}) \cup {at} : cropFile'[z] = IF z = at THEN cropFile[x] ELSE cropFile[z]
      BY <1>5, <1>11, <3>2, <3>3 DEF HasMoved
    <3>5. \A j \in DOMAIN faceRow \ {i} : CropOf(j) # x /\ CropOf(j) # at
      BY <2>4, <3>1, <3>3
    <3>6. FacesInOrder'
      <4> SUFFICES ASSUME NEW j \in DOMAIN faceRow
                   PROVE  /\ CropOf(j)' \in DOMAIN cropFile' /\ cropFile'[CropOf(j)'] = faceRow[j].pic
                          /\ \A k \in DOMAIN faceRow \ {j} : CropOf(k)' # CropOf(j)'
        BY <1>5 DEF FacesInOrder
      <4>1. CASE j = i
        BY <2>2, <2>3, <3>2, <3>3, <3>4, <3>5, <4>1
      <4>2. CASE j # i
        <5>1. CropOf(j)' = CropOf(j) /\ CropOf(j) # x /\ CropOf(j) # at
          BY <2>3, <3>5, <4>2
        <5>2. \A k \in DOMAIN faceRow \ {j} : CropOf(k)' # CropOf(j)
          BY <1>13, <2>2, <2>3, <3>3, <5>1 DEF CropsInOrder, FacesInOrder
        <5> QED BY <2>4, <3>4, <4>2, <5>1, <5>2
      <4> QED BY <4>1, <4>2
    <3>7. \A e \in Calls : /\ upload[e].at = "named" => upload[e].path # at /\ upload[e].path \notin DOMAIN cropFile
                           /\ upload[e].at = "written" => upload[e].path # x /\ upload[e].path # at
      <4> TAKE e \in Calls
      <4>1. ASSUME upload[e].at = "named" PROVE upload[e].path # at /\ upload[e].path \notin DOMAIN cropFile
        <5>1. upload[e].path \notin DOMAIN cropFile'
          BY <1>5, <1>13, <4>1 DEF NameTaken
        <5>2. upload[e].path \notin DOMAIN cropFile
          BY <1>13, <4>1 DEF CropsInOrder, UploadsInOrder
        <5> QED BY <3>4, <5>1, <5>2
      <4>2. ASSUME upload[e].at = "written" PROVE upload[e].path # x /\ upload[e].path # at
        <5>1. upload[e].path \in DOMAIN cropFile /\ CropOf(i) # upload[e].path
          BY <1>13, <4>2 DEF CropsInOrder, UploadsInOrder
        <5> QED BY <3>1, <3>3, <5>1
      <4> QED BY <4>1, <4>2
    <3>8. UploadsInOrder'
      BY <1>5, <1>13, <2>2, <2>3, <3>3, <3>4, <3>7 DEF CropsInOrder, UploadsInOrder
    <3>9. WalkInOrder'
      <4>1. walk.file # Nowhere => walk.file # x /\ walk.file \in DOMAIN cropFile
        BY <1>13, <3>1 DEF CropsInOrder, WalkInOrder
      <4> QED BY <1>5, <1>9, <1>13, <2>2, <2>3, <3>3, <3>4, <4>1 DEF CropsInOrder, WalkInOrder
    <3> QED BY <2>5, <3>6, <3>8, <3>9 DEF CropsInOrder
  <2> QED BY <2>6, <2>7
<1> QED BY <1>12, <1>13

\* A row that is given another person and path.
LEMMA GivenRow ==
  ASSUME NEW a, NEW b, NEW c, NEW y, NEW p, NEW f, f = [path |-> a, person |-> b, pic |-> c],
         NEW q, q = [f EXCEPT !.person = p, !.path = y]
  PROVE  q = [path |-> y, person |-> p, pic |-> c]
OBVIOUS

\* The row is written, and the crop is where it says.
LEMMA MovedOrder ==
  ASSUME CropsTyped, NEW r \in assigns, MovedToPerson(r)
  PROVE  CropsTyped' /\ (CropsInOrder /\ ~Overtaken => CropsInOrder')
<1>1. assigns' = assigns \ {r} /\ cropFile' = cropFile /\ upload' = upload /\ uses' = uses
  BY DEF MovedToPerson
<1>2. IsMove(r) /\ IsTable(faceRow, Nat)
  BY DEF CropsTyped
<1>3. CASE r.id \notin DOMAIN faceRow
  <2>1. faceRow' = faceRow /\ walk' = walk
    BY <1>3 DEF MovedToPerson
  <2>2. ~CropsInOrder
    BY <1>3 DEF CropsInOrder, AssignsInOrder
  <2> QED BY <1>1, <2>1, <2>2 DEF CropsTyped
<1>4. CASE r.id \in DOMAIN faceRow
  <2>1. PICK i : i = r.id
    OBVIOUS
  <2>2. PICK y : y = IF r.to = r.was.path THEN faceRow[i].path ELSE r.to
    OBVIOUS
  <2>3. PICK q, f, p : f = faceRow[i] /\ p = r.person /\ q = [f EXCEPT !.person = p, !.path = y]
    OBVIOUS
  <2>4. PICK a, b, c : f = [path |-> a, person |-> b, pic |-> c]
    <3>1. IsRow(f)
      BY <1>4, <2>1, <2>3 DEF CropsTyped
    <3> QED BY <3>1 DEF IsRow
  <2>5. q = [path |-> y, person |-> p, pic |-> c]
    <3>1. q = [f EXCEPT !.person = p, !.path = y]
      BY <2>3
    <3> QED BY <3>1, <2>4, GivenRow
  <2>6. faceRow' = [faceRow EXCEPT ![i] = q] /\ walk' = Forgotten(i)
    BY <1>4, <2>1, <2>2, <2>3 DEF MovedToPerson
  <2>7. y \in CropPaths /\ IsRow(q)
    BY <1>2, <1>4, <2>1, <2>2, <2>3, <2>4, <2>5 DEF IsMove, CropsTyped, IsRow
  <2>8. /\ DOMAIN faceRow' = DOMAIN faceRow /\ faceRow' = [j \in DOMAIN faceRow |-> faceRow'[j]]
        /\ faceRow'[i] = q /\ \A j \in DOMAIN faceRow \ {i} : faceRow'[j] = faceRow[j]
    BY <1>2, <1>4, <2>1, <2>6 DEF IsTable
  <2>9. IsWalk(walk') /\ walk'.file = walk.file /\ walk'.pic = walk.pic
    BY <2>6, Forgets DEF CropsTyped
  <2>10. CropsTyped'
    <3>1. IsTable(faceRow', Nat)
      BY <1>2, <2>8 DEF IsTable
    <3>2. \A j \in DOMAIN faceRow' : IsRow(faceRow'[j])
      BY <2>7, <2>8 DEF CropsTyped
    <3> QED BY <1>1, <2>9, <3>1, <3>2 DEF CropsTyped
  <2>11. ASSUME CropsInOrder, ~Overtaken PROVE CropsInOrder'
    <3>1. \A s \in assigns : s.id = i => s = r
      BY <1>1, <2>1, <2>11 DEF Overtaken
    <3>2. CropOf(i) = r.to
      BY <2>1, <3>1, CropIs, CropOfIn
    <3>3. faceRow[i] = r.was
      BY <2>1, <2>11 DEF CropsInOrder, AssignsInOrder
    <3>4. faceRow'[i].path = r.to /\ faceRow'[i].pic = faceRow[i].pic
      BY <2>2, <2>3, <2>4, <2>5, <2>8, <3>3
    <3>5. \A j \in DOMAIN faceRow : CropOf(j)' = CropOf(j)
      <4> TAKE j \in DOMAIN faceRow
      <4>1. CASE j = i
        <5>1. CropIn(faceRow', assigns', i) = faceRow'[i].path
          BY <1>1, <3>1, CropIs
        <5> QED BY <3>2, <3>4, <4>1, <5>1, CropOfIn
      <4>2. CASE j # i
        <5>1. faceRow'[j].path = faceRow[j].path
          BY <2>8, <4>2
        <5>2. CropIn(faceRow', assigns', j) = CropIn(faceRow, assigns, j)
          BY <1>1, <2>1, <4>2, <5>1, CropSame
        <5> QED BY <5>2, CropOfIn
      <4> QED BY <4>1, <4>2
    <3>6. \A j \in DOMAIN faceRow : faceRow'[j].pic = faceRow[j].pic
      BY <2>8, <3>4
    <3>7. FacesInOrder'
      BY <1>1, <2>8, <2>11, <3>5, <3>6 DEF CropsInOrder, FacesInOrder
    <3>8. UploadsInOrder'
      BY <1>1, <2>8, <2>11, <3>5 DEF CropsInOrder, UploadsInOrder
    <3>9. AssignsInOrder'
      BY <1>1, <2>8, <2>11, <3>1 DEF CropsInOrder, AssignsInOrder
    <3>10. WalkInOrder'
      BY <1>1, <2>8, <2>9, <2>11, <3>5 DEF CropsInOrder, WalkInOrder
    <3> QED BY <3>7, <3>8, <3>9, <3>10 DEF CropsInOrder
  <2> QED BY <2>10, <2>11
<1> QED BY <1>3, <1>4

\* Uploads and the face job begin with a name, which the face job does not choose.
LEMMA BeginOrder ==
  ASSUME CropsTyped, NEW c \in Calls, NEW v, IsUpload(v), v.at = "named",
         v.path \in DOMAIN cropFile => v.todo = <<Detected>>,
         upload' = [upload EXCEPT ![c] = v], cropFile' = cropFile, faceRow' = faceRow, assigns' = assigns, walk' = walk,
         uses' = [u \in DOMAIN uses' |-> uses'[u]] /\ \A u \in DOMAIN uses' : uses'[u] \in Nat
  PROVE  CropsTyped' /\ (CropsInOrder /\ ~NameTaken => CropsInOrder')
<1>1. \A e \in Calls : upload'[e] = IF e = c THEN v ELSE upload[e]
  BY DEF CropsTyped
<1>2. upload' = [e \in Calls |-> upload'[e]] /\ \A e \in Calls : IsUpload(upload'[e])
  BY <1>1 DEF CropsTyped
<1>3. CropsTyped'
  BY <1>2 DEF CropsTyped
<1>4. ASSUME ~NameTaken PROVE v.path \notin DOMAIN cropFile
  BY <1>1, <1>4 DEF NameTaken
<1> QED BY <1>3, <1>4, NamesFree

\* An upload begins.
LEMMA UploadOrder ==
  ASSUME CropsTyped, NEW c \in Calls, NEW p \in Keepers, NEW batch \in Batches, UploadFaces(c, p, batch)
  PROVE  CropsTyped' /\ (CropsInOrder /\ ~NameTaken => CropsInOrder')
<1>1. batch \in Seq(Pics) \ {<<>>}
  BY BatchesAssumption
<1>2. PICK u : u = [Rest EXCEPT !.person = p, !.todo = batch]
  OBVIOUS
<1>3. u = [at |-> "rest", person |-> p, todo |-> batch, path |-> Nowhere]
  BY <1>2 DEF Rest
<1>4. PICK v : v = Named(u)
  OBVIOUS
<1>5. IsUpload(v) /\ v.at = "named" /\ v.path \notin DOMAIN cropFile
  <2>1. IsUpload(v) /\ v.path \notin DOMAIN cropFile /\ v = [at |-> "named", person |-> p, todo |-> batch, path |-> v.path]
    BY <1>1, <1>3, <1>4, NamedTyped
  <2> QED BY <2>1
<1>6. /\ upload' = [upload EXCEPT ![c] = v] /\ cropFile' = cropFile /\ faceRow' = faceRow /\ assigns' = assigns
      /\ walk' = walk
  BY <1>2, <1>4 DEF UploadFaces
<1>7. uses' = [u_1 \in DOMAIN uses' |-> uses'[u_1]] /\ (\A u_1 \in DOMAIN uses' : uses'[u_1] \in Nat)
  BY SpentTyped DEF UploadFaces
<1> QED BY <1>5, <1>6, <1>7, BeginOrder

\* And goes on with its next file.
LEMMA NextOrder ==
  ASSUME CropsTyped, NEW c \in Calls, NextUpload(c)
  PROVE  CropsTyped' /\ (CropsInOrder /\ ~NameTaken => CropsInOrder')
<1>1. PICK u : u = upload[c]
  OBVIOUS
<1>2. u.at = "next" /\ IsUpload(u)
  BY <1>1 DEF NextUpload, CropsTyped
<1>3. PICK v : v = Named(u)
  OBVIOUS
<1>4. IsUpload(v) /\ v.at = "named" /\ v.path \notin DOMAIN cropFile
  <2>1. u = [at |-> u.at, person |-> u.person, todo |-> u.todo, path |-> u.path]
        /\ u.person \in Keepers /\ u.todo \in Seq(Pics) \ {<<>>}
    BY <1>2 DEF IsUpload
  <2>2. PICK a, p, t, x : a = u.at /\ p = u.person /\ t = u.todo /\ x = u.path
    OBVIOUS
  <2>3. IsUpload(v) /\ v.path \notin DOMAIN cropFile /\ v = [at |-> "named", person |-> p, todo |-> t, path |-> v.path]
    BY <1>3, <2>1, <2>2, NamedTyped
  <2> QED BY <2>3
<1>5. /\ upload' = [upload EXCEPT ![c] = v] /\ cropFile' = cropFile /\ faceRow' = faceRow /\ assigns' = assigns
      /\ walk' = walk /\ uses' = uses
  BY <1>1, <1>3 DEF NextUpload, CropsTyped
<1>6. uses' = [w \in DOMAIN uses' |-> uses'[w]] /\ (\A w \in DOMAIN uses' : uses'[w] \in Nat)
  BY <1>5 DEF CropsTyped
<1> QED BY <1>4, <1>5, <1>6, BeginOrder

\* The face job begins.
LEMMA DetectOrder ==
  ASSUME CropsTyped, NEW c \in Calls, DetectCrop(c)
  PROVE  CropsTyped' /\ (CropsInOrder /\ ~NameTaken => CropsInOrder')
<1>1. PICK x : x = CropPath(Unknown, Detected.name)
  OBVIOUS
<1>2. x \in CropPaths
  <2>1. Detected \in Pics
    BY DEF Pics
  <2>2. Detected.name \in Seq(STRING)
    BY <2>1, BatchesAssumption
  <2>3. Detected.name \in Seq(STRING \cup Nat)
    BY <2>2
  <2> QED BY <1>1, <2>3, KeepersAssumption DEF CropPath, In, CropPaths
<1>3. PICK v : v = [Rest EXCEPT !.at = "named", !.todo = <<Detected>>, !.path = CropPath(Unknown, Detected.name)]
  OBVIOUS
<1>4. PICK t : t = <<Detected>>
  OBVIOUS
<1>5. t \in Seq(Pics) \ {<<>>}
  <2>1. Detected \in Pics
    BY DEF Pics
  <2> QED BY <1>4, <2>1
<1>6. v = [Rest EXCEPT !.at = "named", !.todo = t, !.path = x]
  BY <1>1, <1>3, <1>4
<1>7. v = [at |-> "named", person |-> Unknown, todo |-> t, path |-> x]
  BY <1>6 DEF Rest
<1>8. IsUpload(v) /\ v.at = "named" /\ v.todo = <<Detected>>
  BY <1>2, <1>4, <1>5, <1>7, KeepersAssumption DEF IsUpload
<1>9. /\ upload' = [upload EXCEPT ![c] = v] /\ cropFile' = cropFile /\ faceRow' = faceRow /\ assigns' = assigns
      /\ walk' = walk
  BY <1>3 DEF DetectCrop
<1>10. uses' = [u \in DOMAIN uses' |-> uses'[u]] /\ (\A u \in DOMAIN uses' : uses'[u] \in Nat)
  BY SpentTyped DEF DetectCrop
<1> QED BY <1>8, <1>9, <1>10, BeginOrder

-----------------------------------------------------------------------------
(* The rest of the uploads' steps, and the scan.                             *)

\* The file is written.
LEMMA WriteTyped ==
  ASSUME CropsTyped, NEW c \in Calls, WriteCrop(c)
  PROVE  CropsTyped'
<1>1. PICK u, x, pic : u = upload[c] /\ x = u.path /\ pic = Head(u.todo).pic
  OBVIOUS
<1>2. IsUpload(u) /\ u.at = "named" /\ x \in CropPaths
  BY <1>1 DEF WriteCrop, CropsTyped, IsUpload
<1>3. cropFile' = Put(cropFile, x, pic) /\ upload' = [upload EXCEPT ![c].at = "written"]
      /\ faceRow' = faceRow /\ assigns' = assigns /\ walk' = walk /\ uses' = uses
  BY <1>1 DEF WriteCrop
<1>4. IsTable(cropFile', CropPaths)
  BY <1>2, <1>3, PutTable DEF CropsTyped
<1>5. PICK v : v = [u EXCEPT !.at = "written"]
  OBVIOUS
<1>6. IsUpload(v)
  BY <1>2, <1>5 DEF IsUpload
<1>7. upload' = [e \in Calls |-> upload'[e]] /\ \A e \in Calls : IsUpload(upload'[e])
  <2>1. upload' = [upload EXCEPT ![c] = v]
    BY <1>1, <1>3, <1>5
  <2> QED BY <1>6, <2>1 DEF CropsTyped
<1> QED BY <1>3, <1>4, <1>7 DEF CropsTyped

\* The backend starts again, and no assignment was under way.
LEMMA RestartOrder ==
  ASSUME CropsTyped, RestartScan
  PROVE  /\ CropsTyped' /\ walk'.at = "start" /\ walk'.stray = {}
         /\ CropsInOrder /\ ~Overtaken => CropsInOrder'
<1>1. /\ upload' = [c \in Calls |-> Rest] /\ assigns' = {} /\ cropFile' = cropFile /\ faceRow' = faceRow
      /\ walk' = [NoWalk EXCEPT !.at = "start"]
  BY DEF RestartScan
<1>2. walk' = [at |-> "start", known |-> {}, dirs |-> {}, list |-> {}, file |-> Nowhere, pic |-> Nowhere, stray |-> {}]
  BY <1>1 DEF NoWalk
<1>3. uses' = [v \in DOMAIN uses' |-> uses'[v]] /\ (\A v \in DOMAIN uses' : uses'[v] \in Nat) /\ uses' # uses
  BY SpentTyped DEF RestartScan
<1>4. IsUpload(Rest) /\ Rest.at = "rest"
  BY DEF IsUpload, Rest
<1>5. IsWalk(walk')
  BY <1>2 DEF IsWalk
<1>6. CropsTyped'
  BY <1>1, <1>3, <1>4, <1>5 DEF CropsTyped
<1>7. ASSUME CropsInOrder, ~Overtaken PROVE CropsInOrder'
  <2>1. assigns = {}
    BY <1>1, <1>3, <1>7 DEF Overtaken
  <2>2. \A i : CropOf(i)' = CropOf(i)
    BY <1>1, <2>1, CropsStay
  <2>3. FacesInOrder' /\ AssignsInOrder'
    BY <1>1, <1>7, <2>2 DEF CropsInOrder, FacesInOrder, AssignsInOrder
  <2>4. UploadsInOrder'
    BY <1>1, <1>4 DEF UploadsInOrder
  <2>5. WalkInOrder'
    BY <1>2 DEF WalkInOrder
  <2> QED BY <2>3, <2>4, <2>5 DEF CropsInOrder
<1> QED BY <1>2, <1>6, <1>7

\* Only the scan goes on, and holds no file that it did not hold.
LEMMA ScanOrder ==
  ASSUME CropsTyped, cropFile' = cropFile, faceRow' = faceRow, upload' = upload, assigns' = assigns, uses' = uses,
         IsWalk(walk'), walk'.file # Nowhere => walk'.file = walk.file /\ walk'.pic = walk.pic
  PROVE  CropsTyped' /\ (CropsInOrder => CropsInOrder')
<1>1. CropsTyped'
  BY DEF CropsTyped
<1>2. \A i : CropOf(i)' = CropOf(i)
  BY CropsStay
<1>3. CropsInOrder => FacesInOrder' /\ AssignsInOrder' /\ UploadsInOrder'
  BY <1>2 DEF CropsInOrder, FacesInOrder, AssignsInOrder, UploadsInOrder
<1>4. CropsInOrder => WalkInOrder'
  BY <1>2 DEF CropsInOrder, WalkInOrder
<1> QED BY <1>1, <1>3, <1>4 DEF CropsInOrder

\* Which the scan remembers.
LEMMA Remembers ==
  ASSUME IsWalk(walk)
  PROVE  \E a, b, c, d, e, f, g :
           walk = [at |-> a, known |-> b, dirs |-> c, list |-> d, file |-> e, pic |-> f, stray |-> g]
BY DEF IsWalk

\* What is in no row, and in no upload or assignment.
LEMMA ReadsOrder ==
  ASSUME CropsTyped, ScanReads
  PROVE  /\ CropsTyped' /\ (CropsInOrder => CropsInOrder')
         /\ walk'.at = "walking" /\ walk'.dirs = Keepers /\ walk'.stray \subseteq DOMAIN cropFile
         /\ \A x \in walk'.stray : x \notin walk'.known
<1>1. PICK a, b, c, d, e, f, g :
         walk = [at |-> a, known |-> b, dirs |-> c, list |-> d, file |-> e, pic |-> f, stray |-> g]
  BY Remembers DEF CropsTyped
<1>2. walk.at = "start"
  BY DEF ScanReads
<1>3. e = Nowhere
  BY <1>1, <1>2 DEF CropsTyped, IsWalk
<1>4. PICK known, paths, tos : /\ known = {faceRow[i].path : i \in DOMAIN faceRow}
                               /\ paths = {upload[k].path : k \in Calls} /\ tos = {r.to : r \in assigns}
  OBVIOUS
<1>5. PICK S : S = DOMAIN cropFile \ (known \cup paths \cup tos)
  OBVIOUS
<1>6. walk' = [walk EXCEPT !.at = "walking", !.known = known, !.dirs = Keepers, !.stray = S]
  BY <1>4, <1>5 DEF ScanReads
<1>7. walk' = [at |-> "walking", known |-> known, dirs |-> Keepers, list |-> d, file |-> e, pic |-> f, stray |-> S]
  BY <1>1, <1>6
<1>8. IsWalk(walk')
  BY <1>3, <1>7 DEF IsWalk
<1>9. cropFile' = cropFile /\ faceRow' = faceRow /\ upload' = upload /\ assigns' = assigns /\ uses' = uses
  BY DEF ScanReads
<1>10. CropsTyped' /\ (CropsInOrder => CropsInOrder')
  <2>1. walk'.file = Nowhere
    BY <1>3, <1>7
  <2> QED BY <1>8, <1>9, <2>1, ScanOrder
<1> QED BY <1>5, <1>7, <1>10

\* The files of a folder are listed.
LEMMA OpenOrder ==
  ASSUME CropsTyped, NEW p \in walk.dirs, OpenFolder(p)
  PROVE  /\ CropsTyped' /\ (CropsInOrder => CropsInOrder')
         /\ walk'.at = "walking" /\ walk'.dirs = walk.dirs \ {p} /\ walk'.list = {x \in DOMAIN cropFile : x.dir = p}
         /\ walk'.file = Nowhere /\ walk.file = Nowhere /\ walk.list = {} /\ walk'.known = walk.known
         /\ walk'.stray = walk.stray
<1>1. PICK a, b, c, d, e, f, g :
         walk = [at |-> a, known |-> b, dirs |-> c, list |-> d, file |-> e, pic |-> f, stray |-> g]
  BY Remembers DEF CropsTyped
<1>2. a = "walking" /\ e = Nowhere /\ d = {}
  BY <1>1 DEF OpenFolder
<1>3. PICK C, L : C = c \ {p} /\ L = {x \in DOMAIN cropFile : x.dir = p}
  OBVIOUS
<1>4. walk' = [walk EXCEPT !.dirs = C, !.list = L]
  BY <1>1, <1>3 DEF OpenFolder
<1>5. walk' = [at |-> a, known |-> b, dirs |-> C, list |-> L, file |-> e, pic |-> f, stray |-> g]
  BY <1>1, <1>4
<1>6. IsWalk(walk')
  BY <1>2, <1>5 DEF IsWalk
<1>7. cropFile' = cropFile /\ faceRow' = faceRow /\ upload' = upload /\ assigns' = assigns /\ uses' = uses
  BY DEF OpenFolder
<1>8. walk'.file = Nowhere
  BY <1>2, <1>5
<1> QED BY <1>1, <1>2, <1>3, <1>5, <1>6, <1>7, <1>8, ScanOrder

\* A file that is there is read: as the scan is not behind, it is nobody's.
LEMMA TakeOrder ==
  ASSUME CropsTyped, NEW x \in walk.list, TakeFile(x)
  PROVE  /\ CropsTyped' /\ (CropsInOrder /\ ~ScanBehind => CropsInOrder')
         /\ walk'.at = "walking" /\ walk'.dirs = walk.dirs /\ walk'.list = walk.list \ {x} /\ walk.file = Nowhere
         /\ walk'.known = walk.known /\ walk'.stray = walk.stray
         /\ x \in DOMAIN cropFile /\ x \notin walk.known => walk'.file = x
<1>1. PICK a, b, c, d, e, f, g :
         walk = [at |-> a, known |-> b, dirs |-> c, list |-> d, file |-> e, pic |-> f, stray |-> g]
  BY Remembers DEF CropsTyped
<1>2. e = Nowhere /\ a = "walking"
  BY <1>1 DEF TakeFile, CropsTyped, IsWalk
<1>3. PICK L, E, F : /\ L = d \ {x}
                     /\ E = IF x \in DOMAIN cropFile \ b THEN x ELSE Nowhere
                     /\ F = IF x \in DOMAIN cropFile \ b THEN cropFile[x] ELSE Nowhere
  OBVIOUS
<1>4. walk' = [walk EXCEPT !.list = L, !.file = E, !.pic = F]
  BY <1>1, <1>3 DEF TakeFile
<1>5. walk' = [at |-> a, known |-> b, dirs |-> c, list |-> L, file |-> E, pic |-> F, stray |-> g]
  BY <1>1, <1>4
<1>6. E \in CropPaths \cup {Nowhere}
  BY <1>3 DEF CropsTyped, IsTable
<1>7. IsWalk(walk')
  BY <1>2, <1>5, <1>6 DEF IsWalk
<1>8. cropFile' = cropFile /\ faceRow' = faceRow /\ upload' = upload /\ assigns' = assigns /\ uses' = uses
  BY DEF TakeFile
<1>9. CropsTyped'
  BY <1>7, <1>8 DEF CropsTyped
<1>10. ASSUME CropsInOrder, ~ScanBehind PROVE CropsInOrder'
  <2>1. \A i : CropOf(i)' = CropOf(i)
    BY <1>8, CropsStay
  <2>2. FacesInOrder' /\ AssignsInOrder' /\ UploadsInOrder'
    BY <1>8, <1>10, <2>1 DEF CropsInOrder, FacesInOrder, AssignsInOrder, UploadsInOrder
  <2>3. walk'.file = E /\ walk'.pic = F /\ walk.file = Nowhere
    BY <1>1, <1>2, <1>5
  <2>4. E # Nowhere => E \in DOMAIN cropFile /\ cropFile[E] = F
    BY <1>3
  <2>5. E # Nowhere => /\ \A i \in DOMAIN faceRow : CropOf(i) # E
                       /\ \A k \in Calls : upload[k].at = "written" => upload[k].path # E
    BY <1>10, <2>3 DEF ScanBehind
  <2>6. WalkInOrder'
    BY <1>8, <2>1, <2>3, <2>4, <2>5 DEF WalkInOrder
  <2> QED BY <2>2, <2>6 DEF CropsInOrder
<1> QED BY <1>1, <1>2, <1>3, <1>5, <1>9, <1>10

\* A crop that is nobody's gets a row.
LEMMA FoundOrder ==
  ASSUME CropsTyped, RegisterFound
  PROVE  /\ CropsTyped' /\ (CropsInOrder => CropsInOrder')
         /\ walk'.at = walk.at /\ walk'.dirs = walk.dirs /\ walk'.list = walk.list /\ walk'.stray = walk.stray
         /\ walk'.known = walk.known \cup {walk.file}
         /\ \E n \in Nat : RowAdded(n, walk.file, walk.pic)
<1>1. PICK a, b, c, d, x, pic, g :
         walk = [at |-> a, known |-> b, dirs |-> c, list |-> d, file |-> x, pic |-> pic, stray |-> g]
  BY Remembers DEF CropsTyped
<1>2. walk.file = x /\ walk.pic = pic /\ walk.at = a /\ walk.known = b /\ walk.dirs = c /\ walk.list = d /\ walk.stray = g
  BY <1>1
<1>3. x # Nowhere /\ x \in CropPaths
  BY <1>2 DEF RegisterFound, CropsTyped, IsWalk
<1>4. PICK K : K = b \cup {x}
  OBVIOUS
<1>5. walk' = [walk EXCEPT !.known = K, !.file = Nowhere, !.pic = Nowhere]
  BY <1>1, <1>2, <1>4 DEF RegisterFound
<1>6. walk' = [at |-> a, known |-> K, dirs |-> c, list |-> d, file |-> Nowhere, pic |-> Nowhere, stray |-> g]
  BY <1>1, <1>5
<1>7. IsWalk(walk')
  BY <1>1, <1>2, <1>6 DEF CropsTyped, IsWalk
<1>8. faceRow' = NewRow(x, x.dir, pic) /\ cropFile' = cropFile /\ upload' = upload /\ assigns' = assigns /\ uses' = uses
  BY <1>2 DEF RegisterFound
<1>9. PICK n \in Nat : RowAdded(n, x, pic)
  BY <1>3, <1>8, AddsRow
<1>10. IsTable(faceRow', Nat) /\ \A i \in DOMAIN faceRow' : IsRow(faceRow'[i])
  BY <1>3, <1>8, AddsRow
<1>11. CropsTyped'
  BY <1>7, <1>8, <1>10 DEF CropsTyped
<1>12. ASSUME CropsInOrder PROVE CropsInOrder'
  <2>1. /\ CropOf(n)' = x /\ \A i \in DOMAIN faceRow : CropOf(i)' = CropOf(i)
        /\ n \notin DOMAIN faceRow /\ DOMAIN faceRow' = DOMAIN faceRow \cup {n} /\ faceRow'[n].pic = pic
        /\ \A i \in DOMAIN faceRow : faceRow'[i] = faceRow[i]
    BY <1>9, <1>12 DEF RowAdded, CropsInOrder
  <2>2. /\ x \in DOMAIN cropFile /\ cropFile[x] = pic /\ \A i \in DOMAIN faceRow : CropOf(i) # x
        /\ \A e \in Calls : upload[e].at = "written" => upload[e].path # x
    BY <1>2, <1>3, <1>12 DEF CropsInOrder, WalkInOrder
  <2>3. FacesInOrder'
    BY <1>8, <1>12, <2>1, <2>2 DEF CropsInOrder, FacesInOrder
  <2>4. AssignsInOrder'
    BY <1>8, <1>12, <2>1 DEF CropsInOrder, AssignsInOrder
  <2>5. UploadsInOrder'
    BY <1>8, <1>12, <2>1, <2>2 DEF CropsInOrder, UploadsInOrder
  <2>6. WalkInOrder'
    <3>1. walk'.file = Nowhere
      BY <1>6
    <3> QED BY <3>1 DEF WalkInOrder
  <2> QED BY <2>3, <2>4, <2>5, <2>6 DEF CropsInOrder
<1> QED BY <1>2, <1>4, <1>6, <1>9, <1>11, <1>12

\* The scan is done.
LEMMA EndsOrder ==
  ASSUME CropsTyped, ScanEnds
  PROVE  CropsTyped' /\ (CropsInOrder => CropsInOrder') /\ walk'.stray = {}
<1>1. walk' = [at |-> "off", known |-> {}, dirs |-> {}, list |-> {}, file |-> Nowhere, pic |-> Nowhere, stray |-> {}]
  BY DEF ScanEnds, NoWalk
<1>2. IsWalk(walk') /\ walk'.file = Nowhere /\ walk'.stray = {}
  BY <1>1 DEF IsWalk
<1>3. cropFile' = cropFile /\ faceRow' = faceRow /\ upload' = upload /\ assigns' = assigns /\ uses' = uses
  BY DEF ScanEnds
<1> QED BY <1>2, <1>3, ScanOrder

-----------------------------------------------------------------------------
(* The crops the scan is for.                                                *)

\* A crop the scan is for is there and has a row, or the scan has still to come to it.
Strays ==
    \A x \in walk.stray :
        /\ x \in DOMAIN cropFile /\ walk.at = "walking"
        /\ Rows(x) # {} \/ (x \notin walk.known /\ (x.dir \in walk.dirs \/ x \in walk.list \/ x = walk.file))

\* The scan is where it was, for no crop more, and every crop it is for keeps its file and a row.
StraysKept ==
    /\ walk'.at = walk.at /\ walk'.known = walk.known /\ walk'.dirs = walk.dirs /\ walk'.list = walk.list
    /\ walk'.file = walk.file /\ walk'.stray \subseteq walk.stray
    /\ \A x \in walk'.stray : /\ x \in DOMAIN cropFile => x \in DOMAIN cropFile'
                              /\ \A i \in DOMAIN faceRow : faceRow[i].path = x =>
                                    \E j \in DOMAIN faceRow' : faceRow'[j].path = x

\* Then the invariant holds on.
LEMMA KeptStrays ==
  ASSUME Strays, StraysKept
  PROVE  Strays'
<1> SUFFICES ASSUME NEW x \in walk'.stray
             PROVE  /\ x \in DOMAIN cropFile' /\ walk'.at = "walking"
                    /\ Rows(x)' # {} \/ (x \notin walk'.known /\ (x.dir \in walk'.dirs \/ x \in walk'.list \/ x = walk'.file))
  BY DEF Strays
<1>1. x \in walk.stray
  BY DEF StraysKept
<1>2. x \in DOMAIN cropFile /\ walk.at = "walking"
  BY <1>1 DEF Strays
<1>3. Rows(x) # {} => Rows(x)' # {}
  <2> SUFFICES ASSUME NEW i \in DOMAIN faceRow, faceRow[i].path = x
               PROVE  \E j \in DOMAIN faceRow' : faceRow'[j].path = x
    BY DEF Rows
  <2> QED BY DEF StraysKept
<1> QED BY <1>1, <1>2, <1>3 DEF Strays, StraysKept

\* Nothing of it changes.
LEMMA IdleStrays ==
  ASSUME faceRow' = faceRow, walk' = walk, DOMAIN cropFile \subseteq DOMAIN cropFile'
  PROVE  StraysKept
BY DEF StraysKept

\* A file more.
LEMMA WriteStrays ==
  ASSUME NEW c \in Calls, WriteCrop(c)
  PROVE  StraysKept
<1>1. PICK x, pic : x = upload[c].path /\ pic = Head(upload[c].todo).pic
  OBVIOUS
<1>2. cropFile' = Put(cropFile, x, pic) /\ faceRow' = faceRow /\ walk' = walk
  BY <1>1 DEF WriteCrop
<1>3. DOMAIN cropFile \subseteq DOMAIN cropFile'
  BY <1>2 DEF Put
<1> QED BY <1>2, <1>3, IdleStrays

\* A row more.
LEMMA RegisterStrays ==
  ASSUME CropsTyped, NEW c \in Calls, RegisterCrop(c)
  PROVE  StraysKept
<1>1. PICK u, x, pic : u = upload[c] /\ x = u.path /\ pic = Head(u.todo).pic
  OBVIOUS
<1>2. x \in CropPaths /\ faceRow' = NewRow(x, u.person, pic) /\ assigns' = assigns /\ cropFile' = cropFile /\ walk' = walk
  BY <1>1 DEF RegisterCrop, CropsTyped, IsUpload
<1>3. PICK n \in Nat : RowAdded(n, x, pic)
  BY <1>2, AddsRow
<1>4. \A i \in DOMAIN faceRow : i \in DOMAIN faceRow' /\ faceRow'[i] = faceRow[i]
  BY <1>3 DEF RowAdded
<1> QED BY <1>2, <1>4 DEF StraysKept

\* A row and a file less, which the scan is not for any more.
LEMMA DeleteStrays ==
  ASSUME CropsTyped, NEW i \in DOMAIN faceRow, DeleteCrop(i)
  PROVE  StraysKept
<1>1. PICK x : x = faceRow[i].path
  OBVIOUS
<1>2. cropFile' = Without(cropFile, {x}) /\ faceRow' = Without(faceRow, {i}) /\ walk' = Forgotten(i)
  BY <1>1 DEF DeleteCrop
<1>3. DOMAIN cropFile' = DOMAIN cropFile \ {x}
  <2>1. HasLess(cropFile', cropFile, {x})
    BY <1>2, WithoutTable DEF CropsTyped
  <2> QED BY <2>1 DEF HasLess
<1>4. DOMAIN faceRow' = DOMAIN faceRow \ {i} /\ \A j \in DOMAIN faceRow \ {i} : faceRow'[j] = faceRow[j]
  <2>1. HasLess(faceRow', faceRow, {i})
    BY <1>2, WithoutTable DEF CropsTyped
  <2> QED BY <2>1 DEF HasLess
<1>5. /\ walk'.stray = walk.stray \ {x} /\ walk'.at = walk.at /\ walk'.file = walk.file
      /\ walk'.known = walk.known /\ walk'.dirs = walk.dirs /\ walk'.list = walk.list
  BY <1>1, <1>2, Forgets DEF CropsTyped
<1> QED BY <1>1, <1>3, <1>4, <1>5 DEF StraysKept

\* A file that moves is one the scan is not for.
LEMMA MoveStrays ==
  ASSUME CropsTyped, NEW i \in DOMAIN faceRow, NEW p \in Keepers, MoveToPerson(i, p)
  PROVE  StraysKept
<1>1. PICK x, at : x = faceRow[i].path /\ at = Landing(cropFile, x, [x EXCEPT !.dir = p])
  OBVIOUS
<1>2. cropFile' = (IF at = Nowhere THEN cropFile ELSE Moved(cropFile, x, at)) /\ faceRow' = faceRow /\ walk' = Forgotten(i)
  BY <1>1 DEF MoveToPerson
<1>3. DOMAIN cropFile \ {x} \subseteq DOMAIN cropFile'
  <2>1. CASE at = Nowhere
    BY <1>2, <2>1
  <2>2. CASE at # Nowhere
    <3>1. x \in CropPaths
      BY <1>1 DEF CropsTyped, IsRow
    <3>2. [x EXCEPT !.dir = p] \in CropPaths
      BY <3>1, OtherFolder
    <3>3. at \in CropPaths
      BY <1>1, <2>2, <3>1, <3>2, Lands DEF CropsTyped
    <3>4. HasMoved(Moved(cropFile, x, at), cropFile, x, at)
      BY <3>3, MovedTable DEF CropsTyped
    <3>5. HasMoved(cropFile', cropFile, x, at)
      BY <1>2, <2>2, <3>4
    <3> QED BY <3>5 DEF HasMoved
  <2> QED BY <2>1, <2>2
<1>5. /\ walk'.stray = walk.stray \ {x} /\ walk'.at = walk.at /\ walk'.file = walk.file
      /\ walk'.known = walk.known /\ walk'.dirs = walk.dirs /\ walk'.list = walk.list
  BY <1>1, <1>2, Forgets DEF CropsTyped
<1> QED BY <1>2, <1>3, <1>5 DEF StraysKept

\* And so is the file of a row that is given another path.
LEMMA MovedStrays ==
  ASSUME CropsTyped, NEW r \in assigns, MovedToPerson(r)
  PROVE  StraysKept
<1>1. cropFile' = cropFile
  BY DEF MovedToPerson
<1>2. CASE r.id \notin DOMAIN faceRow
  <2>1. faceRow' = faceRow /\ walk' = walk
    BY <1>2 DEF MovedToPerson
  <2> QED BY <1>1, <2>1, IdleStrays
<1>3. CASE r.id \in DOMAIN faceRow
  <2>1. PICK i, x : i = r.id /\ x = faceRow[i].path
    OBVIOUS
  <2>2. PICK q : q = [faceRow[i] EXCEPT !.person = r.person, !.path = IF r.to = r.was.path THEN faceRow[i].path ELSE r.to]
    OBVIOUS
  <2>3. faceRow' = [faceRow EXCEPT ![i] = q] /\ walk' = Forgotten(i)
    BY <1>3, <2>1, <2>2 DEF MovedToPerson
  <2>4. DOMAIN faceRow' = DOMAIN faceRow /\ \A j \in DOMAIN faceRow \ {i} : faceRow'[j] = faceRow[j]
    BY <2>3 DEF CropsTyped, IsTable
  <2>5. /\ walk'.stray = walk.stray \ {x} /\ walk'.at = walk.at /\ walk'.file = walk.file
        /\ walk'.known = walk.known /\ walk'.dirs = walk.dirs /\ walk'.list = walk.list
    BY <2>1, <2>3, Forgets DEF CropsTyped
  <2> QED BY <1>1, <2>1, <2>4, <2>5 DEF StraysKept
<1> QED BY <1>2, <1>3

\* What one step does.
CropsStep ==
    /\ CropsTyped'
    /\ CropsInOrder => CropsInOrder' \/ NameTaken \/ ScanBehind \/ Overtaken
    /\ Strays'
    /\ walk.at = "walking" /\ walk' = NoWalk => \A x \in walk.stray : Rows(x) # {}

\* A step that keeps it does not end the scan.
LEMMA KeptStep ==
  ASSUME Strays, StraysKept, CropsTyped', CropsInOrder => CropsInOrder' \/ NameTaken \/ ScanBehind \/ Overtaken
  PROVE  CropsStep
<1>1. Strays'
  BY KeptStrays
<1>2. walk.at = "walking" => walk' # NoWalk
  BY DEF StraysKept, NoWalk
<1> QED BY <1>1, <1>2 DEF CropsStep

\* Every step does what a step does.
LEMMA CropsNext ==
  ASSUME CropsTyped, Strays, NextC
  PROVE  CropsStep
<1>1. ASSUME NEW c \in Calls, NEW p \in Keepers, NEW batch \in Batches, UploadFaces(c, p, batch) PROVE CropsStep
  <2>1. StraysKept
    BY <1>1, IdleStrays DEF UploadFaces
  <2> QED BY <1>1, <2>1, UploadOrder, KeptStep
<1>2. ASSUME NEW c \in Calls, NextUpload(c) PROVE CropsStep
  <2>1. StraysKept
    BY <1>2, IdleStrays DEF NextUpload
  <2> QED BY <1>2, <2>1, NextOrder, KeptStep
<1>3. ASSUME NEW c \in Calls, DetectCrop(c) PROVE CropsStep
  <2>1. StraysKept
    BY <1>3, IdleStrays DEF DetectCrop
  <2> QED BY <1>3, <2>1, DetectOrder, KeptStep
<1>4. ASSUME NEW c \in Calls, WriteCrop(c) PROVE CropsStep
  <2>1. CropsTyped' /\ StraysKept
    BY <1>4, WriteTyped, WriteStrays
  <2>2. CropsInOrder => CropsInOrder' \/ NameTaken
    BY <1>4, WriteOrder
  <2> QED BY <2>1, <2>2, KeptStep
<1>5. ASSUME NEW c \in Calls, RegisterCrop(c) PROVE CropsStep
  BY <1>5, RegisterStrays, RegisterOrder, KeptStep
<1>6. ASSUME NEW i \in DOMAIN faceRow, DeleteCrop(i) PROVE CropsStep
  BY <1>6, DeleteStrays, DeleteOrder, KeptStep
<1>7. ASSUME NEW i \in DOMAIN faceRow, NEW p \in Keepers, MoveToPerson(i, p) PROVE CropsStep
  BY <1>7, MoveStrays, MoveOrder, KeptStep
<1>8. ASSUME NEW r \in assigns, MovedToPerson(r) PROVE CropsStep
  BY <1>8, MovedStrays, MovedOrder, KeptStep
<1>9. ASSUME RestartScan PROVE CropsStep
  <2>1. CropsTyped' /\ walk'.at = "start" /\ walk'.stray = {} /\ (CropsInOrder /\ ~Overtaken => CropsInOrder')
    BY <1>9, RestartOrder
  <2>2. Strays' /\ walk' # NoWalk
    BY <2>1 DEF Strays, NoWalk
  <2> QED BY <2>1, <2>2 DEF CropsStep
<1>10. ASSUME ScanReads PROVE CropsStep
  <2>1. /\ CropsTyped' /\ (CropsInOrder => CropsInOrder')
        /\ walk'.at = "walking" /\ walk'.dirs = Keepers /\ walk'.stray \subseteq DOMAIN cropFile
        /\ \A x \in walk'.stray : x \notin walk'.known
    BY <1>10, ReadsOrder
  <2>2. cropFile' = cropFile
    BY <1>10 DEF ScanReads
  <2>3. \A x \in DOMAIN cropFile : x.dir \in Keepers
    BY DEF CropsTyped, IsTable, CropPaths
  <2>4. Strays'
    BY <2>1, <2>2, <2>3 DEF Strays
  <2>5. walk' # NoWalk
    BY <2>1 DEF NoWalk
  <2> QED BY <2>1, <2>4, <2>5 DEF CropsStep
<1>11. ASSUME NEW p \in walk.dirs, OpenFolder(p) PROVE CropsStep
  <2>1. /\ CropsTyped' /\ (CropsInOrder => CropsInOrder')
        /\ walk'.at = "walking" /\ walk'.dirs = walk.dirs \ {p} /\ walk'.list = {x \in DOMAIN cropFile : x.dir = p}
        /\ walk'.file = Nowhere /\ walk.file = Nowhere /\ walk.list = {} /\ walk'.known = walk.known
        /\ walk'.stray = walk.stray
    BY <1>11, OpenOrder
  <2>2. cropFile' = cropFile /\ faceRow' = faceRow
    BY <1>11 DEF OpenFolder
  <2>3. \A x \in DOMAIN cropFile : x # Nowhere
    BY KeepersAssumption DEF CropsTyped, IsTable
  <2>4. Strays'
    <3> SUFFICES ASSUME NEW x \in walk.stray
                 PROVE  /\ x \in DOMAIN cropFile
                        /\ Rows(x) # {} \/ (x \notin walk.known /\ (x.dir \in walk'.dirs \/ x \in walk'.list \/ x = walk'.file))
      BY <2>1, <2>2 DEF Strays, Rows
    <3>1. /\ x \in DOMAIN cropFile
          /\ Rows(x) # {} \/ (x \notin walk.known /\ (x.dir \in walk.dirs \/ x \in walk.list \/ x = walk.file))
      BY DEF Strays
    <3> QED BY <2>1, <2>3, <3>1
  <2>5. walk' # NoWalk
    BY <2>1 DEF NoWalk
  <2> QED BY <2>1, <2>4, <2>5 DEF CropsStep
<1>12. ASSUME NEW y \in walk.list, TakeFile(y) PROVE CropsStep
  <2>1. /\ CropsTyped' /\ (CropsInOrder /\ ~ScanBehind => CropsInOrder')
        /\ walk'.at = "walking" /\ walk'.dirs = walk.dirs /\ walk'.list = walk.list \ {y} /\ walk.file = Nowhere
        /\ walk'.known = walk.known /\ walk'.stray = walk.stray
        /\ y \in DOMAIN cropFile /\ y \notin walk.known => walk'.file = y
    BY <1>12, TakeOrder
  <2>2. cropFile' = cropFile /\ faceRow' = faceRow
    BY <1>12 DEF TakeFile
  <2>3. \A x \in DOMAIN cropFile : x # Nowhere
    BY KeepersAssumption DEF CropsTyped, IsTable
  <2>4. Strays'
    <3> SUFFICES ASSUME NEW x \in walk.stray
                 PROVE  /\ x \in DOMAIN cropFile
                        /\ Rows(x) # {} \/ (x \notin walk.known /\ (x.dir \in walk'.dirs \/ x \in walk'.list \/ x = walk'.file))
      BY <2>1, <2>2 DEF Strays, Rows
    <3>1. /\ x \in DOMAIN cropFile
          /\ Rows(x) # {} \/ (x \notin walk.known /\ (x.dir \in walk.dirs \/ x \in walk.list \/ x = walk.file))
      BY DEF Strays
    <3> QED BY <2>1, <2>3, <3>1
  <2>5. walk' # NoWalk
    BY <2>1 DEF NoWalk
  <2> QED BY <2>1, <2>4, <2>5 DEF CropsStep
<1>13. ASSUME RegisterFound PROVE CropsStep
  <2>1. /\ CropsTyped' /\ (CropsInOrder => CropsInOrder')
        /\ walk'.at = walk.at /\ walk'.dirs = walk.dirs /\ walk'.list = walk.list /\ walk'.stray = walk.stray
        /\ walk'.known = walk.known \cup {walk.file}
    BY <1>13, FoundOrder
  <2>2. PICK n \in Nat : RowAdded(n, walk.file, walk.pic)
    BY <1>13, FoundOrder
  <2>3. /\ n \in DOMAIN faceRow' /\ faceRow'[n].path = walk.file
        /\ \A i \in DOMAIN faceRow : i \in DOMAIN faceRow' /\ faceRow'[i] = faceRow[i]
    BY <2>2 DEF RowAdded
  <2>4. cropFile' = cropFile
    BY <1>13 DEF RegisterFound
  <2>5. \A x : (Rows(x) # {} \/ x = walk.file) => Rows(x)' # {}
    BY <2>3 DEF Rows
  <2>6. Strays'
    <3> SUFFICES ASSUME NEW x \in walk.stray
                 PROVE  /\ x \in DOMAIN cropFile /\ walk.at = "walking"
                        /\ Rows(x)' # {} \/ (x \notin walk'.known /\ (x.dir \in walk.dirs \/ x \in walk.list))
      BY <2>1, <2>4 DEF Strays
    <3>1. /\ x \in DOMAIN cropFile /\ walk.at = "walking"
          /\ Rows(x) # {} \/ (x \notin walk.known /\ (x.dir \in walk.dirs \/ x \in walk.list \/ x = walk.file))
      BY DEF Strays
    <3> QED BY <2>1, <2>5, <3>1
  <2>7. walk.at = "walking" => walk' # NoWalk
    BY <2>1 DEF NoWalk
  <2> QED BY <2>1, <2>6, <2>7 DEF CropsStep
<1>14. ASSUME ScanEnds PROVE CropsStep
  <2>1. CropsTyped' /\ (CropsInOrder => CropsInOrder') /\ walk'.stray = {}
    BY <1>14, EndsOrder
  <2>2. walk.dirs = {} /\ walk.list = {} /\ walk.file = Nowhere
    BY <1>14 DEF ScanEnds
  <2>3. \A x \in walk.stray : x \in DOMAIN cropFile /\ (Rows(x) # {} \/ x = Nowhere)
    BY <2>2 DEF Strays
  <2>4. \A x \in DOMAIN cropFile : x # Nowhere
    BY KeepersAssumption DEF CropsTyped, IsTable
  <2>5. Strays'
    BY <2>1 DEF Strays
  <2> QED BY <2>1, <2>3, <2>4, <2>5 DEF CropsStep
<1> QED BY <1>1, <1>2, <1>3, <1>4, <1>5, <1>6, <1>7, <1>8, <1>9, <1>10, <1>11, <1>12, <1>13, <1>14 DEF NextC

\* It holds to begin with.
LEMMA CropsInit == InitC => CropsTyped /\ Strays
<1> SUFFICES ASSUME InitC PROVE CropsTyped /\ Strays
  OBVIOUS
<1>1. PICK w \in CropWorlds : cropFile = w.file /\ faceRow = w.row /\ uses = w.uses /\ walk = [NoWalk EXCEPT !.at = w.walk]
  BY DEF InitC
<1>2. upload = [c \in Calls |-> Rest] /\ assigns = {}
  BY DEF InitC
<1>3. PICK at : at = w.walk
  OBVIOUS
<1>4. walk = [at |-> at, known |-> {}, dirs |-> {}, list |-> {}, file |-> Nowhere, pic |-> Nowhere, stray |-> {}]
  BY <1>1, <1>3 DEF NoWalk
<1>5. at \in {"off", "start"}
  BY <1>3, CropWorldsAssumption
<1>6. IsWalk(walk) /\ walk.stray = {}
  BY <1>4, <1>5 DEF IsWalk
<1>7. IsUpload(Rest)
  BY DEF IsUpload, Rest
<1>8. IsTable(cropFile, CropPaths) /\ IsTable(faceRow, Nat) /\ \A i \in DOMAIN faceRow : IsRow(faceRow[i])
  BY <1>1, CropWorldsAssumption DEF IsTable
<1>9. uses = [u \in DOMAIN uses |-> uses[u]] /\ \A u \in DOMAIN uses : uses[u] \in Nat
  BY <1>1, CropWorldsAssumption
<1> QED BY <1>2, <1>6, <1>7, <1>8, <1>9 DEF CropsTyped, Strays

\* The rows, files, uploads, assignments and the scan have their types, and a scan under way has
\* a row for every crop it is for or has still to come to it.
THEOREM CropsInvariant == SpecC => [](CropsTyped /\ Strays)
<1>1. CropsTyped /\ Strays /\ [NextC]_cvars => (CropsTyped /\ Strays)'
  <2> SUFFICES ASSUME CropsTyped, Strays, [NextC]_cvars PROVE (CropsTyped /\ Strays)'
    OBVIOUS
  <2>1. CASE NextC
    BY <2>1, CropsNext DEF CropsStep
  <2>2. CASE UNCHANGED cvars
    BY <2>2 DEF cvars, CropsTyped, Strays, Rows
  <2> QED BY <2>1, <2>2
<1> QED BY <1>1, CropsInit, PTL DEF SpecC

\* CropsOwned: every face keeps a crop of its own that shows it, and a scan finds every crop that
\* had no row, except as the three hazards that the property names have it.
THEOREM CropsStayOwned == SpecC => CropsOwned
<1> DEFINE Body == CropsInOrder =>
         /\ CropsInOrder' \/ NameTaken \/ ScanBehind \/ Overtaken
         /\ walk.at = "walking" /\ walk' = NoWalk => \A x \in walk.stray \cap DOMAIN cropFile : Rows(x) # {}
<1>1. CropsTyped /\ Strays /\ [NextC]_cvars => [Body]_cvars
  BY CropsNext DEF CropsStep
<1>2. CropsOwned <=> [][Body]_cvars
  BY PTL DEF CropsOwned
<1> HIDE DEF Body
<1> QED BY <1>1, <1>2, CropsInvariant, PTL DEF SpecC
=============================================================================
