--------------------------- MODULE WorkersProofs ---------------------------
(***************************************************************************)
(* Proofs about Workers for any number of jobs, any plan of them, any sizes *)
(* of the pools and any number of deaths, restarts, reconnects and resizes. *)
(* That the queue with its two processes is a JobLifecycle rests on three   *)
(* things: a job that waits stands in one place only, a message of a job    *)
(* never says more than has happened nor less than an earlier one, and the  *)
(* page is never ahead of the status it is told.                            *)
(***************************************************************************)
EXTENDS Workers, TLAPS

Shown  == {"none", "queued", "running", "done", "error"}
States == Shown \cup {"gone"}
Rank(p) == Lifecycle!Rank(p)

\* Elements of a sequence, and none twice.
Elems(s)    == {s[i] : i \in DOMAIN s}
Distinct(s) == \A i, k \in DOMAIN s : s[i] = s[k] => i = k

WType ==
    /\ kind \in [Job -> STRING]
    /\ status \in [Job -> Shown] /\ real \in [Job -> States] /\ seen \in [Job -> Shown]
    /\ lane \in [Lanes -> Seq(Job)] /\ parallel \in SUBSET Job /\ putting \in SUBSET Job
    /\ requests \in Seq(Job)
    /\ messages \in Seq([job : Job, state : Shown \ {"none"}])
    /\ worker \in [up : BOOLEAN, lane : [Remote -> Seq(Job)], sub : SUBSET Job]
    /\ inbox \in [DOMAIN inbox -> SUBSET Job] /\ DOMAIN inbox \subseteq Job \cup {Page}
    /\ pool \in [tasks : Int, pills : Nat, leaving : Nat, target : Int]

\* A rerun job awaits a remote one.
AwaitsRemote == \A j \in DOMAIN Awaits : kind[j] = "rerun" => Awaits[j] \in Job /\ kind[Awaits[j]] \in Remote

\* A job that waits in the API process is queued, and in one place.
LocalPlaces ==
    /\ \A l \in Lanes :
          /\ Distinct(lane[l])
          /\ \A j \in Elems(lane[l]) : /\ status[j] = "queued" /\ real[j] = "queued"
                                       /\ kind[j] \notin Remote \cup {"download"} /\ Lane(kind[j]) = l
    /\ \A j \in parallel : status[j] = "queued" /\ real[j] = "queued" /\ kind[j] = "download"

\* So is one on its way to the worker process or in a lane of it.
RemotePlaces ==
    /\ \A j \in putting : kind[j] \in Remote /\ real[j] = "queued" /\ j \notin Elems(requests)
    /\ Distinct(requests)
    /\ \A j \in Elems(requests) : kind[j] \in Remote /\ real[j] = "queued"
    /\ \A l \in Remote :
          /\ Distinct(worker.lane[l])
          /\ \A j \in Elems(worker.lane[l]) : /\ kind[j] = l /\ real[j] = "queued"
                                              /\ j \notin putting /\ j \notin Elems(requests)

\* The status of the API process is late for a remote job, never wrong.
StatusRight ==
    \A j \in Job :
        /\ Rank(status[j]) <= Rank(real[j])
        /\ status[j] \in Ended => real[j] = status[j]
        /\ kind[j] \notin Remote /\ status[j] # "none" => real[j] = status[j]

\* A message says what has happened, and of one job they come in order.
MessagesRight ==
    /\ \A i \in DOMAIN messages :
          LET j == messages[i].job  p == messages[i].state
          IN  /\ kind[j] \in Remote
              /\ Rank(status[j]) <= Rank(p) /\ Rank(p) <= Rank(real[j])
              /\ p \in Ended => real[j] = p
    /\ \A i, k \in DOMAIN messages : i < k /\ messages[i].job = messages[k].job
                                       => Rank(messages[i].state) <= Rank(messages[k].state)

\* What the forwarder of the worker process will report is known there.
Reported == \A j \in worker.sub : kind[j] \in Remote /\ real[j] \in Shown \ {"none"}

\* The page is behind.
SeenBehind ==
    \A j \in Job : /\ Rank(seen[j]) <= Rank(real[j])
                   /\ status[j] # "none" => Rank(seen[j]) <= Rank(status[j])

\* A subscriber beside the page is a rerun that runs.
Waiting == \A j \in DOMAIN inbox \ {Page} : j \in DOMAIN Awaits /\ kind[j] = "rerun" /\ status[j] = "running"

\* What the page has not got is in its queue.
PageFollows ==
    Page \in DOMAIN inbox =>
        /\ \A j \in inbox[Page] : status[j] # "none"
        /\ \A j \in Job \ inbox[Page] :
              status[j] \in {"none", seen[j]} \/ (seen[j] = "none" /\ status[j] \in Ended)

\* The inductive invariant.
WInv == /\ WType /\ AwaitsRemote
        /\ LocalPlaces /\ RemotePlaces
        /\ StatusRight /\ MessagesRight /\ Reported
        /\ SeenBehind /\ Waiting /\ PageFollows
        /\ PoolFits

-----------------------------------------------------------------------------
(* Lemmas about ranks and sequences                                         *)

\* The order of the states of a job.
LEMMA Ranks ==
    /\ Rank("none") = 0 /\ Rank("queued") = 1 /\ Rank("running") = 2
    /\ Rank("done") = 3 /\ Rank("error") = 3 /\ Rank("gone") = 3
    /\ \A p \in States : Rank(p) \in 0..3
    /\ \A p \in Shown : /\ Rank(p) = 0 <=> p = "none"
                        /\ Rank(p) = 3 <=> p \in Ended
BY DEF Rank, Lifecycle!Rank, States, Shown, Ended

\* A job that comes last.
LEMMA Appended ==
    ASSUME NEW S, NEW s \in Seq(S), NEW x \in S
    PROVE  /\ Append(s, x) \in Seq(S)
           /\ Elems(Append(s, x)) = Elems(s) \cup {x}
           /\ Distinct(s) /\ x \notin Elems(s) => Distinct(Append(s, x))
<1> DEFINE t == Append(s, x)
<1>1. /\ t \in Seq(S) /\ Len(t) = Len(s) + 1 /\ t[Len(s) + 1] = x
      /\ \A i \in 1..Len(s) : t[i] = s[i]
  OBVIOUS
<1>2. DOMAIN t = 1..Len(s) + 1 /\ DOMAIN s = 1..Len(s) /\ Len(s) \in Nat
  BY <1>1
<1> HIDE DEF t
<1>3. Elems(t) = Elems(s) \cup {x}
  BY <1>1, <1>2 DEF Elems
<1>4. ASSUME Distinct(s), x \notin Elems(s) PROVE Distinct(t)
  BY <1>1, <1>2, <1>4 DEF Distinct, Elems
<1> QED  BY <1>1, <1>3, <1>4 DEF t

\* What is left of a sequence of different elements when one of them is taken out.
LEMMA Removed ==
    ASSUME NEW S, NEW s \in Seq(S), NEW i \in DOMAIN s
    PROVE  /\ RemoveAt(s, i) \in Seq(S)
           /\ Elems(RemoveAt(s, i)) \subseteq Elems(s)
           /\ Distinct(s) => /\ Distinct(RemoveAt(s, i))
                             /\ s[i] \notin Elems(RemoveAt(s, i))
<1> DEFINE t == RemoveAt(s, i)
<1>1. /\ Len(s) \in Nat /\ DOMAIN s = 1..Len(s) /\ i \in 1..Len(s)
      /\ \A k \in 1..Len(s) : s[k] \in S
  OBVIOUS
<1>2. /\ SubSeq(s, 1, i - 1) \in Seq(S) /\ Len(SubSeq(s, 1, i - 1)) = i - 1
      /\ \A k \in 1..i - 1 : SubSeq(s, 1, i - 1)[k] = s[k]
  BY <1>1
<1>3. /\ SubSeq(s, i + 1, Len(s)) \in Seq(S) /\ Len(SubSeq(s, i + 1, Len(s))) = Len(s) - i
      /\ \A k \in 1..Len(s) - i : SubSeq(s, i + 1, Len(s))[k] = s[k + i]
  BY <1>1
<1>4. /\ t \in Seq(S) /\ Len(t) = Len(s) - 1
      /\ \A k \in 1..Len(s) - 1 : t[k] = s[IF k < i THEN k ELSE k + 1]
  <2> DEFINE u == SubSeq(s, 1, i - 1)
             v == SubSeq(s, i + 1, Len(s))
  <2>1. t = u \o v
    BY DEF RemoveAt
  <2> HIDE DEF t, u, v
  <2>2. u \in Seq(S) /\ v \in Seq(S) /\ Len(u) = i - 1 /\ Len(v) = Len(s) - i
    BY <1>2, <1>3 DEF u, v
  <2>3. /\ u \o v \in Seq(S) /\ Len(u \o v) = Len(u) + Len(v)
        /\ \A k \in 1..Len(u) + Len(v) : (u \o v)[k] = IF k <= Len(u) THEN u[k] ELSE v[k - Len(u)]
    BY <2>2
  <2>4. Len(t) = Len(s) - 1
    BY <1>1, <2>1, <2>2, <2>3
  <2>5. ASSUME NEW k \in 1..Len(s) - 1 PROVE t[k] = s[IF k < i THEN k ELSE k + 1]
    <3>1. CASE k < i
      BY <1>1, <1>2, <2>1, <2>2, <2>3, <3>1 DEF u
    <3>2. CASE k >= i
      <4>1. t[k] = v[k - (i - 1)]
        BY <1>1, <2>1, <2>2, <2>3, <3>2
      <4>2. k - (i - 1) \in 1..Len(s) - i /\ (k - (i - 1)) + i = k + 1
        BY <1>1, <3>2
      <4>3. v[k - (i - 1)] = s[k + 1]
        BY <1>3, <4>2 DEF v
      <4> QED  BY <1>1, <3>2, <4>1, <4>3
    <3> QED  BY <1>1, <3>1, <3>2
  <2> QED  BY <2>1, <2>3, <2>4, <2>5
<1> HIDE DEF t
<1>5. DOMAIN t = 1..Len(s) - 1
  BY <1>4
<1>6. Elems(t) \subseteq Elems(s)
  BY <1>1, <1>4, <1>5 DEF Elems
<1>7. ASSUME Distinct(s) PROVE Distinct(t) /\ s[i] \notin Elems(t)
  <2>1. Distinct(t)
    <3> SUFFICES ASSUME NEW a \in 1..Len(s) - 1, NEW b \in 1..Len(s) - 1, t[a] = t[b]
                 PROVE  a = b
      BY <1>5 DEF Distinct
    <3> DEFINE g(k) == IF k < i THEN k ELSE k + 1
    <3>1. g(a) \in 1..Len(s) /\ g(b) \in 1..Len(s)
      BY <1>1
    <3>2. s[g(a)] = s[g(b)]
      BY <1>4
    <3>3. g(a) = g(b)
      BY <1>1, <1>7, <3>1, <3>2 DEF Distinct
    <3> QED  BY <1>1, <3>3
  <2>2. s[i] \notin Elems(t)
    BY <1>1, <1>4, <1>5, <1>7 DEF Distinct, Elems
  <2> QED  BY <2>1, <2>2
<1> QED  BY <1>4, <1>6, <1>7 DEF t

\* The first of them is one, and the others are the rest.
LEMMA Rest ==
    ASSUME NEW S, NEW s \in Seq(S), s # <<>>
    PROVE  /\ Tail(s) \in Seq(S) /\ s[1] \in S /\ s[1] \in Elems(s)
           /\ Elems(Tail(s)) \subseteq Elems(s)
           /\ Distinct(s) => Distinct(Tail(s)) /\ s[1] \notin Elems(Tail(s))
<1>1. /\ Tail(s) \in Seq(S) /\ Len(s) \in Nat \ {0} /\ DOMAIN s = 1..Len(s)
      /\ DOMAIN Tail(s) = 1..Len(s) - 1 /\ \A k \in 1..Len(s) - 1 : Tail(s)[k] = s[k + 1]
      /\ s[1] \in S
  OBVIOUS
<1> DEFINE t == Tail(s)
<1> HIDE DEF t
<1>2. DOMAIN t = 1..Len(s) - 1 /\ \A k \in 1..Len(s) - 1 : t[k] = s[k + 1]
  BY <1>1 DEF t
<1>3. s[1] \in Elems(s) /\ Elems(t) \subseteq Elems(s)
  BY <1>1, <1>2 DEF Elems
<1>4. ASSUME Distinct(s) PROVE Distinct(t) /\ s[1] \notin Elems(t)
  <2>1. Distinct(t)
    BY <1>1, <1>2, <1>4 DEF Distinct
  <2>2. s[1] \notin Elems(t)
    BY <1>1, <1>2, <1>4 DEF Distinct, Elems
  <2> QED  BY <2>1, <2>2
<1> QED  BY <1>1, <1>3, <1>4 DEF t

-----------------------------------------------------------------------------
(* The invariant is inductive                                               *)

\* The queue that has just been started satisfies the invariant.
LEMMA InitWInv == Init => WInv
<1> SUFFICES ASSUME Init PROVE WInv
  OBVIOUS
<1>1. WType
  <2>1. /\ kind \in [Job -> STRING]
        /\ status \in [Job -> Shown] /\ real \in [Job -> States] /\ seen \in [Job -> Shown]
    BY PlanAssumption DEF Init, Shown, States
  <2>2. lane \in [Lanes -> Seq(Job)]
    BY DEF Init, NoLanes
  <2>3. worker \in [up : BOOLEAN, lane : [Remote -> Seq(Job)], sub : SUBSET Job]
    <3>1. Idle \in [Remote -> Seq(Job)]
      BY DEF Idle
    <3> QED  BY <3>1 DEF Init
  <2>4. inbox \in [DOMAIN inbox -> SUBSET Job] /\ DOMAIN inbox \subseteq Job \cup {Page}
    BY DEF Init
  <2>5. pool \in [tasks : Int, pills : Nat, leaving : Nat, target : Int]
    BY SizeAssumption DEF Init
  <2>6. messages \in Seq([job : Job, state : Shown \ {"none"}]) /\ requests \in Seq(Job)
        /\ parallel \in SUBSET Job /\ putting \in SUBSET Job
    BY DEF Init
  <2> QED  BY <2>1, <2>2, <2>3, <2>4, <2>5, <2>6 DEF WType
<1>2. AwaitsRemote
  BY PlanAssumption DEF Init, AwaitsRemote
<1>3. \A l \in Lanes : lane[l] = <<>>
  BY DEF Init, NoLanes
<1>4. \A l \in Remote : worker.lane[l] = <<>>
  BY DEF Init, Idle, Remote
<1>5. Elems(<<>>) = {} /\ Distinct(<<>>)
  BY DEF Elems, Distinct
<1>6. LocalPlaces /\ RemotePlaces
  BY <1>3, <1>4, <1>5 DEF Init, LocalPlaces, RemotePlaces
<1>7. StatusRight /\ MessagesRight /\ Reported /\ SeenBehind
  BY Ranks DEF Init, StatusRight, MessagesRight, Reported, SeenBehind, Ended
<1>8. Waiting /\ PageFollows
  BY DEF Init, Waiting, PageFollows
<1>9. PoolFits
  BY SizeAssumption DEF Init, PoolFits
<1> QED  BY <1>1, <1>2, <1>6, <1>7, <1>8, <1>9 DEF WInv

\* What a message carries.
LEMMA MessageType ==
    ASSUME WInv
    PROVE  \A i \in DOMAIN messages : messages[i].job \in Job /\ messages[i].state \in Shown \ {"none"}
<1> DEFINE R == [job : Job, state : Shown \ {"none"}]
<1>1. messages \in Seq(R)
  BY DEF WInv, WType
<1> HIDE DEF R
<1>2. \A i \in DOMAIN messages : messages[i] \in R
  BY <1>1
<1> QED  BY <1>2 DEF R

\* What waits in the API process stays as it is while only remote jobs, and jobs that run,
\* go on.
LEMMA LocalSame ==
    ASSUME WInv, UNCHANGED <<kind, lane, parallel>>,
           \A j \in Job : kind[j] \notin Remote /\ status[j] = "queued"
                            => status'[j] = status[j] /\ real'[j] = real[j]
    PROVE  LocalPlaces'
<1>1. \A l \in Lanes : Elems(lane[l]) \subseteq Job
  BY DEF WInv, WType, Elems
<1>2. parallel \subseteq Job /\ "download" \notin Remote
  BY DEF WInv, WType, Remote
<1> QED  BY <1>1, <1>2 DEF WInv, LocalPlaces

\* The page is told of a status that changes.
LEMMA PageTold ==
    ASSUME WInv, NEW j \in Job, NEW p \in Shown \ {"none"},
           status' = [status EXCEPT ![j] = p], seen' = seen,
           Page \in DOMAIN inbox' => Page \in DOMAIN inbox /\ inbox'[Page] = inbox[Page] \cup {j}
    PROVE  PageFollows'
<1> SUFFICES ASSUME Page \in DOMAIN inbox'
             PROVE  /\ \A i \in inbox'[Page] : status'[i] # "none"
                    /\ \A i \in Job \ inbox'[Page] :
                          status'[i] \in {"none", seen[i]} \/ (seen[i] = "none" /\ status'[i] \in Ended)
  BY DEF PageFollows
<1>1. status'[j] = p /\ \A i \in Job \ {j} : status'[i] = status[i]
  BY DEF WInv, WType
<1>2. inbox[Page] \subseteq Job
  BY DEF WInv, WType
<1> QED  BY <1>1, <1>2 DEF WInv, PageFollows

\* A job of the API process goes on.
LEMMA LocalMove ==
    ASSUME WInv, NEW j \in Job, kind[j] \notin Remote,
           NEW p \in Shown, Rank(real[j]) < Rank(p), Rank(status[j]) < Rank(p),
           status' = [status EXCEPT ![j] = p], real' = [real EXCEPT ![j] = p],
           UNCHANGED <<kind, putting, requests, messages, worker, seen>>
    PROVE  RemotePlaces' /\ StatusRight' /\ MessagesRight' /\ Reported' /\ SeenBehind'
<1>1. /\ status'[j] = p /\ real'[j] = p
      /\ \A i \in Job \ {j} : status'[i] = status[i] /\ real'[i] = real[i]
      /\ \A i \in Job : kind[i] \in Remote => status'[i] = status[i] /\ real'[i] = real[i]
  BY DEF WInv, WType
<1>2. RemotePlaces'
  <2>1. putting \subseteq Job /\ Elems(requests) \subseteq Job
    BY DEF WInv, WType, Elems
  <2>2. \A l \in Remote : Elems(worker.lane[l]) \subseteq Job
    BY DEF WInv, WType, Elems
  <2> QED  BY <1>1, <2>1, <2>2 DEF WInv, RemotePlaces
<1>3. StatusRight'
  <2>1. Rank(p) <= Rank(p)
    BY Ranks DEF Shown
  <2> QED  BY <1>1, <2>1 DEF WInv, StatusRight
<1>4. MessagesRight'
  <2>1. \A i \in DOMAIN messages : messages[i].job \in Job
    BY MessageType
  <2> QED  BY <1>1, <2>1 DEF WInv, MessagesRight
<1>5. Reported'
  <2>1. worker.sub \subseteq Job
    BY DEF WInv, WType
  <2> QED  BY <1>1, <2>1 DEF WInv, Reported
<1>6. SeenBehind'
  <2>1. Rank(seen[j]) <= Rank(p)
    <3>1. Rank(seen[j]) \in 0..3 /\ Rank(real[j]) \in 0..3 /\ Rank(p) \in 0..3
      BY Ranks DEF WInv, WType, States
    <3> QED  BY <3>1 DEF WInv, SeenBehind
  <2> QED  BY <1>1, <2>1 DEF WInv, SeenBehind
<1> QED  BY <1>2, <1>3, <1>4, <1>5, <1>6

\* A job that nobody has enqueued is nowhere.
LEMMA NoJobYet ==
    ASSUME WInv, NEW j \in Job, real[j] = "none"
    PROVE  /\ status[j] = "none" /\ seen[j] = "none"
           /\ j \notin putting /\ j \notin Elems(requests) /\ j \notin worker.sub /\ j \notin DOMAIN inbox
           /\ \A l \in Remote : j \notin Elems(worker.lane[l])
           /\ \A l \in Lanes : j \notin Elems(lane[l])
           /\ \A i \in DOMAIN messages : messages[i].job # j
<1>1. /\ Rank(status[j]) <= 0 /\ Rank(status[j]) \in 0..3
      /\ Rank(seen[j]) <= 0 /\ Rank(seen[j]) \in 0..3
  BY Ranks DEF WInv, StatusRight, SeenBehind, WType, States
<1>2. status[j] = "none" /\ seen[j] = "none"
  BY <1>1, Ranks DEF WInv, WType
<1>3. \A i \in DOMAIN messages : messages[i].job # j
  <2> SUFFICES ASSUME NEW i \in DOMAIN messages, messages[i].job = j PROVE FALSE
    OBVIOUS
  <2>1. messages[i].state \in Shown \ {"none"} /\ Rank(messages[i].state) <= Rank(real[j])
    BY MessageType DEF WInv, MessagesRight
  <2>2. Rank(messages[i].state) \in 0..3 /\ Rank(messages[i].state) # 0
    BY <2>1, Ranks DEF States
  <2> QED  BY <2>1, <2>2, Ranks
<1>4. j \notin DOMAIN inbox
  BY <1>2, PlanAssumption DEF WInv, WType, Waiting
<1> QED  BY <1>2, <1>3, <1>4 DEF WInv, LocalPlaces, RemotePlaces, Reported

\* A job is put into the request queue, whoever asked for it.
LEMMA RemoteQueued ==
    ASSUME WInv, NEW j \in Job, kind[j] \in Remote, real[j] = "none",
           status' = [status EXCEPT ![j] = "queued"], real' = [real EXCEPT ![j] = "queued"],
           putting' = putting \cup {j},
           UNCHANGED <<kind, lane, parallel, requests, messages, worker, seen>>
    PROVE  LocalPlaces' /\ RemotePlaces' /\ StatusRight' /\ MessagesRight' /\ Reported' /\ SeenBehind'
<1>1. /\ status'[j] = "queued" /\ real'[j] = "queued"
      /\ \A i \in Job \ {j} : status'[i] = status[i] /\ real'[i] = real[i]
  BY DEF WInv, WType
<1>2. /\ seen[j] = "none" /\ j \notin Elems(requests) /\ j \notin worker.sub
      /\ \A l \in Remote : j \notin Elems(worker.lane[l])
      /\ \A i \in DOMAIN messages : messages[i].job # j
  BY NoJobYet
<1>3. LocalPlaces'
  BY <1>1, LocalSame
<1>4. RemotePlaces'
  <2>1. putting \subseteq Job /\ Elems(requests) \subseteq Job \ {j}
    BY <1>2 DEF WInv, WType, Elems
  <2>2. \A l \in Remote : Elems(worker.lane[l]) \subseteq Job \ {j}
    BY <1>2 DEF WInv, WType, Elems
  <2> QED  BY <1>1, <1>2, <2>1, <2>2 DEF WInv, RemotePlaces
<1>5. StatusRight'
  BY <1>1, Ranks DEF WInv, StatusRight, Ended
<1>6. MessagesRight'
  <2>1. \A i \in DOMAIN messages : messages[i].job \in Job \ {j}
    BY <1>2, MessageType
  <2> QED  BY <1>1, <2>1 DEF WInv, MessagesRight
<1>7. Reported'
  <2>1. worker.sub \subseteq Job \ {j}
    BY <1>2 DEF WInv, WType
  <2> QED  BY <1>1, <2>1 DEF WInv, Reported
<1>8. SeenBehind'
  BY <1>1, <1>2, Ranks DEF WInv, SeenBehind
<1> QED  BY <1>3, <1>4, <1>5, <1>6, <1>7, <1>8

-----------------------------------------------------------------------------
(* One lemma for each step of the API process                               *)

\* A job is enqueued, here or for the worker process.
LEMMA EnqueueStep ==
    ASSUME WInv, NEW j \in Job, Enqueue(j) \/ EnqueueRemote(j)
    PROVE  WInv'
<1>1. /\ real[j] = "none" /\ kind' = kind /\ seen' = seen /\ pool' = pool
      /\ requests' = requests /\ messages' = messages /\ worker' = worker
      /\ status' = [status EXCEPT ![j] = "queued"] /\ real' = [real EXCEPT ![j] = "queued"]
      /\ inbox' = Notified(inbox, j)
  BY DEF Enqueue, EnqueueRemote, Update, ipc
<1>2. /\ status'[j] = "queued" /\ real'[j] = "queued"
      /\ \A i \in Job \ {j} : status'[i] = status[i] /\ real'[i] = real[i]
  BY <1>1 DEF WInv, WType
<1>3. /\ status[j] = "none" /\ j \notin DOMAIN inbox /\ j \notin putting
      /\ \A l \in Lanes : j \notin Elems(lane[l])
  BY <1>1, NoJobYet
<1>4. DOMAIN inbox' = DOMAIN inbox /\ \A s \in DOMAIN inbox : inbox'[s] = inbox[s] \cup {j}
  BY <1>1 DEF Notified
<1>5. Waiting'
  <2>1. \A i \in DOMAIN inbox \ {Page} : i \in Job /\ i # j
    BY <1>3 DEF WInv, WType
  <2> QED  BY <1>1, <1>2, <1>4, <2>1 DEF WInv, Waiting
<1>6. PageFollows'
  BY <1>1, <1>4, PageTold DEF Shown
<1>7. /\ status' \in [Job -> Shown] /\ real' \in [Job -> States]
      /\ inbox' \in [DOMAIN inbox' -> SUBSET Job] /\ DOMAIN inbox' \subseteq Job \cup {Page}
  BY <1>1, <1>4 DEF WInv, WType, Shown, States, Notified
<1>8. CASE Enqueue(j)
  <2>1. kind[j] \notin Remote /\ putting' = putting
    BY <1>8 DEF Enqueue
  <2>2. Rank(real[j]) < Rank("queued") /\ Rank(status[j]) < Rank("queued")
    BY <1>1, <1>3, Ranks
  <2>3. RemotePlaces' /\ StatusRight' /\ MessagesRight' /\ Reported' /\ SeenBehind'
    BY <1>1, <2>1, <2>2, LocalMove DEF Shown
  <2>4. WType' /\ LocalPlaces'
    <3>1. CASE kind[j] = "download"
      <4>1. parallel' = parallel \cup {j} /\ lane' = lane
        BY <1>8, <3>1 DEF Enqueue
      <4>2. LocalPlaces'
        <5>1. \A l \in Lanes : Elems(lane[l]) \subseteq Job \ {j}
          BY <1>3 DEF WInv, WType, Elems
        <5>2. parallel \subseteq Job
          BY DEF WInv, WType
        <5> QED  BY <1>1, <1>2, <3>1, <4>1, <5>1, <5>2 DEF WInv, LocalPlaces
      <4> QED  BY <1>1, <1>7, <2>1, <4>1, <4>2 DEF WInv, WType
    <3>2. CASE kind[j] # "download"
      <4> DEFINE m == Lane(kind[j])
      <4>1. parallel' = parallel /\ lane' = [lane EXCEPT ![m] = Append(@, j)]
        BY <1>8, <3>2 DEF Enqueue
      <4>2. m \in Lanes
        BY <2>1 DEF Lane, Lanes
      <4>3. /\ lane[m] \in Seq(Job) /\ lane'[m] = Append(lane[m], j)
            /\ \A l \in Lanes \ {m} : lane'[l] = lane[l]
        BY <4>1, <4>2 DEF WInv, WType
      <4>4. /\ Append(lane[m], j) \in Seq(Job) /\ Elems(Append(lane[m], j)) = Elems(lane[m]) \cup {j}
            /\ Distinct(Append(lane[m], j))
        <5>1. Distinct(lane[m]) /\ j \notin Elems(lane[m])
          BY <1>3, <4>2 DEF WInv, LocalPlaces
        <5> QED  BY <4>3, <5>1, Appended
      <4>5. LocalPlaces'
        <5>1. \A l \in Lanes : Elems(lane[l]) \subseteq Job \ {j}
          BY <1>3 DEF WInv, WType, Elems
        <5>2. parallel \subseteq Job \ {j}
          BY <3>2 DEF WInv, WType, LocalPlaces
        <5>3. ASSUME NEW l \in Lanes
              PROVE  /\ Distinct(lane'[l])
                     /\ \A i \in Elems(lane'[l]) :
                           /\ status'[i] = "queued" /\ real'[i] = "queued"
                           /\ kind[i] \notin Remote \cup {"download"} /\ Lane(kind[i]) = l
          <6>1. CASE l = m
            BY <1>2, <2>1, <3>2, <4>3, <4>4, <5>1, <6>1 DEF WInv, LocalPlaces
          <6>2. CASE l # m
            BY <1>2, <4>3, <5>1, <6>2 DEF WInv, LocalPlaces
          <6> QED  BY <6>1, <6>2
        <5>4. \A i \in parallel : status'[i] = "queued" /\ real'[i] = "queued" /\ kind[i] = "download"
          BY <1>2, <5>2 DEF WInv, LocalPlaces
        <5> QED  BY <1>1, <4>1, <5>3, <5>4 DEF LocalPlaces
      <4>6. lane' \in [Lanes -> Seq(Job)]
        BY <4>1, <4>3, <4>4 DEF WInv, WType
      <4> QED  BY <1>1, <1>7, <2>1, <4>1, <4>5, <4>6 DEF WInv, WType
    <3> QED  BY <3>1, <3>2
  <2> QED  BY <1>1, <1>5, <1>6, <2>3, <2>4 DEF WInv, AwaitsRemote, PoolFits
<1>9. CASE EnqueueRemote(j)
  <2>1. kind[j] \in Remote /\ putting' = putting \cup {j} /\ lane' = lane /\ parallel' = parallel
    BY <1>9 DEF EnqueueRemote
  <2>2. LocalPlaces' /\ RemotePlaces' /\ StatusRight' /\ MessagesRight' /\ Reported' /\ SeenBehind'
    BY <1>1, <2>1, RemoteQueued
  <2>3. WType'
    BY <1>1, <1>7, <2>1 DEF WInv, WType
  <2> QED  BY <1>1, <1>5, <1>6, <2>2, <2>3 DEF WInv, AwaitsRemote, PoolFits
<1> QED  BY <1>8, <1>9

\* A job of the API process that waits starts, or one that runs ends: what the two have in
\* common.
LEMMA LocalUpdate ==
    ASSUME WInv, NEW j \in Job, kind[j] \notin Remote,
           NEW p, Update(j, p),
           \/ status[j] = "queued" /\ real[j] = "queued" /\ p = "running"
           \/ status[j] = "running" /\ kind[j] # "rerun" /\ p \in Ended,
           UNCHANGED <<kind, putting, ipc, seen, pool>>
    PROVE  /\ AwaitsRemote' /\ RemotePlaces' /\ StatusRight' /\ MessagesRight' /\ Reported'
           /\ SeenBehind' /\ Waiting' /\ PageFollows' /\ PoolFits'
           /\ status' \in [Job -> Shown] /\ real' \in [Job -> States]
           /\ inbox' \in [DOMAIN inbox' -> SUBSET Job] /\ DOMAIN inbox' \subseteq Job \cup {Page}
           /\ status'[j] = p /\ real'[j] = p
           /\ \A i \in Job \ {j} : status'[i] = status[i] /\ real'[i] = real[i]
<1>1. /\ status' = [status EXCEPT ![j] = p] /\ real' = [real EXCEPT ![j] = p]
      /\ inbox' = Notified(inbox, j) /\ p \in Shown \ {"none"}
  BY DEF Update, Shown, Ended
<1>2. /\ status'[j] = p /\ real'[j] = p
      /\ \A i \in Job \ {j} : status'[i] = status[i] /\ real'[i] = real[i]
      /\ status' \in [Job -> Shown] /\ real' \in [Job -> States]
  BY <1>1 DEF WInv, WType, States
<1>3. DOMAIN inbox' = DOMAIN inbox /\ \A s \in DOMAIN inbox : inbox'[s] = inbox[s] \cup {j}
  BY <1>1 DEF Notified
<1>4. Rank(real[j]) < Rank(p) /\ Rank(status[j]) < Rank(p)
  <2>1. status[j] = "running" => real[j] = "running"
    BY DEF WInv, StatusRight
  <2> QED  BY <2>1, Ranks DEF Ended
<1>5. RemotePlaces' /\ StatusRight' /\ MessagesRight' /\ Reported' /\ SeenBehind'
  BY <1>1, <1>4, LocalMove DEF ipc
<1>6. PageFollows'
  BY <1>1, <1>3, PageTold
<1>7. Waiting'
  <2>1. \A i \in DOMAIN inbox \ {Page} : i \in Job /\ i # j
    BY DEF WInv, WType, Waiting
  <2> QED  BY <1>2, <1>3, <2>1 DEF WInv, Waiting
<1>8. inbox' \in [DOMAIN inbox' -> SUBSET Job] /\ DOMAIN inbox' \subseteq Job \cup {Page}
  BY <1>1, <1>3 DEF WInv, WType, Notified
<1>9. AwaitsRemote' /\ PoolFits'
  BY DEF WInv, AwaitsRemote, PoolFits
<1> QED  BY <1>2, <1>5, <1>6, <1>7, <1>8, <1>9

\* The worker of a lane takes a job.
LEMMA StartStep ==
    ASSUME WInv, NEW l \in Lanes, Start(l)
    PROVE  WInv'
<1>1. PICK n \in First(l) : Update(lane[l][n], "running") /\ lane' = [lane EXCEPT ![l] = RemoveAt(@, n)]
  BY DEF Start
<1> DEFINE s == lane[l]
           j == s[n]
<1>2. s \in Seq(Job) /\ s # <<>> /\ n \in DOMAIN s
  <2>1. s \in Seq(Job) /\ s # <<>>
    BY DEF WInv, WType, Start
  <2>2. 1 \in DOMAIN s
    BY <2>1
  <2> QED  BY <1>1, <2>1, <2>2 DEF First
<1>3. j \in Job /\ j \in Elems(s)
  BY <1>2 DEF Elems
<1>4. /\ status[j] = "queued" /\ real[j] = "queued" /\ kind[j] \notin Remote \cup {"download"}
      /\ Distinct(s) /\ Lane(kind[j]) = l
  BY <1>3 DEF WInv, LocalPlaces
<1>5. /\ UNCHANGED <<kind, putting, ipc, seen, pool>> /\ parallel' = parallel
  BY DEF Start
<1> DEFINE p == "running"
<1>6. /\ AwaitsRemote' /\ RemotePlaces' /\ StatusRight' /\ MessagesRight' /\ Reported'
      /\ SeenBehind' /\ Waiting' /\ PageFollows' /\ PoolFits'
      /\ status' \in [Job -> Shown] /\ real' \in [Job -> States]
      /\ inbox' \in [DOMAIN inbox' -> SUBSET Job] /\ DOMAIN inbox' \subseteq Job \cup {Page}
      /\ status'[j] = p /\ real'[j] = p
      /\ \A i \in Job \ {j} : status'[i] = status[i] /\ real'[i] = real[i]
  <2>1. Update(j, p)
    BY <1>1
  <2>2. p = "running"
    OBVIOUS
  <2> HIDE DEF j, p
  <2> QED  BY <1>3, <1>4, <1>5, <2>1, <2>2, LocalUpdate
<1>7. /\ RemoveAt(s, n) \in Seq(Job) /\ Elems(RemoveAt(s, n)) \subseteq Elems(s)
      /\ Distinct(RemoveAt(s, n)) /\ j \notin Elems(RemoveAt(s, n))
  BY <1>2, <1>4, Removed
<1>8. lane'[l] = RemoveAt(s, n) /\ \A k \in Lanes \ {l} : lane'[k] = lane[k]
  BY <1>1 DEF WInv, WType
<1>9. lane' \in [Lanes -> Seq(Job)]
  BY <1>1, <1>7, <1>8 DEF WInv, WType
<1>10. LocalPlaces'
  <2> HIDE DEF s, j
  <2>1. \A k \in Lanes : Elems(lane[k]) \subseteq Job
    BY DEF WInv, WType, Elems
  <2>2. parallel \subseteq Job \ {j}
    BY <1>4 DEF WInv, WType, LocalPlaces
  <2>3. ASSUME NEW k \in Lanes
        PROVE  /\ Distinct(lane'[k])
               /\ \A i \in Elems(lane'[k]) :
                     /\ status'[i] = "queued" /\ real'[i] = "queued"
                     /\ kind[i] \notin Remote \cup {"download"} /\ Lane(kind[i]) = k
    <3>1. CASE k = l
      BY <1>6, <1>7, <1>8, <2>1, <3>1 DEF WInv, LocalPlaces, s
    <3>2. CASE k # l
      <4>1. \A i \in Elems(lane[k]) : i # j
        BY <1>4, <3>2 DEF WInv, LocalPlaces
      <4> QED  BY <1>6, <1>8, <2>1, <3>2, <4>1 DEF WInv, LocalPlaces
    <3> QED  BY <3>1, <3>2
  <2>4. \A i \in parallel : status'[i] = "queued" /\ real'[i] = "queued" /\ kind[i] = "download"
    BY <1>6, <2>2 DEF WInv, LocalPlaces
  <2> QED  BY <1>5, <2>3, <2>4 DEF LocalPlaces
<1>11. WType'
  <2>1. kind' \in [Job -> STRING] /\ seen' \in [Job -> Shown]
    BY <1>5 DEF WInv, WType
  <2> QED  BY <1>5, <1>6, <1>9, <2>1 DEF WInv, WType, ipc
<1> QED  BY <1>6, <1>10, <1>11 DEF WInv

\* The task of a download starts.
LEMMA StartParallelStep ==
    ASSUME WInv, NEW j \in Job, StartParallel(j)
    PROVE  WInv'
<1> DEFINE p == "running"
<1>1. /\ j \in parallel /\ Update(j, p) /\ parallel' = parallel \ {j} /\ lane' = lane
      /\ UNCHANGED <<kind, putting, ipc, seen, pool>>
  BY DEF StartParallel
<1>2. status[j] = "queued" /\ real[j] = "queued" /\ kind[j] = "download" /\ kind[j] \notin Remote
  BY <1>1 DEF WInv, LocalPlaces, Remote
<1>3. p = "running"
  OBVIOUS
<1> HIDE DEF p
<1>4. /\ AwaitsRemote' /\ RemotePlaces' /\ StatusRight' /\ MessagesRight' /\ Reported'
      /\ SeenBehind' /\ Waiting' /\ PageFollows' /\ PoolFits'
      /\ status' \in [Job -> Shown] /\ real' \in [Job -> States]
      /\ inbox' \in [DOMAIN inbox' -> SUBSET Job] /\ DOMAIN inbox' \subseteq Job \cup {Page}
      /\ status'[j] = p /\ real'[j] = p
      /\ \A i \in Job \ {j} : status'[i] = status[i] /\ real'[i] = real[i]
  BY <1>1, <1>2, <1>3, LocalUpdate
<1>5. LocalPlaces'
  <2>1. \A l \in Lanes : Elems(lane[l]) \subseteq Job \ {j}
    BY <1>2 DEF WInv, WType, LocalPlaces, Elems
  <2>2. parallel \subseteq Job
    BY DEF WInv, WType
  <2> QED  BY <1>1, <1>4, <2>1, <2>2 DEF WInv, LocalPlaces
<1>6. WType'
  BY <1>1, <1>4 DEF WInv, WType, ipc
<1> QED  BY <1>4, <1>5, <1>6 DEF WInv

\* A job of the API process ends.
LEMMA FinishStep ==
    ASSUME WInv, NEW j \in Job, NEW p \in Ended, Finish(j, p)
    PROVE  WInv'
<1>1. /\ status[j] = "running" /\ kind[j] \notin Remote /\ kind[j] # "rerun" /\ Update(j, p)
      /\ UNCHANGED <<kind, putting, ipc, seen, pool>> /\ lane' = lane /\ parallel' = parallel
  BY DEF Finish, api
<1>2. /\ AwaitsRemote' /\ RemotePlaces' /\ StatusRight' /\ MessagesRight' /\ Reported'
      /\ SeenBehind' /\ Waiting' /\ PageFollows' /\ PoolFits'
      /\ status' \in [Job -> Shown] /\ real' \in [Job -> States]
      /\ inbox' \in [DOMAIN inbox' -> SUBSET Job] /\ DOMAIN inbox' \subseteq Job \cup {Page}
      /\ status'[j] = p /\ real'[j] = p
      /\ \A i \in Job \ {j} : status'[i] = status[i] /\ real'[i] = real[i]
  BY <1>1, LocalUpdate
<1>3. LocalPlaces'
  BY <1>1, <1>2, LocalSame
<1>4. WType'
  BY <1>1, <1>2 DEF WInv, WType, ipc
<1> QED  BY <1>2, <1>3, <1>4 DEF WInv

\* A thread puts a job into the request queue.
LEMMA PutStep ==
    ASSUME WInv, NEW j \in Job, Put(j)
    PROVE  WInv'
<1>1. /\ j \in putting /\ putting' = putting \ {j} /\ requests' = Append(requests, j)
      /\ UNCHANGED <<kind, status, real, lane, parallel, messages, worker, inbox, seen, pool>>
  BY DEF Put
<1>2. requests \in Seq(Job) /\ j \notin Elems(requests) /\ Distinct(requests)
      /\ kind[j] \in Remote /\ real[j] = "queued"
  BY <1>1 DEF WInv, WType, RemotePlaces
<1>3. /\ requests' \in Seq(Job) /\ Elems(requests') = Elems(requests) \cup {j} /\ Distinct(requests')
  BY <1>1, <1>2, Appended
<1>4. RemotePlaces'
  BY <1>1, <1>2, <1>3 DEF WInv, RemotePlaces
<1>5. WType'
  BY <1>1, <1>3 DEF WInv, WType
<1>6. /\ AwaitsRemote' /\ LocalPlaces' /\ StatusRight' /\ MessagesRight' /\ Reported'
      /\ SeenBehind' /\ Waiting' /\ PageFollows' /\ PoolFits'
  BY <1>1 DEF WInv, AwaitsRemote, LocalPlaces, StatusRight, MessagesRight, Reported, SeenBehind,
              Waiting, PageFollows, PoolFits
<1> QED  BY <1>4, <1>5, <1>6 DEF WInv

\* A rerun subscribes and enqueues its remote job.
LEMMA SendAndWaitStep ==
    ASSUME WInv, NEW j \in DOMAIN Awaits, SendAndWait(j)
    PROVE  WInv'
<1> DEFINE r == Awaits[j]
<1>1. /\ status[j] = "running" /\ kind[j] = "rerun" /\ real[r] = "none"
      /\ status' = [status EXCEPT ![r] = "queued"] /\ real' = [real EXCEPT ![r] = "queued"]
      /\ inbox' = Notified(Subscribed(inbox, j, {}), r)
      /\ putting' = putting \cup {r}
      /\ UNCHANGED <<kind, lane, parallel, requests, messages, worker, seen, pool>>
  BY DEF SendAndWait, ipc
<1>2. j \in Job /\ r \in Job /\ kind[r] \in Remote /\ j # Page
  BY <1>1, PlanAssumption DEF WInv, AwaitsRemote
<1> HIDE DEF r
<1>3. /\ LocalPlaces' /\ RemotePlaces' /\ StatusRight' /\ MessagesRight' /\ Reported' /\ SeenBehind'
  BY <1>1, <1>2, RemoteQueued
<1>4. j # r
  BY <1>1, <1>2, NoJobYet
<1>5. /\ DOMAIN inbox' = DOMAIN inbox \cup {j}
      /\ \A s \in DOMAIN inbox \ {j} : inbox'[s] = inbox[s] \cup {r}
      /\ inbox'[j] = {r}
  BY <1>1 DEF Notified, Subscribed
<1>6. PageFollows'
  <2>1. Page \in DOMAIN inbox' => Page \in DOMAIN inbox /\ inbox'[Page] = inbox[Page] \cup {r}
    BY <1>2, <1>5
  <2> QED  BY <1>1, <1>2, <2>1, PageTold DEF Shown
<1>7. Waiting'
  <2>1. \A i \in DOMAIN inbox \ {Page} : i \in Job /\ status[i] = "running"
    BY DEF WInv, WType, Waiting
  <2>2. status[r] = "none"
    BY <1>1, <1>2, NoJobYet
  <2>3. \A i \in Job \ {r} : status'[i] = status[i]
    BY <1>1 DEF WInv, WType
  <2> QED  BY <1>1, <1>2, <1>4, <1>5, <2>1, <2>2, <2>3 DEF WInv, Waiting
<1>8. WType'
  <2>1. inbox' \in [DOMAIN inbox' -> SUBSET Job] /\ DOMAIN inbox' \subseteq Job \cup {Page}
    <3>1. inbox' = [s \in DOMAIN inbox' |-> inbox'[s]]
      BY <1>1 DEF Notified
    <3>2. \A s \in DOMAIN inbox' : inbox'[s] \in SUBSET Job
      BY <1>2, <1>5 DEF WInv, WType
    <3>3. DOMAIN inbox' \subseteq Job \cup {Page}
      BY <1>2, <1>5 DEF WInv, WType
    <3> QED  BY <3>1, <3>2, <3>3
  <2>2. status' \in [Job -> Shown] /\ real' \in [Job -> States]
    BY <1>1 DEF WInv, WType, Shown, States
  <2> QED  BY <1>1, <1>2, <2>1, <2>2 DEF WInv, WType
<1>9. AwaitsRemote' /\ PoolFits'
  BY <1>1 DEF WInv, AwaitsRemote, PoolFits
<1> QED  BY <1>3, <1>6, <1>7, <1>8, <1>9 DEF WInv

\* A rerun takes its updates out of its queue, and ends with its remote job.
LEMMA HearStep ==
    ASSUME WInv, NEW j \in DOMAIN Awaits, Hear(j)
    PROVE  WInv'
<1> DEFINE r == Awaits[j]
           p == status[r]
<1>1. /\ j \in DOMAIN inbox /\ j # Page /\ j \in Job
      /\ UNCHANGED <<kind, lane, parallel, putting, requests, messages, worker, seen, pool>>
  BY PlanAssumption DEF Hear, api, ipc
<1>2. kind[j] = "rerun" /\ kind[j] \notin Remote /\ status[j] = "running" /\ real[j] = "running"
  BY <1>1 DEF WInv, Waiting, StatusRight, Remote
<1>3. CASE r \in inbox[j] /\ p \in Ended
  <2>1. /\ status' = [status EXCEPT ![j] = p] /\ real' = [real EXCEPT ![j] = p]
        /\ inbox' = Notified([s \in DOMAIN inbox \ {j} |-> inbox[s]], j)
    BY <1>3 DEF Hear
  <2>2. p \in Shown \ {"none"} /\ p \in Ended
    BY <1>3 DEF Shown, Ended
  <2> HIDE DEF p
  <2>3. Rank(real[j]) < Rank(p) /\ Rank(status[j]) < Rank(p)
    BY <1>2, <2>2, Ranks DEF Ended
  <2>4. RemotePlaces' /\ StatusRight' /\ MessagesRight' /\ Reported' /\ SeenBehind'
    BY <1>1, <1>2, <2>1, <2>2, <2>3, LocalMove
  <2>5. /\ DOMAIN inbox' = DOMAIN inbox \ {j}
        /\ \A s \in DOMAIN inbox \ {j} : inbox'[s] = inbox[s] \cup {j}
    BY <2>1 DEF Notified
  <2>6. PageFollows'
    BY <1>1, <2>1, <2>2, <2>5, PageTold
  <2>7. /\ status' \in [Job -> Shown] /\ real' \in [Job -> States]
        /\ \A i \in Job \ {j} : status'[i] = status[i] /\ real'[i] = real[i]
    BY <2>1, <2>2 DEF WInv, WType, States
  <2>8. LocalPlaces'
    BY <1>1, <1>2, <2>7, LocalSame
  <2>9. Waiting'
    <3>1. \A i \in DOMAIN inbox \ {Page} : i \in Job
      BY DEF WInv, WType
    <3> QED  BY <1>1, <2>5, <2>7, <3>1 DEF WInv, Waiting
  <2>10. WType'
    <3>1. inbox' = [s \in DOMAIN inbox' |-> inbox'[s]]
      BY <2>1 DEF Notified
    <3>2. \A s \in DOMAIN inbox' : inbox'[s] \in SUBSET Job
      BY <1>1, <2>5 DEF WInv, WType
    <3>3. DOMAIN inbox' \subseteq Job \cup {Page}
      BY <2>5 DEF WInv, WType
    <3> QED  BY <1>1, <2>7, <3>1, <3>2, <3>3 DEF WInv, WType
  <2>11. AwaitsRemote' /\ PoolFits'
    BY <1>1 DEF WInv, AwaitsRemote, PoolFits
  <2> QED  BY <2>4, <2>6, <2>8, <2>9, <2>10, <2>11 DEF WInv
<1>4. CASE ~(r \in inbox[j] /\ p \in Ended)
  <2>1. inbox' = [inbox EXCEPT ![j] = {}] /\ UNCHANGED <<status, real>>
    BY <1>4 DEF Hear
  <2>2. DOMAIN inbox' = DOMAIN inbox /\ \A s \in DOMAIN inbox \ {j} : inbox'[s] = inbox[s]
    BY <2>1
  <2>3. Waiting' /\ PageFollows'
    BY <1>1, <2>1, <2>2 DEF WInv, Waiting, PageFollows
  <2>4. inbox' \in [DOMAIN inbox' -> SUBSET Job] /\ DOMAIN inbox' \subseteq Job \cup {Page}
    BY <1>1, <2>1, <2>2 DEF WInv, WType
  <2>5. WType'
    BY <1>1, <2>1, <2>4 DEF WInv, WType
  <2>6. /\ AwaitsRemote' /\ LocalPlaces' /\ RemotePlaces' /\ StatusRight' /\ MessagesRight' /\ Reported'
        /\ SeenBehind' /\ PoolFits'
    BY <1>1, <2>1 DEF WInv, AwaitsRemote, LocalPlaces, RemotePlaces, StatusRight, MessagesRight,
                      Reported, SeenBehind, PoolFits
  <2> QED  BY <2>3, <2>5, <2>6 DEF WInv
<1> QED  BY <1>3, <1>4

\* A message of the worker process becomes the status of its job.
LEMMA ForwardStep ==
    ASSUME WInv, Forward
    PROVE  WInv'
<1> DEFINE j == messages[1].job
           p == messages[1].state
<1>1. /\ messages # <<>> /\ messages' = Tail(messages)
      /\ UNCHANGED <<kind, real, lane, parallel, putting, requests, worker, seen, pool>>
  BY DEF Forward, api
<1>2. /\ messages' \in Seq([job : Job, state : Shown \ {"none"}]) /\ 1 \in DOMAIN messages
      /\ \A i \in DOMAIN messages' :
            /\ i + 1 \in DOMAIN messages /\ messages'[i] = messages[i + 1] /\ i >= 1 /\ i \in Int
  <2> DEFINE R == [job : Job, state : Shown \ {"none"}]
  <2>1. messages \in Seq(R)
    BY DEF WInv, WType
  <2> HIDE DEF R
  <2>2. messages' \in Seq(R) /\ 1 \in DOMAIN messages
        /\ \A i \in DOMAIN messages' :
              /\ i + 1 \in DOMAIN messages /\ messages'[i] = messages[i + 1] /\ i >= 1 /\ i \in Int
    BY <1>1, <2>1
  <2> QED  BY <2>2 DEF R
<1>3. j \in Job /\ p \in Shown \ {"none"} /\ \A i \in DOMAIN messages' : messages'[i].job \in Job
  BY <1>2, MessageType
<1>4. /\ kind[j] \in Remote /\ Rank(status[j]) <= Rank(p) /\ Rank(p) <= Rank(real[j])
      /\ p \in Ended => real[j] = p
  BY <1>2 DEF WInv, MessagesRight
<1>5. /\ \A i \in DOMAIN messages' :
            /\ kind[messages'[i].job] \in Remote
            /\ Rank(status[messages'[i].job]) <= Rank(messages'[i].state)
            /\ Rank(messages'[i].state) <= Rank(real[messages'[i].job])
            /\ messages'[i].state \in Ended => real[messages'[i].job] = messages'[i].state
            /\ messages'[i].job = j => Rank(p) <= Rank(messages'[i].state)
      /\ \A i, k \in DOMAIN messages' : i < k /\ messages'[i].job = messages'[k].job
                                          => Rank(messages'[i].state) <= Rank(messages'[k].state)
  <2>1. \A i \in DOMAIN messages' : 1 < i + 1
    BY <1>2
  <2>2. \A i, k \in DOMAIN messages' : i < k => i + 1 < k + 1
    BY <1>2
  <2> QED  BY <1>2, <2>1, <2>2 DEF WInv, MessagesRight
<1> HIDE DEF j, p
<1>6. CASE status[j] = "none"
  <2>1. UNCHANGED <<status, inbox>>
    BY <1>6 DEF Forward, j
  <2>2. MessagesRight'
    BY <1>1, <1>5, <2>1 DEF MessagesRight
  <2>3. WType'
    BY <1>1, <1>2, <2>1 DEF WInv, WType
  <2>4. /\ AwaitsRemote' /\ LocalPlaces' /\ RemotePlaces' /\ StatusRight' /\ Reported'
        /\ SeenBehind' /\ Waiting' /\ PageFollows' /\ PoolFits'
    BY <1>1, <2>1 DEF WInv, AwaitsRemote, LocalPlaces, RemotePlaces, StatusRight, Reported,
                      SeenBehind, Waiting, PageFollows, PoolFits
  <2> QED  BY <2>2, <2>3, <2>4 DEF WInv
<1>7. CASE status[j] # "none"
  <2>1. status' = [status EXCEPT ![j] = p] /\ inbox' = Notified(inbox, j)
    BY <1>7 DEF Forward, j, p
  <2>2. /\ status'[j] = p /\ \A i \in Job \ {j} : status'[i] = status[i]
        /\ status' \in [Job -> Shown]
    BY <1>3, <2>1 DEF WInv, WType
  <2>3. DOMAIN inbox' = DOMAIN inbox /\ \A s \in DOMAIN inbox : inbox'[s] = inbox[s] \cup {j}
    BY <2>1 DEF Notified
  <2>4. PageFollows'
    BY <1>1, <1>3, <2>1, <2>3, PageTold
  <2>5. Waiting'
    <3>1. \A i \in DOMAIN inbox \ {Page} : i \in Job /\ i # j
      BY <1>4 DEF WInv, WType, Waiting, Remote
    <3> QED  BY <1>1, <2>2, <2>3, <3>1 DEF WInv, Waiting
  <2>6. LocalPlaces'
    BY <1>1, <1>4, <2>2, LocalSame
  <2>7. StatusRight'
    BY <1>1, <1>4, <2>2 DEF WInv, StatusRight
  <2>8. MessagesRight'
    BY <1>1, <1>3, <1>5, <2>2 DEF MessagesRight
  <2>9. SeenBehind'
    <3>1. Rank(seen[j]) <= Rank(p)
      <4>1. Rank(seen[j]) \in 0..3 /\ Rank(status[j]) \in 0..3 /\ Rank(p) \in 0..3
        BY <1>3, Ranks DEF WInv, WType, States
      <4> QED  BY <1>3, <1>4, <1>7, <4>1 DEF WInv, SeenBehind
    <3> QED  BY <1>1, <2>2, <3>1 DEF WInv, SeenBehind
  <2>10. inbox' \in [DOMAIN inbox' -> SUBSET Job] /\ DOMAIN inbox' \subseteq Job \cup {Page}
    BY <1>3, <2>1, <2>3 DEF WInv, WType, Notified
  <2>11. WType'
    BY <1>1, <1>2, <2>2, <2>10 DEF WInv, WType
  <2>12. AwaitsRemote' /\ RemotePlaces' /\ Reported' /\ PoolFits'
    BY <1>1 DEF WInv, AwaitsRemote, RemotePlaces, Reported, PoolFits
  <2> QED  BY <2>4, <2>5, <2>6, <2>7, <2>8, <2>9, <2>11, <2>12 DEF WInv
<1> QED  BY <1>6, <1>7

-----------------------------------------------------------------------------
(* One lemma for each step of the worker process                            *)

\* The lanes and the forwarder's queue of the worker process.
LEMMA WorkerType ==
    ASSUME WInv
    PROVE  /\ worker.up \in BOOLEAN /\ worker.sub \subseteq Job
           /\ worker.lane \in [Remote -> Seq(Job)]
           /\ worker = [up |-> worker.up, lane |-> worker.lane, sub |-> worker.sub]
           /\ \A l \in Remote : Elems(worker.lane[l]) \subseteq Job
<1>1. worker \in [up : BOOLEAN, lane : [Remote -> Seq(Job)], sub : SUBSET Job]
  BY DEF WInv, WType
<1>2. /\ worker.up \in BOOLEAN /\ worker.sub \subseteq Job
      /\ worker.lane \in [Remote -> Seq(Job)]
      /\ worker = [up |-> worker.up, lane |-> worker.lane, sub |-> worker.sub]
  BY <1>1
<1>3. ASSUME NEW l \in Remote PROVE Elems(worker.lane[l]) \subseteq Job
  <2>1. worker.lane[l] \in Seq(Job)
    BY <1>2
  <2> QED  BY <2>1 DEF Elems
<1> QED  BY <1>2, <1>3

\* A remote job goes on where it runs; the API process does not know yet.
LEMMA RemoteMove ==
    ASSUME WInv, NEW j \in Job, kind[j] \in Remote, real[j] \in {"queued", "running"},
           NEW p \in {"running", "done", "error"}, Rank(real[j]) < Rank(p),
           real' = [real EXCEPT ![j] = p],
           UNCHANGED <<kind, status, lane, parallel, messages, inbox, seen, pool>>
    PROVE  /\ LocalPlaces' /\ StatusRight' /\ MessagesRight' /\ SeenBehind'
           /\ Waiting' /\ PageFollows' /\ PoolFits' /\ AwaitsRemote'
           /\ real' \in [Job -> States] /\ real'[j] = p
           /\ \A i \in Job \ {j} : real'[i] = real[i]
<1>1. /\ real'[j] = p /\ \A i \in Job \ {j} : real'[i] = real[i]
      /\ real' \in [Job -> States]
  BY DEF WInv, WType, States, Shown
<1>2. LocalPlaces'
  BY <1>1, LocalSame
<1>3. /\ Rank(p) \in 0..3 /\ Rank(real[j]) \in 0..3 /\ Rank(status[j]) \in 0..3 /\ Rank(seen[j]) \in 0..3
      /\ real[j] \notin Ended
  BY Ranks DEF WInv, WType, States, Shown, Ended
<1>4. StatusRight'
  <2>1. Rank(status[j]) <= Rank(p) /\ status[j] \notin Ended
    BY <1>3 DEF WInv, StatusRight
  <2> QED  BY <1>1, <2>1 DEF WInv, StatusRight
<1>5. SeenBehind'
  <2>1. Rank(seen[j]) <= Rank(p)
    BY <1>3 DEF WInv, SeenBehind
  <2> QED  BY <1>1, <2>1 DEF WInv, SeenBehind
<1>6. MessagesRight'
  <2>1. \A i \in DOMAIN messages : messages[i].job = j => Rank(messages[i].state) <= Rank(p)
    <3>1. \A i \in DOMAIN messages : Rank(messages[i].state) \in 0..3
      BY MessageType, Ranks DEF States
    <3> QED  BY <1>3, <3>1 DEF WInv, MessagesRight
  <2>2. \A i \in DOMAIN messages : messages[i].job = j => messages[i].state \notin Ended
    BY <1>3 DEF WInv, MessagesRight
  <2>3. \A i \in DOMAIN messages : messages[i].job \in Job
    BY MessageType
  <2> QED  BY <1>1, <2>1, <2>2, <2>3 DEF WInv, MessagesRight
<1>7. Waiting' /\ PageFollows' /\ PoolFits' /\ AwaitsRemote'
  BY DEF WInv, Waiting, PageFollows, PoolFits, AwaitsRemote
<1> QED  BY <1>1, <1>2, <1>4, <1>5, <1>6, <1>7

\* The worker process takes a request into its lane.
LEMMA ListenStep ==
    ASSUME WInv, Listen
    PROVE  WInv'
<1> DEFINE j == requests[1]
           l == kind[j]
<1>1. /\ requests # <<>> /\ requests' = Tail(requests)
      /\ worker' = [worker EXCEPT !.lane[l] = Append(@, j), !.sub = @ \cup {j}]
      /\ UNCHANGED <<kind, status, real, lane, parallel, putting, messages, inbox, seen, pool>>
  BY DEF Listen, api
<1>2. requests \in Seq(Job) /\ Distinct(requests)
  BY DEF WInv, WType, RemotePlaces
<1>3. /\ requests' \in Seq(Job) /\ j \in Job /\ j \in Elems(requests)
      /\ Elems(requests') \subseteq Elems(requests) /\ Distinct(requests') /\ j \notin Elems(requests')
  BY <1>1, <1>2, Rest
<1>4. /\ l \in Remote /\ real[j] = "queued" /\ j \notin putting
      /\ \A k \in Remote : j \notin Elems(worker.lane[k])
  BY <1>3 DEF WInv, RemotePlaces
<1> HIDE DEF j, l
<1>5. worker.lane \in [Remote -> Seq(Job)] /\ worker.sub \subseteq Job
  BY WorkerType
<1>6. /\ worker'.lane = [worker.lane EXCEPT ![l] = Append(worker.lane[l], j)]
      /\ worker'.sub = worker.sub \cup {j} /\ worker'.up = worker.up
      /\ worker' = [up |-> worker'.up, lane |-> worker'.lane, sub |-> worker'.sub]
  BY <1>1, <1>4, <1>5, WorkerType
<1>7. /\ worker'.lane[l] = Append(worker.lane[l], j)
      /\ \A k \in Remote \ {l} : worker'.lane[k] = worker.lane[k]
  BY <1>4, <1>5, <1>6
<1>8. /\ Append(worker.lane[l], j) \in Seq(Job)
      /\ Elems(Append(worker.lane[l], j)) = Elems(worker.lane[l]) \cup {j}
      /\ Distinct(Append(worker.lane[l], j))
  <2>1. worker.lane[l] \in Seq(Job) /\ Distinct(worker.lane[l]) /\ j \notin Elems(worker.lane[l])
    BY <1>4, <1>5 DEF WInv, RemotePlaces
  <2> QED  BY <1>3, <2>1, Appended
<1>9. RemotePlaces'
  <2>1. ASSUME NEW k \in Remote
        PROVE  /\ Distinct(worker'.lane[k])
               /\ \A i \in Elems(worker'.lane[k]) :
                     kind[i] = k /\ real[i] = "queued" /\ i \notin putting /\ i \notin Elems(requests')
    <3>1. CASE k = l
      <4>1. Distinct(worker'.lane[k]) /\ Elems(worker'.lane[k]) = Elems(worker.lane[l]) \cup {j}
        BY <1>7, <1>8, <3>1
      <4>2. kind[j] = l
        BY DEF l
      <4>3. \A i \in Elems(worker.lane[l]) :
                kind[i] = l /\ real[i] = "queued" /\ i \notin putting /\ i \notin Elems(requests)
        BY <1>4 DEF WInv, RemotePlaces
      <4> QED  BY <1>3, <1>4, <3>1, <4>1, <4>2, <4>3
    <3>2. CASE k # l
      BY <1>3, <1>4, <1>7, <3>2 DEF WInv, RemotePlaces
    <3> QED  BY <3>1, <3>2
  <2> QED  BY <1>1, <1>3, <2>1 DEF WInv, RemotePlaces
<1>10. Reported'
  BY <1>1, <1>4, <1>6 DEF WInv, Reported, l, Shown
<1>11. WType'
  <2>1. worker'.lane \in [Remote -> Seq(Job)]
    BY <1>4, <1>5, <1>6, <1>8
  <2>2. worker' \in [up : BOOLEAN, lane : [Remote -> Seq(Job)], sub : SUBSET Job]
    BY <1>3, <1>5, <1>6, <2>1, WorkerType
  <2> QED  BY <1>1, <1>3, <2>2 DEF WInv, WType
<1>12. /\ AwaitsRemote' /\ LocalPlaces' /\ StatusRight' /\ MessagesRight' /\ SeenBehind'
       /\ Waiting' /\ PageFollows' /\ PoolFits'
  BY <1>1 DEF WInv, AwaitsRemote, LocalPlaces, StatusRight, MessagesRight, SeenBehind, Waiting,
              PageFollows, PoolFits
<1> QED  BY <1>9, <1>10, <1>11, <1>12 DEF WInv

\* A worker of a lane takes a job.
LEMMA RemoteStartStep ==
    ASSUME WInv, NEW l \in Remote, RemoteStart(l)
    PROVE  WInv'
<1> DEFINE s == worker.lane[l]
           j == s[1]
<1>1. /\ s # <<>> /\ real' = [real EXCEPT ![j] = "running"]
      /\ worker' = [worker EXCEPT !.lane[l] = Tail(@), !.sub = @ \cup {j}]
      /\ UNCHANGED <<kind, status, lane, parallel, putting, requests, messages, inbox, seen, pool>>
  BY DEF RemoteStart, api
<1>2. worker.lane \in [Remote -> Seq(Job)] /\ worker.sub \subseteq Job /\ Distinct(s)
  BY WorkerType DEF WInv, RemotePlaces
<1>3. /\ Tail(s) \in Seq(Job) /\ j \in Job /\ j \in Elems(s)
      /\ Elems(Tail(s)) \subseteq Elems(s) /\ Distinct(Tail(s)) /\ j \notin Elems(Tail(s))
  <2>1. s \in Seq(Job)
    BY <1>2
  <2> HIDE DEF s
  <2> QED  BY <1>1, <1>2, <2>1, Rest
<1>4. kind[j] = l /\ real[j] = "queued" /\ j \notin putting /\ j \notin Elems(requests)
  BY <1>3 DEF WInv, RemotePlaces
<1>5. /\ worker'.lane = [worker.lane EXCEPT ![l] = Tail(s)]
      /\ worker'.sub = worker.sub \cup {j} /\ worker'.up = worker.up
      /\ worker' = [up |-> worker'.up, lane |-> worker'.lane, sub |-> worker'.sub]
  BY <1>1, <1>2, WorkerType
<1> HIDE DEF j
<1>6. /\ LocalPlaces' /\ StatusRight' /\ MessagesRight' /\ SeenBehind'
      /\ Waiting' /\ PageFollows' /\ PoolFits' /\ AwaitsRemote'
      /\ real' \in [Job -> States] /\ real'[j] = "running"
      /\ \A i \in Job \ {j} : real'[i] = real[i]
  <2>1. Rank(real[j]) < Rank("running")
    BY <1>4, Ranks
  <2> QED  BY <1>1, <1>3, <1>4, <2>1, RemoteMove
<1>7. /\ worker'.lane[l] = Tail(s)
      /\ \A k \in Remote \ {l} : worker'.lane[k] = worker.lane[k]
  BY <1>2, <1>5
<1> HIDE DEF s
<1>8. RemotePlaces'
  <2>1. putting \subseteq Job /\ Elems(requests) \subseteq Job
    BY DEF WInv, WType, Elems
  <2>2. ASSUME NEW k \in Remote
        PROVE  /\ Distinct(worker'.lane[k])
               /\ \A i \in Elems(worker'.lane[k]) :
                     kind[i] = k /\ real'[i] = "queued" /\ i \notin putting /\ i \notin Elems(requests)
    <3>1. CASE k = l
      <4>1. Distinct(worker'.lane[k]) /\ Elems(worker'.lane[k]) = Elems(Tail(s))
        BY <1>3, <1>7, <3>1
      <4>2. \A i \in Elems(s) :
                i \in Job /\ kind[i] = l /\ real[i] = "queued" /\ i \notin putting /\ i \notin Elems(requests)
        BY WorkerType DEF WInv, RemotePlaces, s
      <4>3. \A i \in Elems(Tail(s)) : i \in Elems(s) /\ i # j
        BY <1>3
      <4> QED  BY <1>3, <1>6, <3>1, <4>1, <4>2, <4>3
    <3>2. CASE k # l
      <4>1. worker'.lane[k] = worker.lane[k]
        BY <1>7, <3>2
      <4>2. /\ Distinct(worker.lane[k])
            /\ \A i \in Elems(worker.lane[k]) :
                  i \in Job /\ kind[i] = k /\ real[i] = "queued" /\ i \notin putting /\ i \notin Elems(requests)
        BY WorkerType DEF WInv, RemotePlaces
      <4>3. \A i \in Elems(worker.lane[k]) : i # j
        BY <1>4, <3>2, <4>2
      <4> QED  BY <1>6, <4>1, <4>2, <4>3
    <3> QED  BY <3>1, <3>2
  <2> QED  BY <1>1, <1>4, <1>6, <2>1, <2>2 DEF WInv, RemotePlaces
<1>9. Reported'
  BY <1>1, <1>2, <1>4, <1>5, <1>6 DEF WInv, Reported, Shown
<1>10. WType'
  <2>1. worker'.lane \in [Remote -> Seq(Job)]
    BY <1>2, <1>3, <1>5
  <2>2. worker' \in [up : BOOLEAN, lane : [Remote -> Seq(Job)], sub : SUBSET Job]
    BY <1>2, <1>3, <1>5, <2>1, WorkerType
  <2> QED  BY <1>1, <1>6, <2>2 DEF WInv, WType
<1> QED  BY <1>6, <1>8, <1>9, <1>10 DEF WInv

\* A job of the worker process ends.
LEMMA RemoteFinishStep ==
    ASSUME WInv, NEW j \in Job, NEW p \in Ended, RemoteFinish(j, p)
    PROVE  WInv'
<1>1. /\ kind[j] \in Remote /\ real[j] = "running" /\ real' = [real EXCEPT ![j] = p]
      /\ worker' = [worker EXCEPT !.sub = @ \cup {j}]
      /\ UNCHANGED <<kind, status, lane, parallel, putting, requests, messages, inbox, seen, pool>>
  BY DEF RemoteFinish, api
<1>2. /\ worker'.lane = worker.lane /\ worker'.sub = worker.sub \cup {j} /\ worker'.up = worker.up
      /\ worker' = [up |-> worker'.up, lane |-> worker'.lane, sub |-> worker'.sub]
  BY <1>1, WorkerType
<1>3. p \in {"running", "done", "error"} /\ Rank(real[j]) < Rank(p)
  BY <1>1, Ranks DEF Ended
<1>4. /\ LocalPlaces' /\ StatusRight' /\ MessagesRight' /\ SeenBehind'
      /\ Waiting' /\ PageFollows' /\ PoolFits' /\ AwaitsRemote'
      /\ real' \in [Job -> States] /\ real'[j] = p
      /\ \A i \in Job \ {j} : real'[i] = real[i]
  BY <1>1, <1>3, RemoteMove
<1>5. RemotePlaces'
  <2>1. putting \subseteq Job \ {j} /\ Elems(requests) \subseteq Job \ {j}
    BY <1>1 DEF WInv, WType, Elems, RemotePlaces
  <2>2. \A l \in Remote : Elems(worker.lane[l]) \subseteq Job \ {j}
    BY <1>1, WorkerType DEF WInv, RemotePlaces
  <2> QED  BY <1>1, <1>2, <1>4, <2>1, <2>2 DEF WInv, RemotePlaces
<1>6. Reported'
  BY <1>1, <1>2, <1>3, <1>4, WorkerType DEF WInv, Reported, Shown
<1>7. WType'
  <2>1. worker' \in [up : BOOLEAN, lane : [Remote -> Seq(Job)], sub : SUBSET Job]
    BY <1>2, WorkerType
  <2> QED  BY <1>1, <1>4, <2>1 DEF WInv, WType
<1> QED  BY <1>4, <1>5, <1>6, <1>7 DEF WInv

\* The forwarder of the worker process reports a job.
LEMMA ReportStep ==
    ASSUME WInv, Report
    PROVE  WInv'
<1>1. PICK j \in worker.sub : /\ worker' = [worker EXCEPT !.sub = @ \ {j}]
                              /\ messages' = Append(messages, [job |-> j, state |-> real[j]])
  BY DEF Report
<1>2. UNCHANGED <<kind, status, real, lane, parallel, putting, requests, inbox, seen, pool>>
  BY DEF Report, api
<1>3. /\ worker'.lane = worker.lane /\ worker'.sub = worker.sub \ {j} /\ worker'.up = worker.up
      /\ worker' = [up |-> worker'.up, lane |-> worker'.lane, sub |-> worker'.sub]
  BY <1>1, WorkerType
<1>4. j \in Job /\ kind[j] \in Remote /\ real[j] \in Shown \ {"none"}
  BY WorkerType DEF WInv, Reported
<1> DEFINE n == Len(messages) + 1
<1>5. /\ messages' \in Seq([job : Job, state : Shown \ {"none"}])
      /\ n \in Nat /\ DOMAIN messages' = DOMAIN messages \cup {n}
      /\ messages'[n].job = j /\ messages'[n].state = real[j]
      /\ \A i \in DOMAIN messages : messages'[i] = messages[i] /\ i < n /\ i \in Nat
  <2> DEFINE R == [job : Job, state : Shown \ {"none"}]
             x == [job |-> j, state |-> real[j]]
  <2>1. messages \in Seq(R)
    BY DEF WInv, WType
  <2>2. x \in R
    BY <1>4
  <2>3. messages' = Append(messages, x)
    BY <1>1
  <2>4. x.job = j /\ x.state = real[j]
    OBVIOUS
  <2> HIDE DEF R, x
  <2>5. /\ messages' \in Seq(R) /\ n \in Nat /\ DOMAIN messages' = DOMAIN messages \cup {n}
        /\ messages'[n] = x
        /\ \A i \in DOMAIN messages : messages'[i] = messages[i] /\ i < n /\ i \in Nat
    BY <2>1, <2>2, <2>3
  <2> QED  BY <2>4, <2>5 DEF R
<1> HIDE DEF n
<1>6. MessagesRight'
  <2>1. /\ Rank(status[j]) <= Rank(real[j]) /\ Rank(real[j]) <= Rank(real[j])
        /\ \A i \in DOMAIN messages : messages[i].job = j => Rank(messages[i].state) <= Rank(real[j])
    BY <1>4, Ranks DEF WInv, StatusRight, MessagesRight, States
  <2>2. ASSUME NEW i \in DOMAIN messages'
        PROVE  /\ kind[messages'[i].job] \in Remote
               /\ Rank(status[messages'[i].job]) <= Rank(messages'[i].state)
               /\ Rank(messages'[i].state) <= Rank(real[messages'[i].job])
               /\ messages'[i].state \in Ended => real[messages'[i].job] = messages'[i].state
    <3>1. CASE i = n
      BY <1>4, <1>5, <2>1, <3>1
    <3>2. CASE i \in DOMAIN messages
      BY <1>5, <3>2 DEF WInv, MessagesRight
    <3> QED  BY <1>5, <3>1, <3>2
  <2>3. ASSUME NEW i \in DOMAIN messages', NEW k \in DOMAIN messages', i < k,
               messages'[i].job = messages'[k].job
        PROVE  Rank(messages'[i].state) <= Rank(messages'[k].state)
    <3>1. i \in DOMAIN messages
      BY <1>5, <2>3
    <3>2. CASE k = n
      BY <1>5, <2>1, <2>3, <3>1, <3>2
    <3>3. CASE k \in DOMAIN messages
      BY <1>5, <2>3, <3>1, <3>3 DEF WInv, MessagesRight
    <3> QED  BY <1>5, <3>2, <3>3
  <2> QED  BY <1>2, <2>2, <2>3 DEF MessagesRight
<1>7. WType'
  <2>1. worker' \in [up : BOOLEAN, lane : [Remote -> Seq(Job)], sub : SUBSET Job]
    BY <1>3, WorkerType
  <2> QED  BY <1>2, <1>5, <2>1 DEF WInv, WType
<1>8. RemotePlaces' /\ Reported'
  BY <1>2, <1>3 DEF WInv, RemotePlaces, Reported
<1>9. /\ AwaitsRemote' /\ LocalPlaces' /\ StatusRight' /\ SeenBehind'
      /\ Waiting' /\ PageFollows' /\ PoolFits'
  BY <1>2 DEF WInv, AwaitsRemote, LocalPlaces, StatusRight, SeenBehind, Waiting, PageFollows,
              PoolFits
<1> QED  BY <1>6, <1>7, <1>8, <1>9 DEF WInv

\* What a dead process takes with it had not ended; what it takes counts as the last state.
LEMMA GoneIsLast ==
    ASSUME WInv, NEW J, real' = Dead(J)
    PROVE  /\ real' \in [Job -> States]
           /\ \A i \in Job : /\ real'[i] = real[i] \/ (real'[i] = "gone" /\ real[i] \in {"queued", "running"})
                             /\ Rank(real[i]) <= Rank(real'[i])
                             /\ real[i] \in Ended => real'[i] = real[i]
                             /\ i \notin J => real'[i] = real[i]
           /\ \A x \in 0..3 : \A i \in Job : x <= Rank(real[i]) => x <= Rank(real'[i])
<1>1. /\ real' \in [Job -> States]
      /\ \A i \in Job : /\ real'[i] = real[i] \/ (real'[i] = "gone" /\ real[i] \in {"queued", "running"})
                        /\ i \notin J => real'[i] = real[i]
  BY DEF WInv, WType, Dead, States
<1>2. \A i \in Job : Rank(real[i]) \in 0..3 /\ Rank(real'[i]) \in 0..3
  BY <1>1, Ranks DEF WInv, WType
<1>3. \A i \in Job : Rank(real[i]) <= Rank(real'[i])
  BY <1>1, <1>2, Ranks
<1> QED  BY <1>1, <1>2, <1>3 DEF Ended

\* The worker process dies.
LEMMA WorkerDiesStep ==
    ASSUME WInv, WorkerDies
    PROVE  WInv'
<1> DEFINE J == ToSet(worker.lane["tagging"]) \cup ToSet(worker.lane["captioning"])
                  \cup Busy("tagging") \cup Busy("captioning")
<1>1. /\ worker' = [up |-> FALSE, lane |-> Idle, sub |-> {}] /\ real' = Dead(J)
      /\ \E n \in 0..Len(messages) : messages' = SubSeq(messages, 1, n)
      /\ UNCHANGED <<kind, status, lane, parallel, putting, requests, inbox, seen, pool>>
  BY DEF WorkerDies, api
<1>2. \A i \in Job : i \in J => kind[i] \in Remote /\ i \notin putting /\ i \notin Elems(requests)
  <2>1. \A i \in Busy("tagging") \cup Busy("captioning") :
            kind[i] \in Remote /\ i \notin putting /\ i \notin Elems(requests)
    BY DEF Busy, WInv, RemotePlaces, Remote
  <2>2. \A l \in Remote : \A i \in ToSet(worker.lane[l]) :
            kind[i] \in Remote /\ i \notin putting /\ i \notin Elems(requests)
    BY DEF ToSet, Elems, WInv, RemotePlaces
  <2> QED  BY <2>1, <2>2 DEF Remote
<1> HIDE DEF J
<1>3. /\ real' \in [Job -> States]
      /\ \A i \in Job : /\ real'[i] = real[i] \/ (real'[i] = "gone" /\ real[i] \in {"queued", "running"})
                        /\ Rank(real[i]) <= Rank(real'[i])
                        /\ real[i] \in Ended => real'[i] = real[i]
                        /\ i \notin J => real'[i] = real[i]
      /\ \A x \in 0..3 : \A i \in Job : x <= Rank(real[i]) => x <= Rank(real'[i])
  BY <1>1, GoneIsLast
<1>4. /\ messages' \in Seq([job : Job, state : Shown \ {"none"}])
      /\ \A i \in DOMAIN messages' : i \in DOMAIN messages /\ messages'[i] = messages[i]
  <2> DEFINE R == [job : Job, state : Shown \ {"none"}]
  <2>1. messages \in Seq(R)
    BY DEF WInv, WType
  <2> HIDE DEF R
  <2>2. PICK n \in 0..Len(messages) : messages' = SubSeq(messages, 1, n)
    BY <1>1
  <2>3. messages' \in Seq(R) /\ \A i \in DOMAIN messages' : i \in DOMAIN messages /\ messages'[i] = messages[i]
    BY <2>1, <2>2
  <2> QED  BY <2>3 DEF R
<1>5. \A i \in Job : Rank(status[i]) \in 0..3 /\ Rank(seen[i]) \in 0..3
  BY Ranks DEF WInv, WType, States
<1>6. StatusRight'
  <2>1. \A i \in Job : Rank(status[i]) <= Rank(real'[i])
    BY <1>3, <1>5 DEF WInv, StatusRight
  <2>2. \A i \in Job : kind[i] \notin Remote => real'[i] = real[i]
    BY <1>2, <1>3
  <2> QED  BY <1>1, <1>3, <2>1, <2>2 DEF WInv, StatusRight
<1>7. SeenBehind'
  BY <1>1, <1>3, <1>5 DEF WInv, SeenBehind
<1>8. MessagesRight'
  <2>1. \A i \in DOMAIN messages : messages[i].job \in Job /\ Rank(messages[i].state) \in 0..3
    BY MessageType, Ranks DEF States
  <2>2. \A i \in DOMAIN messages' :
            /\ kind[messages'[i].job] \in Remote
            /\ Rank(status[messages'[i].job]) <= Rank(messages'[i].state)
            /\ Rank(messages'[i].state) <= Rank(real'[messages'[i].job])
            /\ messages'[i].state \in Ended => real'[messages'[i].job] = messages'[i].state
    BY <1>3, <1>4, <2>1 DEF WInv, MessagesRight
  <2>3. \A i, k \in DOMAIN messages' : i < k /\ messages'[i].job = messages'[k].job
                                         => Rank(messages'[i].state) <= Rank(messages'[k].state)
    BY <1>4 DEF WInv, MessagesRight
  <2> QED  BY <1>1, <2>2, <2>3 DEF MessagesRight
<1>9. LocalPlaces'
  BY <1>1, <1>2, <1>3, LocalSame
<1>10. Elems(<<>>) = {} /\ Distinct(<<>>)
  BY DEF Elems, Distinct
<1>11. worker'.lane = Idle /\ worker'.sub = {} /\ \A l \in Remote : worker'.lane[l] = <<>>
  BY <1>1 DEF Idle
<1>12. RemotePlaces'
  <2>1. putting \subseteq Job /\ Elems(requests) \subseteq Job
    BY DEF WInv, WType, Elems
  <2> QED  BY <1>1, <1>2, <1>3, <1>10, <1>11, <2>1 DEF WInv, RemotePlaces
<1>13. Reported'
  BY <1>11 DEF Reported
<1>14. WType'
  <2>1. Idle \in [Remote -> Seq(Job)]
    BY DEF Idle
  <2>2. worker' \in [up : BOOLEAN, lane : [Remote -> Seq(Job)], sub : SUBSET Job]
    BY <1>1, <2>1
  <2> QED  BY <1>1, <1>3, <1>4, <2>2 DEF WInv, WType
<1>15. AwaitsRemote' /\ Waiting' /\ PageFollows' /\ PoolFits'
  BY <1>1 DEF WInv, AwaitsRemote, Waiting, PageFollows, PoolFits
<1> QED  BY <1>6, <1>7, <1>8, <1>9, <1>12, <1>13, <1>14, <1>15 DEF WInv

-----------------------------------------------------------------------------
(* The stream, a restart, and the pool                                      *)

\* The page connects, is sent a status, loses its connection, or forgets what has ended.
LEMMA PageStep ==
    ASSUME WInv, Connect \/ (\E j \in Job : Send(j)) \/ Disconnect \/ ClearDone
    PROVE  WInv'
<1>1. UNCHANGED <<kind, status, real, lane, parallel, putting, requests, messages, worker, pool>>
  BY DEF Connect, Send, Disconnect, ClearDone, api, ipc
<1>2. \A s \in DOMAIN inbox' \ {Page} : s \in DOMAIN inbox /\ inbox'[s] = inbox[s]
  BY DEF Connect, Send, Disconnect, ClearDone, Subscribed
<1>3. inbox' \in [DOMAIN inbox' -> SUBSET Job] /\ DOMAIN inbox' \subseteq Job \cup {Page}
  <2>1. CASE Connect
    <3>1. inbox' = Subscribed(inbox, Page, {j \in Job : status[j] # "none"})
      BY <2>1 DEF Connect
    <3> QED  BY <3>1 DEF WInv, WType, Subscribed
  <2>2. CASE \E j \in Job : Send(j)
    BY <2>2 DEF WInv, WType, Send
  <2>3. CASE Disconnect
    BY <2>3 DEF WInv, WType, Disconnect
  <2>4. CASE ClearDone
    BY <2>4 DEF WInv, WType, ClearDone
  <2> QED  BY <2>1, <2>2, <2>3, <2>4
<1>4. Waiting'
  BY <1>1, <1>2 DEF WInv, Waiting
<1>5. seen' \in [Job -> Shown] /\ SeenBehind'
  <2>1. CASE seen' = seen
    BY <1>1, <2>1 DEF WInv, WType, SeenBehind
  <2>2. CASE \E j \in Job : Send(j)
    <3>1. PICK j \in Job : Send(j)
      BY <2>2
    <3>2. /\ seen' \in [Job -> Shown] /\ seen'[j] = status[j]
          /\ \A i \in Job \ {j} : seen'[i] = seen[i]
      BY <3>1 DEF Send, WInv, WType
    <3>3. Rank(status[j]) <= Rank(real[j]) /\ Rank(status[j]) <= Rank(status[j])
      <4>1. Rank(status[j]) \in 0..3
        BY Ranks DEF WInv, WType, States
      <4> QED  BY <4>1 DEF WInv, StatusRight
    <3> QED  BY <1>1, <3>2, <3>3 DEF WInv, SeenBehind
  <2>3. CASE ClearDone
    <3>1. /\ seen' \in [Job -> Shown]
          /\ \A i \in Job : seen'[i] = seen[i] \/ seen'[i] = "none"
      BY <2>3 DEF ClearDone, WInv, WType, Shown
    <3>2. \A i \in Job : Rank(real[i]) \in 0..3 /\ Rank(status[i]) \in 0..3
      BY Ranks DEF WInv, WType, States
    <3>3. \A i \in Job : Rank("none") <= Rank(real[i]) /\ Rank("none") <= Rank(status[i])
      BY <3>2, Ranks
    <3>4. \A i \in Job : Rank(seen'[i]) <= Rank(real[i])
                          /\ (status[i] # "none" => Rank(seen'[i]) <= Rank(status[i]))
      BY <3>1, <3>3 DEF WInv, SeenBehind
    <3> QED  BY <1>1, <3>1, <3>4 DEF SeenBehind
  <2> QED  BY <2>1, <2>2, <2>3 DEF Connect, Disconnect
<1>6. PageFollows'
  <2>1. CASE Connect
    <3>1. inbox'[Page] = {j \in Job : status[j] # "none"}
      BY <2>1 DEF Connect, Subscribed
    <3> QED  BY <1>1, <3>1 DEF PageFollows
  <2>2. CASE \E j \in Job : Send(j)
    <3>1. PICK j \in Job : Send(j)
      BY <2>2
    <3>2. /\ Page \in DOMAIN inbox /\ inbox'[Page] = inbox[Page] \ {j} /\ seen'[j] = status[j]
          /\ \A i \in Job \ {j} : seen'[i] = seen[i]
      BY <3>1 DEF Send, WInv, WType
    <3>3. /\ \A i \in inbox'[Page] : status[i] # "none"
          /\ \A i \in Job \ inbox'[Page] :
                status[i] \in {"none", seen'[i]} \/ (seen'[i] = "none" /\ status[i] \in Ended)
      BY <3>2 DEF WInv, PageFollows
    <3> QED  BY <1>1, <3>3 DEF PageFollows
  <2>3. CASE Disconnect
    BY <2>3 DEF Disconnect, PageFollows
  <2>4. CASE ClearDone
    <3>1. /\ inbox' = inbox
          /\ \A i \in Job : seen'[i] = IF seen[i] \in Ended THEN "none" ELSE seen[i]
      BY <2>4 DEF ClearDone
    <3>2. Page \in DOMAIN inbox =>
            /\ \A i \in inbox[Page] : status[i] # "none"
            /\ \A i \in Job \ inbox[Page] :
                  status[i] \in {"none", seen'[i]} \/ (seen'[i] = "none" /\ status[i] \in Ended)
      BY <3>1 DEF WInv, PageFollows
    <3> QED  BY <1>1, <3>1, <3>2 DEF PageFollows
  <2> QED  BY <2>1, <2>2, <2>3, <2>4
<1>7. WType'
  BY <1>1, <1>3, <1>5 DEF WInv, WType
<1>8. /\ AwaitsRemote' /\ LocalPlaces' /\ RemotePlaces' /\ StatusRight' /\ MessagesRight' /\ Reported'
      /\ PoolFits'
  BY <1>1 DEF WInv, AwaitsRemote, LocalPlaces, RemotePlaces, StatusRight, MessagesRight, Reported,
              PoolFits
<1> QED  BY <1>4, <1>5, <1>6, <1>7, <1>8 DEF WInv

\* Both processes start again.
LEMMA RestartStep ==
    ASSUME WInv, Restart
    PROVE  WInv'
<1>1. /\ status' = [j \in Job |-> "none"] /\ real' = Dead(Job)
      /\ lane' = NoLanes /\ parallel' = {} /\ putting' = {} /\ requests' = <<>> /\ messages' = <<>>
      /\ worker' = [up |-> TRUE, lane |-> Idle, sub |-> {}]
      /\ inbox' = <<>> /\ UNCHANGED <<kind, seen, pool>>
  BY DEF Restart
<1>2. /\ real' \in [Job -> States]
      /\ \A i \in Job : Rank(real[i]) <= Rank(real'[i])
      /\ \A x \in 0..3 : \A i \in Job : x <= Rank(real[i]) => x <= Rank(real'[i])
  BY <1>1, GoneIsLast
<1>3. DOMAIN inbox' = {} /\ \A l \in Lanes : lane'[l] = <<>>
  BY <1>1 DEF NoLanes
<1>4. Elems(<<>>) = {} /\ Distinct(<<>>)
  BY DEF Elems, Distinct
<1>5. worker'.lane = Idle /\ worker'.sub = {} /\ \A l \in Remote : worker'.lane[l] = <<>>
  BY <1>1 DEF Idle
<1>6. LocalPlaces'
  BY <1>1, <1>3, <1>4 DEF LocalPlaces
<1>7. RemotePlaces'
  BY <1>1, <1>4, <1>5 DEF RemotePlaces
<1>8. StatusRight'
  <2>1. \A i \in Job : Rank("none") <= Rank(real'[i])
    BY <1>2, Ranks
  <2> QED  BY <1>1, <2>1 DEF StatusRight, Ended
<1>9. SeenBehind'
  <2>1. \A i \in Job : Rank(seen[i]) \in 0..3
    BY Ranks DEF WInv, WType, States
  <2> QED  BY <1>1, <1>2, <2>1 DEF WInv, SeenBehind
<1>10. MessagesRight' /\ Reported'
  BY <1>1, <1>5 DEF MessagesRight, Reported
<1>11. Waiting' /\ PageFollows'
  BY <1>3 DEF Waiting, PageFollows
<1>12. WType'
  <2>1. Idle \in [Remote -> Seq(Job)] /\ NoLanes \in [Lanes -> Seq(Job)]
    BY DEF Idle, NoLanes
  <2>2. worker' \in [up : BOOLEAN, lane : [Remote -> Seq(Job)], sub : SUBSET Job]
    BY <1>1, <2>1
  <2>3. inbox' \in [DOMAIN inbox' -> SUBSET Job] /\ DOMAIN inbox' \subseteq Job \cup {Page}
    BY <1>1, <1>3
  <2>4. status' \in [Job -> Shown]
    BY <1>1 DEF Shown
  <2> QED  BY <1>1, <1>2, <2>1, <2>2, <2>3, <2>4 DEF WInv, WType
<1>13. AwaitsRemote' /\ PoolFits'
  BY <1>1 DEF WInv, AwaitsRemote, PoolFits
<1> QED  BY <1>6, <1>7, <1>8, <1>9, <1>10, <1>11, <1>12, <1>13 DEF WInv

\* A pool is resized, a worker of it takes a pill, and its task is forgotten.
LEMMA PoolStep ==
    ASSUME WInv, (\E t \in Targets : Resize(t)) \/ TakePill \/ Discarded
    PROVE  WInv'
<1>1. UNCHANGED <<kind, status, real, lane, parallel, putting, requests, messages, worker, inbox, seen>>
  BY DEF Resize, TakePill, Discarded, api, ipc
<1>2. /\ pool \in [tasks : Int, pills : Nat, leaving : Nat, target : Int]
      /\ pool.tasks - pool.pills - pool.leaving <= pool.target
  BY DEF WInv, WType, PoolFits
<1>3. /\ pool' \in [tasks : Int, pills : Nat, leaving : Nat, target : Int]
      /\ pool'.tasks - pool'.pills - pool'.leaving <= pool'.target
  <2>1. CASE \E t \in Targets : Resize(t)
    <3>1. PICK t \in Targets : Resize(t)
      BY <2>1
    <3>2. t \in Nat
      BY SizeAssumption
    <3>3. pool' = [tasks   |-> IF t > pool.tasks THEN t ELSE pool.tasks,
                   pills   |-> IF t < pool.tasks THEN pool.pills + pool.tasks - t ELSE pool.pills,
                   leaving |-> pool.leaving,
                   target  |-> t]
      BY <1>2, <3>1 DEF Resize
    <3>4. pool.tasks \in Int /\ pool.pills \in Nat /\ pool.leaving \in Nat
      BY <1>2
    <3>5. pool' \in [tasks : Int, pills : Nat, leaving : Nat, target : Int]
      <4>1. /\ (IF t > pool.tasks THEN t ELSE pool.tasks) \in Int
            /\ (IF t < pool.tasks THEN pool.pills + pool.tasks - t ELSE pool.pills) \in Nat /\ t \in Int
        BY <3>2, <3>4
      <4> QED  BY <3>3, <3>4, <4>1
    <3>6. pool'.tasks - pool'.pills - pool'.leaving <= pool'.target
      <4>1. /\ pool'.tasks = IF t > pool.tasks THEN t ELSE pool.tasks
            /\ pool'.pills = IF t < pool.tasks THEN pool.pills + pool.tasks - t ELSE pool.pills
            /\ pool'.leaving = pool.leaving /\ pool'.target = t
        BY <3>3
      <4> QED  BY <1>2, <3>2, <3>4, <4>1
    <3> QED  BY <3>5, <3>6
  <2>2. CASE TakePill
    <3>1. /\ pool' = [tasks |-> pool.tasks, pills |-> pool.pills - 1, leaving |-> pool.leaving + 1,
                      target |-> pool.target]
          /\ pool.pills > 0
      BY <1>2, <2>2 DEF TakePill
    <3> QED  BY <1>2, <3>1
  <2>3. CASE Discarded
    <3>1. /\ pool' = [tasks |-> pool.tasks - 1, pills |-> pool.pills, leaving |-> pool.leaving - 1,
                      target |-> pool.target]
          /\ pool.leaving > 0
      BY <1>2, <2>3 DEF Discarded
    <3> QED  BY <1>2, <3>1
  <2> QED  BY <2>1, <2>2, <2>3
<1>4. WType' /\ PoolFits'
  BY <1>1, <1>3 DEF WInv, WType, PoolFits
<1>5. /\ AwaitsRemote' /\ LocalPlaces' /\ RemotePlaces' /\ StatusRight' /\ MessagesRight' /\ Reported'
      /\ SeenBehind' /\ Waiting' /\ PageFollows'
  BY <1>1 DEF WInv, AwaitsRemote, LocalPlaces, RemotePlaces, StatusRight, MessagesRight, Reported,
              SeenBehind, Waiting, PageFollows
<1> QED  BY <1>4, <1>5 DEF WInv

\* Nothing changes.
LEMMA WStutter == WInv /\ UNCHANGED vars => WInv'
<1> SUFFICES ASSUME WInv, UNCHANGED vars PROVE WInv'
  OBVIOUS
<1>1. UNCHANGED <<kind, status, real, lane, parallel, putting, requests, messages, worker, inbox, seen, pool>>
  BY DEF vars
<1>2. WType' /\ AwaitsRemote' /\ LocalPlaces' /\ RemotePlaces' /\ StatusRight'
  BY <1>1 DEF WInv, WType, AwaitsRemote, LocalPlaces, RemotePlaces, StatusRight
<1>3. MessagesRight' /\ Reported' /\ SeenBehind' /\ Waiting' /\ PageFollows' /\ PoolFits'
  BY <1>1 DEF WInv, MessagesRight, Reported, SeenBehind, Waiting, PageFollows, PoolFits
<1> QED  BY <1>2, <1>3 DEF WInv

-----------------------------------------------------------------------------
\* Every step of the two processes, the stream and the pool keeps the invariant.
THEOREM QueueInvariant == Spec => []WInv
<1>1. WInv /\ [Next]_vars => WInv'
  <2> SUFFICES ASSUME WInv, [Next]_vars PROVE WInv'
    OBVIOUS
  <2>1. CASE Runs
    <3>1. ASSUME NEW l \in Lanes, Start(l) PROVE WInv'
      BY <3>1, StartStep
    <3>2. ASSUME NEW j \in Job, StartParallel(j) PROVE WInv'
      BY <3>2, StartParallelStep
    <3>3. ASSUME NEW j \in Job, Put(j) PROVE WInv'
      BY <3>3, PutStep
    <3>4. ASSUME NEW j \in Job, Send(j) PROVE WInv'
      BY <3>4, PageStep
    <3>5. ASSUME NEW j \in Job, NEW p \in Ended, Finish(j, p) PROVE WInv'
      BY <3>5, FinishStep
    <3>6. ASSUME NEW j \in Job, NEW p \in Ended, RemoteFinish(j, p) PROVE WInv'
      BY <3>6, RemoteFinishStep
    <3>7. ASSUME NEW j \in DOMAIN Awaits, SendAndWait(j) PROVE WInv'
      BY <3>7, SendAndWaitStep
    <3>8. ASSUME NEW j \in DOMAIN Awaits, Hear(j) PROVE WInv'
      BY <3>8, HearStep
    <3>9. ASSUME NEW l \in Remote, RemoteStart(l) PROVE WInv'
      BY <3>9, RemoteStartStep
    <3>10. CASE Forward
      BY <3>10, ForwardStep
    <3>11. CASE Listen
      BY <3>11, ListenStep
    <3>12. CASE Report
      BY <3>12, ReportStep
    <3>13. CASE Connect
      BY <3>13, PageStep
    <3>14. CASE TakePill \/ Discarded
      BY <3>14, PoolStep
    <3> QED  BY <2>1, <3>1, <3>2, <3>3, <3>4, <3>5, <3>6, <3>7, <3>8, <3>9, <3>10, <3>11, <3>12,
                <3>13, <3>14 DEF Runs
  <2>2. ASSUME NEW j \in Job, Enqueue(j) \/ EnqueueRemote(j) PROVE WInv'
    BY <2>2, EnqueueStep
  <2>3. ASSUME NEW t \in Targets, Resize(t) PROVE WInv'
    BY <2>3, PoolStep
  <2>4. CASE Disconnect \/ ClearDone
    BY <2>4, PageStep
  <2>5. CASE WorkerDies
    BY <2>5, WorkerDiesStep
  <2>6. CASE Restart
    BY <2>6, RestartStep
  <2>7. CASE UNCHANGED vars
    BY <2>7, WStutter
  <2> QED  BY <2>1, <2>2, <2>3, <2>4, <2>5, <2>6, <2>7 DEF Next
<1> QED  BY <1>1, InitWInv, PTL DEF Spec

\* A page whose stream has nothing left to send shows every job as the API process knows it,
\* however its connections, the forwarded messages and the ends of jobs interleave.
THEOREM StreamIsCurrent == Spec => []StreamCurrent
<1>1. WInv => StreamCurrent
  BY DEF WInv, PageFollows, StreamCurrent
<1> QED  BY <1>1, QueueInvariant, PTL

\* A pool comes down to the size it was last asked to have, however resizes come in between
\* queued pills and leaving workers.
THEOREM PoolsFit == Spec => []PoolFits
<1>1. WInv => PoolFits
  BY DEF WInv
<1> QED  BY <1>1, QueueInvariant, PTL

-----------------------------------------------------------------------------
(* The queue is a JobLifecycle                                              *)

\* A job is enqueued in whichever process, and it was in none.
LEMMA EnqueueMaps ==
    ASSUME WInv, NEW j \in Job, real[j] = "none", real' = [real EXCEPT ![j] = "queued"], seen' = seen
    PROVE  Lifecycle!Next
<1>1. Lifecycle!Enqueue(j)
  BY DEF Lifecycle!Enqueue, Lifecycle!Goes
<1> QED  BY <1>1 DEF Lifecycle!Next

\* A job that waits starts, and no other way leads to a start.
LEMMA StartMaps ==
    ASSUME WInv, NEW j \in Job, real[j] = "queued", real' = [real EXCEPT ![j] = "running"], seen' = seen
    PROVE  Lifecycle!Next
<1>1. Lifecycle!Start(j)
  BY DEF Lifecycle!Start, Lifecycle!Goes
<1> QED  BY <1>1 DEF Lifecycle!Next

\* A job that runs ends.
LEMMA EndMaps ==
    ASSUME WInv, NEW j \in Job, NEW p \in Ended, real[j] = "running",
           real' = [real EXCEPT ![j] = p], seen' = seen
    PROVE  Lifecycle!Next
<1>1. Lifecycle!End(j)
  BY DEF Lifecycle!End, Lifecycle!Goes, Lifecycle!Ended, Ended
<1> QED  BY <1>1 DEF Lifecycle!Next

\* A process takes with it what it had not ended.
LEMMA LoseMaps ==
    ASSUME WInv, NEW J, real' = Dead(J), seen' = seen
    PROVE  Lifecycle!Next
<1> DEFINE K == {j \in J \cap Job : real[j] \in {"queued", "running"}}
<1>1. K \in SUBSET {j \in Job : real[j] \in {"queued", "running"}}
  OBVIOUS
<1>2. real' = [j \in Job |-> IF j \in K THEN "gone" ELSE real[j]]
  BY DEF Dead
<1>3. Lifecycle!Lose
  BY <1>1, <1>2 DEF Lifecycle!Lose
<1> QED  BY <1>3 DEF Lifecycle!Next

\* What is sent to the page is a state the job has been in, no earlier than what it shows.
LEMMA SendMaps ==
    ASSUME WInv, NEW j \in Job, Send(j)
    PROVE  Lifecycle!Next
<1>1. /\ seen' = [seen EXCEPT ![j] = status[j]] /\ real' = real
      /\ Page \in DOMAIN inbox /\ j \in inbox[Page]
  BY DEF Send
<1>2. status[j] \in {"queued", "running", "done", "error"}
  BY <1>1 DEF WInv, WType, PageFollows, Shown
<1>3. /\ Rank(seen[j]) <= Rank(status[j]) /\ Rank(status[j]) <= Rank(real[j])
      /\ status[j] \in Ended => real[j] = status[j]
  BY <1>2 DEF WInv, SeenBehind, StatusRight
<1>4. Lifecycle!Show(j)
  BY <1>1, <1>2, <1>3 DEF Lifecycle!Show, Rank, Ended, Lifecycle!Ended
<1> QED  BY <1>4 DEF Lifecycle!Next

\* Every step of the queue is a step of the lifecycle of one job, the loss of a process, a
\* cleared list, or none of them.
LEMMA StepMaps ==
    ASSUME WInv, [Next]_vars
    PROVE  [Lifecycle!Next]_<<real, seen>>
<1>1. ASSUME NEW j \in Job, Enqueue(j) \/ EnqueueRemote(j) PROVE Lifecycle!Next
  BY <1>1, EnqueueMaps DEF Enqueue, EnqueueRemote, Update
<1>2. ASSUME NEW j \in DOMAIN Awaits, SendAndWait(j) PROVE Lifecycle!Next
  <2>1. Awaits[j] \in Job
    BY <1>2 DEF SendAndWait, WInv, AwaitsRemote
  <2> QED  BY <1>2, <2>1, EnqueueMaps DEF SendAndWait
<1>3. ASSUME NEW l \in Lanes, Start(l) PROVE Lifecycle!Next
  <2>1. PICK n \in First(l) : Update(lane[l][n], "running")
    BY <1>3 DEF Start
  <2>2. lane[l] \in Seq(Job) /\ lane[l] # <<>>
    BY <1>3 DEF WInv, WType, Start
  <2>3. 1 \in DOMAIN lane[l]
    BY <2>2
  <2>4. n \in DOMAIN lane[l]
    BY <2>1, <2>3 DEF First
  <2>5. lane[l][n] \in Job /\ lane[l][n] \in Elems(lane[l])
    BY <2>2, <2>4 DEF Elems
  <2>6. real[lane[l][n]] = "queued"
    BY <2>5 DEF WInv, LocalPlaces
  <2>7. real' = [real EXCEPT ![lane[l][n]] = "running"] /\ seen' = seen
    BY <1>3, <2>1 DEF Update, Start
  <2> QED  BY <2>5, <2>6, <2>7, StartMaps
<1>4. ASSUME NEW j \in Job, StartParallel(j) PROVE Lifecycle!Next
  <2>1. real[j] = "queued"
    BY <1>4 DEF StartParallel, WInv, LocalPlaces
  <2> QED  BY <1>4, <2>1, StartMaps DEF StartParallel, Update
<1>5. ASSUME NEW l \in Remote, RemoteStart(l) PROVE Lifecycle!Next
  <2> DEFINE s == worker.lane[l]
  <2>1. s # <<>> /\ real' = [real EXCEPT ![s[1]] = "running"] /\ seen' = seen
    BY <1>5 DEF RemoteStart
  <2>2. s \in Seq(Job)
    BY WorkerType
  <2>3. s[1] \in Job /\ s[1] \in Elems(s)
    <3> HIDE DEF s
    <3> QED  BY <2>1, <2>2, Rest
  <2>4. real[s[1]] = "queued"
    BY <2>3 DEF WInv, RemotePlaces
  <2> HIDE DEF s
  <2> QED  BY <2>1, <2>3, <2>4, StartMaps
<1>6. ASSUME NEW j \in Job, NEW p \in Ended, Finish(j, p) PROVE Lifecycle!Next
  <2>1. real[j] = "running"
    BY <1>6 DEF Finish, WInv, StatusRight
  <2> QED  BY <1>6, <2>1, EndMaps DEF Finish, Update
<1>7. ASSUME NEW j \in Job, NEW p \in Ended, RemoteFinish(j, p) PROVE Lifecycle!Next
  BY <1>7, EndMaps DEF RemoteFinish
<1>8. ASSUME NEW j \in DOMAIN Awaits, Hear(j) PROVE Lifecycle!Next \/ UNCHANGED <<real, seen>>
  <2> DEFINE p == status[Awaits[j]]
  <2>1. j \in DOMAIN inbox /\ j # Page /\ j \in Job /\ seen' = seen
    BY <1>8, PlanAssumption DEF Hear
  <2>2. real[j] = "running"
    BY <2>1 DEF WInv, Waiting, StatusRight, Remote
  <2>3. (p \in Ended /\ real' = [real EXCEPT ![j] = p]) \/ real' = real
    BY <1>8 DEF Hear
  <2> HIDE DEF p
  <2> QED  BY <2>1, <2>2, <2>3, EndMaps
<1>9. CASE WorkerDies \/ Restart
  <2>1. seen' = seen /\ \E J : real' = Dead(J)
    BY <1>9 DEF WorkerDies, Restart
  <2> QED  BY <2>1, LoseMaps
<1>10. ASSUME NEW j \in Job, Send(j) PROVE Lifecycle!Next
  BY <1>10, SendMaps
<1>11. CASE ClearDone
  <2>1. Lifecycle!Clear
    BY <1>11 DEF ClearDone, Lifecycle!Clear, Lifecycle!Ended, Ended
  <2> QED  BY <2>1 DEF Lifecycle!Next
<1>12. ASSUME NEW j \in Job, Put(j) PROVE UNCHANGED <<real, seen>>
  BY <1>12 DEF Put
<1>13. ASSUME NEW t \in Targets, Resize(t) PROVE UNCHANGED <<real, seen>>
  BY <1>13 DEF Resize
<1>14. CASE Forward \/ Listen \/ Report \/ Connect \/ Disconnect \/ TakePill \/ Discarded \/ UNCHANGED vars
  BY <1>14 DEF Forward, Listen, Report, Connect, Disconnect, TakePill, Discarded, vars
<1> QED  BY <1>1, <1>2, <1>3, <1>4, <1>5, <1>6, <1>7, <1>8, <1>9, <1>10, <1>11, <1>12, <1>13, <1>14
         DEF Next, Runs

\* The job queue implements its lifecycle: through two processes, late and lost messages,
\* restarts and reconnects a job is run once, ends once, and never goes back on the page.
THEOREM QueueIsLifecycle == Spec => IsLifecycle
<1>1. Init => Lifecycle!Init
  BY DEF Init, Lifecycle!Init
<1>2. WInv /\ [Next]_vars => [Lifecycle!Next]_<<real, seen>>
  BY StepMaps
<1> QED  BY <1>1, <1>2, QueueInvariant, PTL DEF Spec, IsLifecycle, Lifecycle!Spec
=============================================================================
