------------------------------ MODULE Pipeline ------------------------------
(***************************************************************************)
(* The per-asset processing pipeline: enqueue_pipeline_steps, the two       *)
(* prerequisite counters (face_pipeline, classification_pipeline), the      *)
(* single background worker with its priority queue, the tagging and        *)
(* captioning lanes of the worker process, the status queue that carries    *)
(* their signals back, the processing ledger, and the three callers of the  *)
(* pipeline: import, catch-up (reprocess / repair) and rerun.               *)
(*                                                                         *)
(* One "call" is one run of enqueue_pipeline_steps (or of the body of the   *)
(* rerun loop) for one asset; the jobs it creates are named <<call, step>>. *)
(***************************************************************************)
EXTENDS Integers, FiniteSets

CONSTANTS
    Assets,          \* photos
    Calls,           \* numbers of the invocations of the pipeline
    None,            \* "no asset" / "no call"
    Wanted,          \* the steps steps_from_settings() switches on
    Scopes,          \* which steps a catch-up may ask for (all, or metadata only)
    RerunChoices,    \* the step selections of the rerun endpoint
    PoolSize,        \* workers of the tagging and of the captioning lane
    Overlapping,     \* photos whose catch-up and rerun may start while jobs of theirs run
    MaxFailures,     \* bound: jobs that skip or raise
    MaxCrashes       \* bound: crashes of the worker process or of the backend

Remote  == {"tags", "caption"}
Local   == {"heuristics", "embedding", "classification", "faces"}
Steps   == Remote \cup Local
Pipes   == {"faces", "classification"}
Modes   == {"pipeline", "rerun"}

ASSUME CallsAssumption  == Calls \subseteq Nat
ASSUME NoneAssumption   == None \notin Assets /\ None \notin Calls
ASSUME WantedAssumption == Wanted \subseteq Steps /\ {"heuristics", "classification"} \subseteq Wanted
ASSUME ScopeAssumption  == Scopes \subseteq SUBSET Steps /\ RerunChoices \subseteq SUBSET Steps
ASSUME BoundAssumption  == /\ Overlapping \subseteq Assets
                           /\ MaxFailures \in Nat /\ MaxCrashes \in Nat
                           /\ PoolSize \in [Remote -> Nat]

\* The steps a FACE or CLASSIFICATION job waits for.
Prereqs == [p \in Pipes |-> IF p = "faces" THEN Remote ELSE {"tags", "embedding"}]

\* Mutant: FACE keeps the priority it had before it was deferred.
EarlyFacePriority == [k \in Local |-> CASE k = "heuristics"     -> 20
                                        [] k = "embedding"      -> 30
                                        [] k = "classification" -> 35
                                        [] OTHER                -> 25]

\* _BACKGROUND_PRIORITY, smaller first.
Priority == [k \in Local |-> CASE k = "heuristics"     -> 20
                               [] k = "embedding"      -> 30
                               [] k = "classification" -> 35
                               [] OTHER                -> 45]

\* The order in which run_rerun_job works through the chosen steps.
RerunRank == [k \in Steps |-> CASE k = "heuristics"     -> 1
                                [] k = "tags"           -> 2
                                [] k = "caption"        -> 3
                                [] k = "embedding"      -> 4
                                [] k = "classification" -> 5
                                [] OTHER                -> 6]

VARIABLES
    phase,       \* [Calls -> how far the call got]
    asset,       \* [Calls -> its photo]
    steps,       \* [Calls -> the steps it was asked for]
    todo,        \* [Calls -> remote steps still to put, or rerun steps to do]
    stage,       \* [Calls -> [Steps -> where the job of that step is]]
    signals,     \* pipeline_signal messages on the status queue
    pend,        \* [Pipes -> [Assets -> open prerequisites]], 0 = not registered
    owner,       \* ghost: the call that made the registration in pend
    ledger,      \* [Assets -> the steps the processing ledger marks done]
    faceSets,    \* [Assets -> how often detected faces were added since the last wipe]
    library,     \* the assets imported so far
    workerUp,    \* the worker process is alive
    failures, crashes

callVars == <<phase, asset, steps, todo>>
vars == <<callVars, stage, signals, pend, owner, ledger, faceSets, library, workerUp,
          failures, crashes>>

Phases == {"idle", "collected", "putting", "rerunning", "over", "lost"}
\* requested: on the request queue; lane: in a worker-process queue; queued: in
\* the background priority queue; saved: faces committed, ledger not yet.
Stages == {"none", "requested", "lane", "queued", "running", "saved",
           "over", "failed", "lost"}
Ended  == {"over", "failed", "lost"}
Signal == [call : Calls, step : Remote, pipe : Pipes]

NoStages == [k \in Steps |-> "none"]

Init ==
    /\ phase = [c \in Calls |-> "idle"]
    /\ asset = [c \in Calls |-> None]
    /\ steps = [c \in Calls |-> {}]
    /\ todo = [c \in Calls |-> {}]
    /\ stage = [c \in Calls |-> NoStages]
    /\ signals = {}
    /\ pend = [p \in Pipes |-> [a \in Assets |-> 0]]
    /\ owner = [p \in Pipes |-> [a \in Assets |-> None]]
    /\ ledger = [a \in Assets |-> {}]
    /\ faceSets = [a \in Assets |-> 0]
    /\ library = {}
    /\ workerUp = TRUE
    /\ failures = 0
    /\ crashes = 0

TypeOK ==
    /\ phase \in [Calls -> Phases]
    /\ asset \in [Calls -> Assets \cup {None}]
    /\ steps \in [Calls -> SUBSET Steps]
    /\ todo \in [Calls -> SUBSET Steps]
    /\ stage \in [Calls -> [Steps -> Stages]]
    /\ signals \subseteq Signal
    /\ pend \in [Pipes -> [Assets -> Nat]]
    /\ owner \in [Pipes -> [Assets -> Calls \cup {None}]]
    /\ ledger \in [Assets -> SUBSET Steps]
    /\ faceSets \in [Assets -> Nat]
    /\ library \subseteq Assets
    /\ workerUp \in BOOLEAN
    /\ failures \in Nat
    /\ crashes \in Nat

-----------------------------------------------------------------------------
(* The prerequisite counters: signal() for pipe p and asset a. A signal for  *)
(* an asset that is not registered is dropped; the last one deletes the      *)
(* registration and puts the job on the background queue.                    *)

\* Mutants: the registration is not deleted by the last signal; a signal counts
\* down whether or not the asset is registered.
CountDownKeeps(p, a) == [pend EXCEPT ![p][a] = IF @ <= 1 THEN @ ELSE @ - 1]
CountDownAlways(p, a) == [pend EXCEPT ![p][a] = IF @ = 0 THEN -1 ELSE @ - 1]

CountDown(p, a) == [pend EXCEPT ![p][a] = IF @ = 0 THEN 0 ELSE @ - 1]

Scheduled(p, a, st) ==
    IF pend[p][a] = 1 THEN [st EXCEPT ![owner[p][a]][p] = "queued"] ELSE st

\* Nothing is under way for the asset: no call, no job, no signal.
Quiet(a) ==
    /\ \A c \in Calls : asset[c] = a =>
          /\ phase[c] \in {"over", "lost"}
          /\ \A k \in Steps : stage[c][k] \in Ended \cup {"none"}
    /\ \A m \in signals : asset[m.call] # a

MayStart(a) == a \in Overlapping \/ Quiet(a)

-----------------------------------------------------------------------------
(* Callers                                                                   *)

\* Invocations are numbered in the order in which they start.
NextCall(c) == \A d \in Calls : d <= c => (d = c <=> phase[d] = "idle")

Call(c, a, p, s, t) ==
    /\ phase' = [phase EXCEPT ![c] = p]
    /\ asset' = [asset EXCEPT ![c] = a]
    /\ steps' = [steps EXCEPT ![c] = s]
    /\ todo' = [todo EXCEPT ![c] = t]

\* An import commits the asset with an empty ledger row and runs everything
\* the settings allow.
Import(c, a) ==
    /\ NextCall(c)
    /\ a \notin library
    /\ library' = library \cup {a}
    /\ Call(c, a, "collected", Wanted, {})
    /\ UNCHANGED <<stage, signals, pend, owner, ledger, faceSets, workerUp,
                   failures, crashes>>

\* _pending_steps: enabled and not marked done.
MissingNoFaces(a) == Wanted \ (ledger[a] \cup {"faces"})   \* mutant
Missing(a) == Wanted \ ledger[a]

\* The catch-up run and the repair of one asset read the ledger and ask for
\* what it does not mark done. The steps are a snapshot: the call begins later.
CatchUp(c, a) ==
    /\ NextCall(c)
    /\ a \in library
    /\ MayStart(a)
    /\ \E scope \in Scopes :
          LET missing == Missing(a) \cap scope
          IN  /\ missing # {}
              /\ Call(c, a, "collected", missing, {})
    /\ UNCHANGED <<stage, signals, pend, owner, ledger, faceSets, library, workerUp,
                   failures, crashes>>

\* enqueue_pipeline_steps starts: heuristics goes straight to the local queue.
Begin(c) ==
    /\ phase[c] = "collected"
    /\ phase' = [phase EXCEPT ![c] = "putting"]
    /\ todo' = [todo EXCEPT ![c] = steps[c] \cap Remote]
    /\ stage' = [stage EXCEPT ![c]["heuristics"] =
                    IF "heuristics" \in steps[c] THEN "queued" ELSE @]
    /\ UNCHANGED <<asset, steps, signals, pend, owner, ledger, faceSets, library, workerUp,
                   failures, crashes>>

\* enqueue_tagging, then enqueue_caption: each awaits the put on the request
\* queue, and the event loop and the worker process run on in the meantime.
PutRemote(c) ==
    /\ phase[c] = "putting"
    /\ todo[c] # {}
    /\ LET k == IF "tags" \in todo[c] THEN "tags" ELSE "caption"
       IN  /\ todo' = [todo EXCEPT ![c] = @ \ {k}]
           /\ stage' = [stage EXCEPT ![c][k] = "requested"]
    /\ UNCHANGED <<phase, asset, steps, signals, pend, owner, ledger, faceSets, library, workerUp,
                   failures, crashes>>

\* Only steps that really run count as prerequisites.
PrereqCountOne(p, s) == 1   \* mutant: the first signal is enough
PrereqCount(p, s) == Cardinality(s \cap Prereqs[p])

\* The rest of enqueue_pipeline_steps runs without a suspension: embedding is
\* queued, and FACE and CLASSIFICATION are queued at once when nothing precedes
\* them, or registered with the number of their prerequisites.
Finish(c) ==
    LET a    == asset[c]
        s    == steps[c]
        Waits(p) == p \in s /\ s \cap Prereqs[p] # {}
        Queued(k) == k \in s /\ (k = "embedding" \/ (k \in Pipes /\ ~Waits(k)))
    IN  /\ phase[c] = "putting"
        /\ todo[c] = {}
        /\ phase' = [phase EXCEPT ![c] = "over"]
        /\ stage' = [stage EXCEPT ![c] =
                        [k \in Steps |-> IF Queued(k) THEN "queued" ELSE stage[c][k]]]
        /\ pend' = [p \in Pipes |-> IF Waits(p)
                        THEN [pend[p] EXCEPT ![a] = PrereqCount(p, s)]
                        ELSE pend[p]]
        /\ owner' = [p \in Pipes |-> IF Waits(p)
                        THEN [owner[p] EXCEPT ![a] = c] ELSE owner[p]]
        /\ UNCHANGED <<asset, steps, todo, signals, ledger, faceSets, library, workerUp,
                       failures, crashes>>

\* The rerun loop reaches an asset: the chosen flags are reset first.
Rerun(c, a) ==
    /\ NextCall(c)
    /\ a \in library
    /\ MayStart(a)
    /\ \E s \in RerunChoices :
          /\ Call(c, a, "rerunning", s, s)
          /\ ledger' = [ledger EXCEPT ![a] = @ \ s]
    /\ UNCHANGED <<stage, signals, pend, owner, faceSets, library, workerUp,
                   failures, crashes>>

\* The rerun goes on when its last step is over; a remote step reports DONE on
\* the status queue after its signals, so those have been delivered by then. For
\* a step that was lost with the worker process it waits forever.
RerunIdle(c) ==
    /\ phase[c] = "rerunning"
    /\ \A k \in Steps : stage[c][k] \in {"none", "over", "failed"}
    /\ \A m \in signals : m.call # c

\* A remote step is requested and awaited, a local one runs on the main worker
\* in place; face detection first wipes the faces of the asset.
RerunStep(c) ==
    /\ RerunIdle(c)
    /\ \A k \in Steps : stage[c][k] # "failed"
    /\ \E k \in todo[c] :
          /\ \A j \in todo[c] : RerunRank[k] <= RerunRank[j]
          /\ todo' = [todo EXCEPT ![c] = @ \ {k}]
          /\ stage' = [stage EXCEPT ![c][k] = IF k \in Remote THEN "requested" ELSE "running"]
          /\ faceSets' = IF k = "faces" THEN [faceSets EXCEPT ![asset[c]] = 0]
                                        ELSE faceSets
    /\ UNCHANGED <<phase, asset, steps, signals, pend, owner, ledger, library, workerUp,
                   failures, crashes>>

\* All steps ran, or one raised and the job ends there.
RerunEnd(c) ==
    /\ RerunIdle(c)
    /\ todo[c] = {} \/ \E k \in Steps : stage[c][k] = "failed"
    /\ phase' = [phase EXCEPT ![c] = "over"]
    /\ UNCHANGED <<asset, steps, todo, stage, signals, pend, owner, ledger, faceSets, library, workerUp,
                   failures, crashes>>

-----------------------------------------------------------------------------
(* The worker process                                                        *)

\* _request_listener moves a request to the queue of its lane.
Listen(c, k) ==
    /\ workerUp
    /\ stage[c][k] = "requested"
    /\ stage' = [stage EXCEPT ![c][k] = "lane"]
    /\ UNCHANGED <<callVars, signals, pend, owner, ledger, faceSets, library, workerUp,
                   failures, crashes>>

\* A worker of the lane takes the job.
LaneStart(c, k) ==
    /\ stage[c][k] = "lane"
    /\ Cardinality({d \in Calls : stage[d][k] = "running"}) < PoolSize[k]
    /\ stage' = [stage EXCEPT ![c][k] = "running"]
    /\ UNCHANGED <<callVars, signals, pend, owner, ledger, faceSets, library, workerUp,
                   failures, crashes>>

\* How a job can end: persisted ("ok"), a clean return without a result (no
\* model, no file: "skip"), or an exception.
Outcomes == {"ok", "skip", "error"}

Ends(c, k, o) ==
    /\ o = "ok" \/ failures < MaxFailures
    /\ failures' = IF o = "ok" THEN failures ELSE failures + 1
    /\ ledger' = IF o = "ok" THEN [ledger EXCEPT ![asset[c]] = @ \cup {k}]
                             ELSE ledger

EndStage(o) == IF o = "error" THEN "failed" ELSE "over"

\* _run_tagging and _run_caption_with_preset: result and ledger flag in one
\* commit, then the signals, which a finally block sends whatever happened.
LaneEnd(c, k) ==
    /\ k \in Remote
    /\ stage[c][k] = "running"
    /\ \E o \in Outcomes :
          /\ Ends(c, k, o)
          /\ stage' = [stage EXCEPT ![c][k] = EndStage(o)]
    /\ signals' = signals \cup {[call |-> c, step |-> k, pipe |-> p] :
                                    p \in {q \in Pipes : k \in Prereqs[q]}}
    /\ UNCHANGED <<callVars, pend, owner, faceSets, library, workerUp, crashes>>

\* _remote_status_forwarder takes one signal from the status queue.
Forward(m) ==
    LET a == asset[m.call]
    IN  /\ m \in signals
        /\ signals' = signals \ {m}
        /\ pend' = CountDown(m.pipe, a)
        /\ stage' = Scheduled(m.pipe, a, stage)
        /\ UNCHANGED <<callVars, owner, ledger, faceSets, library, workerUp,
                       failures, crashes>>

-----------------------------------------------------------------------------
(* The background worker of the backend process (and, for the local steps of *)
(* a rerun, the main worker)                                                 *)

BackgroundBusy ==
    \E c \in Calls, k \in Local :
        phase[c] # "rerunning" /\ stage[c][k] \in {"running", "saved"}

\* _background_worker: one job at a time, the lowest priority number first.
BackgroundStart(c, k) ==
    /\ ~BackgroundBusy
    /\ stage[c][k] = "queued"
    /\ \A d \in Calls, j \in Local : stage[d][j] = "queued" => Priority[k] <= Priority[j]
    /\ stage' = [stage EXCEPT ![c][k] = "running"]
    /\ UNCHANGED <<callVars, signals, pend, owner, ledger, faceSets, library, workerUp,
                   failures, crashes>>

\* Heuristics, embedding and classification commit result and flag together;
\* embedding signals the classification counter in its finally block.
LocalEnd(c, k) ==
    LET a == asset[c]
    IN  /\ k \in Local \ {"faces"}
        /\ stage[c][k] = "running"
        /\ \E o \in Outcomes :
              /\ Ends(c, k, o)
              /\ LET ended == [stage EXCEPT ![c][k] = EndStage(o)]
                 IN  IF k = "embedding"
                     THEN /\ stage' = Scheduled("classification", a, ended)
                          /\ pend' = CountDown("classification", a)
                     ELSE stage' = ended /\ pend' = pend
        /\ UNCHANGED <<callVars, signals, owner, faceSets, library, workerUp, crashes>>

\* _run_face_job commits face rows one by one, never removing earlier ones ...
FaceSave(c) ==
    /\ stage[c]["faces"] = "running"
    /\ stage' = [stage EXCEPT ![c]["faces"] = "saved"]
    /\ faceSets' = [faceSets EXCEPT ![asset[c]] = @ + 1]
    /\ UNCHANGED <<callVars, signals, pend, owner, ledger, library, workerUp,
                   failures, crashes>>

\* ... and marks the ledger at the very end, or at once when there is nothing
\* to save (no model, no face, detection raised).
FaceEnd(c) ==
    /\ stage[c]["faces"] \in {"running", "saved"}
    /\ \E o \in Outcomes :
          /\ Ends(c, "faces", o)
          /\ o = "skip" => stage[c]["faces"] = "running"
          /\ stage' = [stage EXCEPT ![c]["faces"] = EndStage(o)]
    /\ UNCHANGED <<callVars, signals, pend, owner, faceSets, library, workerUp, crashes>>

-----------------------------------------------------------------------------
(* Crashes                                                                   *)

\* The last step the rerun reached is a remote one, whose DONE it may still await.
AwaitsRemote(c) ==
    /\ phase[c] = "rerunning"
    /\ \E k \in (steps[c] \ todo[c]) \cap Remote :
          \A j \in steps[c] \ todo[c] : RerunRank[j] <= RerunRank[k]

\* The worker process dies: its queues and running jobs are gone, and what it had
\* not flushed to the status queue may be: signals, and the DONE behind them, for
\* which a rerun then waits forever. Nothing restarts it before the backend.
WorkerCrash ==
    /\ workerUp
    /\ crashes < MaxCrashes
    /\ crashes' = crashes + 1
    /\ workerUp' = FALSE
    /\ signals' \in SUBSET signals
    /\ \E deaf \in SUBSET {c \in Calls : AwaitsRemote(c)} :
          /\ \A m \in signals \ signals' : phase[m.call] = "rerunning" => m.call \in deaf
          /\ phase' = [c \in Calls |-> IF c \in deaf THEN "lost" ELSE phase[c]]
    /\ stage' = [c \in Calls |-> [k \in Steps |->
                    IF k \in Remote /\ stage[c][k] \in {"lane", "running"}
                    THEN "lost" ELSE stage[c][k]]]
    /\ UNCHANGED <<asset, steps, todo, pend, owner, ledger, faceSets, library, failures>>

\* A new backend process starts with empty queues and registrations and a new
\* worker process; ledger and faces are in the database.
Fresh ==
    /\ workerUp' = TRUE
    /\ signals' = {}
    /\ pend' = [p \in Pipes |-> [a \in Assets |-> 0]]
    /\ owner' = [p \in Pipes |-> [a \in Assets |-> None]]
    /\ phase' = [c \in Calls |-> IF phase[c] \in {"idle", "over"} THEN phase[c] ELSE "lost"]
    /\ stage' = [c \in Calls |-> [k \in Steps |->
                    IF stage[c][k] \in Ended \cup {"none"} THEN stage[c][k] ELSE "lost"]]
    /\ UNCHANGED <<asset, steps, todo, ledger, faceSets, library, failures>>

BackendCrash == crashes < MaxCrashes /\ crashes' = crashes + 1 /\ Fresh

\* The user restarts a backend whose worker process died.
Restart == ~workerUp /\ crashes' = crashes /\ Fresh

-----------------------------------------------------------------------------
Pipelined(c)  == Begin(c) \/ PutRemote(c) \/ Finish(c)
Rerunning(c)  == RerunStep(c) \/ RerunEnd(c)
Lanes         == \E c \in Calls, k \in Remote : Listen(c, k) \/ LaneStart(c, k) \/ LaneEnd(c, k)
Forwarder     == \E m \in signals : Forward(m)
LocalWork     == \/ \E c \in Calls, k \in Local : BackgroundStart(c, k) \/ LocalEnd(c, k)
                 \/ \E c \in Calls : FaceSave(c) \/ FaceEnd(c)
Callers       == \E c \in Calls : Pipelined(c) \/ Rerunning(c)
CatchUps      == \E c \in Calls, a \in Assets : CatchUp(c, a)

Next ==
    \/ \E c \in Calls, a \in Assets : Import(c, a) \/ Rerun(c, a)
    \/ CatchUps
    \/ Callers
    \/ Lanes
    \/ Forwarder
    \/ LocalWork
    \/ WorkerCrash
    \/ BackendCrash
    \/ Restart

Spec == Init /\ [][Next]_vars

\* Each process keeps running; the user restarts a backend that lost its worker
\* process and runs the catch-up while photos are incomplete.
Fairness ==
    /\ WF_vars(Callers)
    /\ WF_vars(Lanes)
    /\ WF_vars(Forwarder)
    /\ WF_vars(LocalWork)
    /\ WF_vars(Restart)
    /\ WF_vars(CatchUps)

FairSpec == Spec /\ Fairness
-----------------------------------------------------------------------------
(* Properties                                                                *)

\* face_pipeline and classification_pipeline enqueue the job of a registration
\* at most once, whichever thread signals last and whatever else signals for
\* the same asset: a job that left the "none" stage never enters the queue again.
ScheduledOnce ==
    [][\A c \in Calls, p \in Pipes :
          stage[c][p] \notin {"none", "queued"} => stage'[c][p] # "queued"]_vars

\* queue.py's ordering constraint on the background worker: when FACE of a call
\* runs, the heuristics and the embedding of the same call are no longer under way
\* (FACE moves the file and overwrites the framing that heuristics computed).
FaceLast ==
    \A c \in Calls : stage[c]["faces"] \in {"running", "saved"} =>
        \A k \in steps[c] \cap {"heuristics", "embedding"} : stage[c][k] \in Ended

\* FACE waits for TAGGING and CAPTIONING, CLASSIFICATION for TAGGING and
\* EMBEDDING of its own call: none of them is under way once the job is queued, if the calls
\* of the photo come one after the other.
PrereqsOver ==
    \A c \in Calls, p \in Pipes :
        asset[c] \notin Overlapping /\ stage[c][p] \in {"queued", "running", "saved"} =>
        \A k \in steps[c] \cap Prereqs[p] : stage[c][k] \in Ended

\* A photo whose processing was cut short (a failed job, a crash, a signal that
\* came before its registration) gets every wanted step done in the end, if
\* the user runs the catch-up while something is missing.
Recovers == \A a \in Assets : a \in library ~> Wanted \subseteq ledger[a]

\* The inductive invariant behind ScheduledOnce and FaceLast, part by part,
\* over a job table st so that a step can be taken in two halves.
\* Jobs of the two early local steps never sit in a stage of the other lanes.
EarlyStages(st) ==
    \A c \in Calls, k \in {"heuristics", "embedding"} :
        st[c][k] \in {"none", "queued", "running"} \cup Ended

\* A call that has not begun has no jobs.
UnstartedCalls(st) ==
    \A c \in Calls : phase[c] \in {"idle", "collected"} =>
        \A k \in Steps : st[c][k] = "none"

\* While a call still puts its remote jobs, heuristics is out and nothing that
\* its last step queues or registers exists.
PuttingCalls(st) ==
    \A c \in Calls : phase[c] = "putting" =>
        /\ \A k \in {"embedding", "faces", "classification"} : st[c][k] = "none"
        /\ "heuristics" \in steps[c] => st[c]["heuristics"] # "none"

\* A rerun creates exactly the jobs it has worked off, none of them queued.
RerunCalls(st) ==
    \A c \in Calls : phase[c] = "rerunning" =>
        \A k \in Steps :
            /\ k \in todo[c] => st[c][k] = "none"
            /\ k \in steps[c] \ todo[c] => st[c][k] # "none"
            /\ k \in Local => st[c][k] # "queued"

\* A registration belongs to a call for that asset that has put all its jobs, and
\* the registered job does not exist yet.
Registrations(st) ==
    \A p \in Pipes, a \in Assets : pend[p][a] > 0 =>
        /\ owner[p][a] \in Calls
        /\ asset[owner[p][a]] = a
        /\ phase[owner[p][a]] = "over"
        /\ st[owner[p][a]][p] = "none"
        /\ \A k \in steps[owner[p][a]] \cap {"heuristics", "embedding"} :
              st[owner[p][a]][k] # "none"

\* A call that has a FACE job has the jobs FACE must follow.
FaceComplete(st) ==
    \A c \in Calls : st[c]["faces"] # "none" =>
        \A k \in steps[c] \cap {"heuristics", "embedding"} : st[c][k] # "none"

\* Every call that was made, and every signal, is about a photo.
CallsNamed ==
    /\ \A c \in Calls : phase[c] # "idle" => asset[c] \in Assets
    /\ \A m \in signals : phase[m.call] # "idle"

PipelineInv ==
    /\ TypeOK
    /\ CallsNamed
    /\ EarlyStages(stage)
    /\ UnstartedCalls(stage)
    /\ PuttingCalls(stage)
    /\ RerunCalls(stage)
    /\ Registrations(stage)
    /\ FaceComplete(stage)
    /\ FaceLast

\* "waiting for a signal nobody will send would strand the asset forever": as
\* long as a job is registered, one of its prerequisites still has to signal.
NotStranded ==
    \A p \in Pipes, a \in Assets : pend[p][a] > 0 =>
        LET c == owner[p][a]
        IN  \E k \in steps[c] \cap Prereqs[p] :
                \/ stage[c][k] \in {"requested", "lane", "queued", "running"}
                \/ [call |-> c, step |-> k, pipe |-> p] \in signals

\* "One job per asset; gated on ProcessingLedger.faces_done": faces are never
\* added to an asset whose ledger already marks face detection done.
FacesGated ==
    [][\A a \in Assets : faceSets'[a] > faceSets[a] => "faces" \notin ledger[a]]_vars
=============================================================================
