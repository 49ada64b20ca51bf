------------------------------ MODULE Workers ------------------------------
(***************************************************************************)
(* The job queue: the lanes of the API process, the worker process behind   *)
(* two multiprocessing queues, the callers that wait for a remote job, the  *)
(* stream to the page, and the resizing of a pool.                          *)
(*                                                                         *)
(* A subscriber's queue holds references: a JobStatus is read when it is    *)
(* taken out, not when it was put in.  A reference that is queued twice is  *)
(* as good as once, and the order of two jobs tells a subscriber nothing,   *)
(* so that such a queue is a set here.                                      *)
(***************************************************************************)
EXTENDS Integers, Sequences, FiniteSets, SequencesExt

CONSTANTS
    Job,           \* job ids
    Plans,         \* kinds of the jobs, and how often the bounded actions are taken
    Awaits,        \* the remote job that a rerun job runs
    Page,          \* the subscriber of the stream
    PoolSize,      \* workers of a lane of the worker process
    Targets        \* sizes a pool is set to

VARIABLES
    kind,        \* kind of each job, "none" for one that nobody enqueues
    status,      \* JobStatus of the API process, "none" when it has no such job
    real,        \* JobStatus where the job runs; "gone" when that process is
    lane,        \* waiting jobs of the API process, by lane
    parallel,    \* downloads whose task has been created
    putting,     \* remote jobs that a thread is putting into the request queue
    requests, messages,   \* the multiprocessing queues to and from the worker process
    worker,      \* the worker process: up, its lanes, the queue of its status forwarder
    inbox,       \* queue of each subscriber of the API process
    seen,        \* jobs on the page
    pool,        \* a pool that is resized: tasks, pills queued, tasks that are leaving, target
    left         \* uses left of the bounded actions (a bound)
vars == <<kind, status, real, lane, parallel, putting, requests, messages, worker, inbox, seen, pool, left>>
api  == <<lane, parallel, putting>>
ipc  == <<requests, messages, worker>>

Remote == {"tagging", "captioning"}

\* A rerun job awaits a remote job (_run_remote_step).
ASSUME PlanAssumption == /\ Page \notin Job /\ DOMAIN Awaits \subseteq Job
                         /\ \A p \in Plans :
                               /\ p.kind \in [Job -> STRING]
                               /\ \A j \in DOMAIN Awaits : p.kind[j] = "rerun" =>
                                     Awaits[j] \in Job /\ p.kind[Awaits[j]] \in Remote
ASSUME SizeAssumption == PoolSize \in Nat /\ Targets \subseteq Nat

Priority == [comfyui_run |-> 10, face |-> 45]
Lane(k) == CASE k \in Remote -> k
             [] k \in DOMAIN Priority -> "background"
             [] OTHER -> "main"
Ended == {"done", "error"}

\* _notify, and subscribe with what is sent first.
Notified(box, j)      == [s \in DOMAIN box |-> box[s] \cup {j}]
Subscribed(box, j, J) == [s \in DOMAIN box \cup {j} |-> IF s = j THEN J ELSE box[s]]

\* JobQueue.update, where the job runs in this process.
Update(j, p) == /\ status' = [status EXCEPT ![j] = p] /\ real' = [real EXCEPT ![j] = p]
                /\ inbox' = Notified(inbox, j)

Bounded(name) == left[name] > 0 /\ left' = [left EXCEPT ![name] = @ - 1]

(***************************************************************************)
(* The API process.                                                         *)
(***************************************************************************)
Awaited == {Awaits[j] : j \in {i \in DOMAIN Awaits : kind[i] = "rerun"}}

Enqueue(j) ==
    /\ real[j] = "none" /\ kind[j] \notin Remote \cup {"none"} /\ Update(j, "queued")
    /\ IF kind[j] = "download" THEN parallel' = parallel \cup {j} /\ UNCHANGED lane
       ELSE lane' = [lane EXCEPT ![Lane(kind[j])] = Append(@, j)] /\ UNCHANGED parallel
    /\ UNCHANGED <<kind, putting, ipc, seen, pool, left>>

Running(l) == {j \in Job : status[j] = "running" /\ kind[j] \notin Remote \cup {"download"} /\ Lane(kind[j]) = l}

\* First come, first served in the main lane; the background lane has priorities.
First(l) == IF l = "main" THEN {1}
            ELSE {i \in DOMAIN lane[l] : \A k \in DOMAIN lane[l] \ {i} :
                     LET p == Priority[kind[lane[l][i]]]  q == Priority[kind[lane[l][k]]]
                     IN  p < q \/ (p = q /\ i < k)}

\* The lane's worker takes a job, _run_job starts it.
Start(l) ==
    /\ lane[l] # <<>> /\ Running(l) = {}
    /\ \E i \in First(l) : Update(lane[l][i], "running") /\ lane' = [lane EXCEPT ![l] = RemoveAt(@, i)]
    /\ UNCHANGED <<kind, parallel, putting, ipc, seen, pool, left>>

StartParallel(j) ==
    /\ j \in parallel /\ Update(j, "running") /\ parallel' = parallel \ {j}
    /\ UNCHANGED <<kind, lane, putting, ipc, seen, pool, left>>

Finish(j, p) ==
    /\ status[j] = "running" /\ kind[j] \notin Remote \cup {"rerun"} /\ Update(j, p)
    /\ UNCHANGED <<kind, api, ipc, seen, pool, left>>

EnqueueRemote(j) ==
    /\ real[j] = "none" /\ kind[j] \in Remote /\ j \notin Awaited /\ Update(j, "queued")
    /\ putting' = putting \cup {j}
    /\ UNCHANGED <<kind, lane, parallel, ipc, seen, pool, left>>

Put(j) ==
    /\ j \in putting /\ putting' = putting \ {j} /\ requests' = Append(requests, j)
    /\ UNCHANGED <<kind, status, real, lane, parallel, messages, worker, inbox, seen, pool, left>>

\* Mutant: the subscription comes after the job has been sent off.
SubscribeAndSend(j) ==
    LET r == Awaits[j]
    IN  /\ status[j] = "running" /\ kind[j] = "rerun" /\ j \notin DOMAIN inbox
        /\ IF real[r] = "none"
           THEN Update(r, "queued") /\ putting' = putting \cup {r}
           ELSE r \notin putting /\ inbox' = Subscribed(inbox, j, {}) /\ UNCHANGED <<status, real, putting>>
        /\ UNCHANGED <<kind, lane, parallel, ipc, seen, pool, left>>

\* enqueue_remote_and_wait: subscribe, then enqueue_remote.
SendAndWait(j) ==
    LET r == Awaits[j]
    IN  /\ status[j] = "running" /\ kind[j] = "rerun" /\ real[r] = "none"
        /\ status' = [status EXCEPT ![r] = "queued"] /\ real' = [real EXCEPT ![r] = "queued"]
        /\ inbox' = Notified(Subscribed(inbox, j, {}), r)
        /\ putting' = putting \cup {r}
        /\ UNCHANGED <<kind, lane, parallel, ipc, seen, pool, left>>

\* The waiting job takes the updates out; when its remote job has ended, so does it
\* (_run_remote_step).
Hear(j) ==
    LET r == Awaits[j]
    IN  /\ j \in DOMAIN inbox \ {Page} /\ r \notin putting /\ inbox[j] # {}
        /\ IF r \in inbox[j] /\ status[r] \in Ended
           THEN /\ status' = [status EXCEPT ![j] = status[r]] /\ real' = [real EXCEPT ![j] = status[r]]
                /\ inbox' = Notified([s \in DOMAIN inbox \ {j} |-> inbox[s]], j)
           ELSE inbox' = [inbox EXCEPT ![j] = {}] /\ UNCHANGED <<status, real>>
        /\ UNCHANGED <<kind, api, ipc, seen, pool, left>>

\* Mutant: the status is changed and nobody is told.
ForwardQuietly ==
    /\ messages # <<>> /\ messages' = Tail(messages)
    /\ LET m == messages[1]
       IN  status' = IF status[m.job] = "none" THEN status ELSE [status EXCEPT ![m.job] = m.state]
    /\ UNCHANGED <<kind, real, api, requests, worker, inbox, seen, pool, left>>

\* _remote_status_forwarder: a message of a job this process does not know is dropped.
Forward ==
    /\ messages # <<>> /\ messages' = Tail(messages)
    /\ LET m == messages[1]
       IN  IF status[m.job] = "none" THEN UNCHANGED <<status, inbox>>
           ELSE status' = [status EXCEPT ![m.job] = m.state] /\ inbox' = Notified(inbox, m.job)
    /\ UNCHANGED <<kind, real, api, requests, worker, seen, pool, left>>

(***************************************************************************)
(* The worker process.                                                      *)
(***************************************************************************)
Busy(l) == {j \in Job : kind[j] = l /\ real[j] = "running"}

\* Mutant: the request stays in the queue until the job has been taken.
Peek ==
    /\ worker.up /\ requests # <<>>
    /\ LET j == requests[1]
       IN  /\ worker' = [worker EXCEPT !.lane[kind[j]] = Append(@, j), !.sub = @ \cup {j}]
           /\ requests' = IF j \in ToSet(worker.lane[kind[j]]) THEN Tail(requests) ELSE requests
    /\ UNCHANGED <<kind, status, real, api, messages, inbox, seen, pool, left>>

\* _request_listener: the job is enqueued under the id it has already.
Listen ==
    /\ worker.up /\ requests # <<>> /\ requests' = Tail(requests)
    /\ LET j == requests[1]
       IN  worker' = [worker EXCEPT !.lane[kind[j]] = Append(@, j), !.sub = @ \cup {j}]
    /\ UNCHANGED <<kind, status, real, api, messages, inbox, seen, pool, left>>

RemoteStart(l) ==
    /\ worker.up /\ worker.lane[l] # <<>> /\ Cardinality(Busy(l)) < PoolSize
    /\ LET j == worker.lane[l][1]
       IN  /\ real' = [real EXCEPT ![j] = "running"]
           /\ worker' = [worker EXCEPT !.lane[l] = Tail(@), !.sub = @ \cup {j}]
    /\ UNCHANGED <<kind, status, api, requests, messages, inbox, seen, pool, left>>

RemoteFinish(j, p) ==
    /\ worker.up /\ kind[j] \in Remote /\ real[j] = "running"
    /\ real' = [real EXCEPT ![j] = p]
    /\ worker' = [worker EXCEPT !.sub = @ \cup {j}]
    /\ UNCHANGED <<kind, status, api, requests, messages, inbox, seen, pool, left>>

\* _status_forwarder: the message carries what the status is by now.
Report ==
    /\ worker.up
    /\ \E j \in worker.sub :
          /\ worker' = [worker EXCEPT !.sub = @ \ {j}]
          /\ messages' = Append(messages, [job |-> j, state |-> real[j]])
    /\ UNCHANGED <<kind, status, real, api, requests, inbox, seen, pool, left>>

Lanes   == {"main", "background"}
Idle    == [l \in Remote |-> <<>>]
NoLanes == [l \in Lanes |-> <<>>]
Dead(J) == [j \in Job |-> IF j \in J /\ real[j] \in {"queued", "running"} THEN "gone" ELSE real[j]]

\* The worker process dies: nothing starts another one; messages it had not written are lost.
WorkerDies ==
    /\ worker.up /\ Bounded("deaths")
    /\ worker' = [up |-> FALSE, lane |-> Idle, sub |-> {}]
    /\ real' = Dead(ToSet(worker.lane["tagging"]) \cup ToSet(worker.lane["captioning"])
                    \cup Busy("tagging") \cup Busy("captioning"))
    /\ \E n \in 0..Len(messages) : messages' = SubSeq(messages, 1, n)
    /\ UNCHANGED <<kind, status, api, requests, inbox, seen, pool>>

(***************************************************************************)
(* The stream and the page.                                                 *)
(***************************************************************************)
\* Mutant: the snapshot has the jobs that are not over.
ConnectActive ==
    /\ Page \notin DOMAIN inbox
    /\ inbox' = Subscribed(inbox, Page, {j \in Job : status[j] \in {"queued", "running"}})
    /\ UNCHANGED <<kind, status, real, api, ipc, seen, pool, left>>

\* _event_generator subscribes, then sends a snapshot before the updates.
Connect ==
    /\ Page \notin DOMAIN inbox
    /\ inbox' = Subscribed(inbox, Page, {j \in Job : status[j] # "none"})
    /\ UNCHANGED <<kind, status, real, api, ipc, seen, pool, left>>

Send(j) ==
    /\ Page \in DOMAIN inbox /\ j \in inbox[Page]
    /\ seen' = [seen EXCEPT ![j] = status[j]]
    /\ inbox' = [inbox EXCEPT ![Page] = @ \ {j}]
    /\ UNCHANGED <<kind, status, real, api, ipc, pool, left>>

Disconnect ==
    /\ Page \in DOMAIN inbox /\ Bounded("reconnects")
    /\ inbox' = [s \in DOMAIN inbox \ {Page} |-> inbox[s]]
    /\ UNCHANGED <<kind, status, real, api, ipc, seen, pool>>

ClearDone ==
    /\ \E j \in Job : seen[j] \in Ended
    /\ Bounded("clears")
    /\ seen' = [j \in Job |-> IF seen[j] \in Ended THEN "none" ELSE seen[j]]
    /\ UNCHANGED <<kind, status, real, api, ipc, inbox, pool>>

\* Both processes start again: the jobs lived in memory only; the page keeps what it has.
Restart ==
    /\ Bounded("restarts")
    /\ status' = [j \in Job |-> "none"] /\ real' = Dead(Job)
    /\ lane' = NoLanes /\ parallel' = {} /\ putting' = {} /\ requests' = <<>> /\ messages' = <<>>
    /\ worker' = [up |-> TRUE, lane |-> Idle, sub |-> {}]
    /\ inbox' = <<>>
    /\ UNCHANGED <<kind, seen, pool>>

(***************************************************************************)
(* A pool of the API process (_scale_pool).                                 *)
(***************************************************************************)
\* Mutant: a resize that shrinks sends one pill, however many workers are too many.
ResizeByOne(t) ==
    /\ Bounded("resizes")
    /\ pool' = [pool EXCEPT !.tasks = IF t > @ THEN t ELSE @,
                            !.pills = IF t < pool.tasks THEN @ + 1 ELSE @,
                            !.target = t]
    /\ UNCHANGED <<kind, status, real, api, ipc, inbox, seen>>

\* Growing adds tasks, shrinking queues pills: a task that has still to take its pill, or has
\* taken it and is not yet forgotten, is counted as one that stays.
Resize(t) ==
    /\ Bounded("resizes")
    /\ pool' = [pool EXCEPT !.tasks = IF t > @ THEN t ELSE @,
                            !.pills = IF t < pool.tasks THEN @ + pool.tasks - t ELSE @,
                            !.target = t]
    /\ UNCHANGED <<kind, status, real, api, ipc, inbox, seen>>

TakePill ==
    /\ pool.pills > 0 /\ pool.tasks > pool.leaving
    /\ pool' = [pool EXCEPT !.pills = @ - 1, !.leaving = @ + 1]
    /\ UNCHANGED <<kind, status, real, api, ipc, inbox, seen, left>>

\* The done callback forgets the task.
Discarded ==
    /\ pool.leaving > 0
    /\ pool' = [pool EXCEPT !.tasks = @ - 1, !.leaving = @ - 1]
    /\ UNCHANGED <<kind, status, real, api, ipc, inbox, seen, left>>

Init ==
    /\ \E p \in Plans : kind = p.kind /\ left = p.left
    /\ status = [j \in Job |-> "none"] /\ real = status /\ seen = status
    /\ lane = NoLanes /\ parallel = {} /\ putting = {} /\ requests = <<>> /\ messages = <<>>
    /\ worker = [up |-> TRUE, lane |-> Idle, sub |-> {}]
    /\ inbox = [s \in {Page} |-> {}]
    /\ pool = [tasks |-> PoolSize, pills |-> 0, leaving |-> 0, target |-> PoolSize]

\* Everything the two processes and the connection do by themselves.
Runs ==
    \/ \E l \in Lanes : Start(l)
    \/ \E j \in Job :
          \/ StartParallel(j) \/ Put(j) \/ Send(j)
          \/ \E p \in Ended : Finish(j, p) \/ RemoteFinish(j, p)
    \/ \E j \in DOMAIN Awaits : SendAndWait(j) \/ Hear(j)
    \/ \E l \in Remote : RemoteStart(l)
    \/ Forward \/ Listen \/ Report \/ Connect
    \/ TakePill \/ Discarded

Next ==
    \/ Runs
    \/ \E j \in Job : Enqueue(j) \/ EnqueueRemote(j)
    \/ \E t \in Targets : Resize(t)
    \/ Disconnect \/ ClearDone \/ WorkerDies \/ Restart

Spec == Init /\ [][Next]_vars

\* The event loops, the threads of the two queues and the jobs themselves go on; every one
\* of these steps brings something to an end, so that fairness to all of them is enough.
FairSpec == Spec /\ WF_vars(Runs)

(***************************************************************************)
(* Properties.                                                              *)
(***************************************************************************)
\* The queue, with its second process, its shared JobStatus objects and its late messages,
\* is a JobLifecycle: no job runs twice, none goes back on the page.
Lifecycle == INSTANCE JobLifecycle WITH phase <- real, shown <- seen
IsLifecycle == Lifecycle!Spec

\* A stream that has nothing left to send has brought the page up to date, whatever ended
\* while it was not connected (_event_generator).
StreamCurrent ==
    Page \in DOMAIN inbox /\ inbox[Page] = {} =>
        \A j \in Job : status[j] \in {"none", seen[j]} \/ (seen[j] = "none" /\ status[j] \in Ended)

\* enqueue_remote_and_wait comes back, as long as the worker process lives: the end of the
\* remote job is not missed.
WaitsEnd ==
    \A j \in Job : (kind[j] = "rerun" /\ status[j] = "running")
                    ~> (status[j] \in Ended \cup {"none"} \/ ~worker.up)

\* A job that runs is seen to end, if only once the page is connected again, unless the
\* process it runs in or the one that knows of it has gone.
EndsShown ==
    \A j \in Job : (real[j] = "running" /\ status[j] # "none" /\ worker.up)
                    ~> (seen[j] \in Ended \/ status[j] = "none" \/ ~worker.up)

\* However resizes, pills that wait behind jobs and workers that are just leaving overlap, a
\* pool comes down to no more workers than it was last asked to have: none that is too many
\* is left without a pill.
PoolFits == pool.tasks - pool.pills - pool.leaving <= pool.target
=============================================================================
