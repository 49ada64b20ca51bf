--------------------------- MODULE PipelineProofs ---------------------------
(***************************************************************************)
(* Proofs about Pipeline for every set of assets and calls, every choice of *)
(* steps, with crashes, failures, reruns and overlapping catch-ups.         *)
(***************************************************************************)
EXTENDS Pipeline, FiniteSetTheorems, TLAPS

\* A call waits for at most two prerequisites, so their number is a natural one.
LEMMA PrereqCountType ==
    ASSUME NEW p \in Pipes, NEW s \in SUBSET Steps
    PROVE  PrereqCount(p, s) \in Nat
<1>1. IsFiniteSet(Prereqs[p])
  <2>1. Prereqs[p] = {"tags", "caption"} \/ Prereqs[p] = {"tags", "embedding"}
    BY DEF Prereqs, Pipes, Remote
  <2>2. IsFiniteSet({"tags", "caption"}) /\ IsFiniteSet({"tags", "embedding"})
    <3>1. IsFiniteSet({"tags"})
      BY FS_Singleton
    <3>2. IsFiniteSet({"tags"} \cup {"caption"}) /\ IsFiniteSet({"tags"} \cup {"embedding"})
      BY <3>1, FS_AddElement
    <3>3. /\ {"tags"} \cup {"caption"} = {"tags", "caption"}
          /\ {"tags"} \cup {"embedding"} = {"tags", "embedding"}
      OBVIOUS
    <3> QED  BY <3>2, <3>3
  <2> QED  BY <2>1, <2>2
<1>2. IsFiniteSet(s \cap Prereqs[p])
  BY <1>1, FS_Subset, s \cap Prereqs[p] \subseteq Prereqs[p]
<1> QED  BY <1>2, FS_CardinalityType DEF PrereqCount

\* The empty backend has the types of TypeOK.
LEMMA TypeInit == Init => TypeOK
BY BoundAssumption DEF Init, TypeOK, NoStages, Phases, Stages, Pipes

-----------------------------------------------------------------------------
(* Type correctness, one lemma per group of actions                          *)

\* A signal leaves the counters natural: it counts only a registered asset down.
LEMMA CountDownType ==
    ASSUME TypeOK, NEW p \in Pipes, NEW a
    PROVE  CountDown(p, a) \in [Pipes -> [Assets -> Nat]]
<1>1. CASE a \in Assets
  BY <1>1 DEF TypeOK, CountDown
<1>2. CASE a \notin Assets
  BY <1>2 DEF TypeOK, CountDown
<1> QED  BY <1>1, <1>2

\* Scheduling a job keeps the job table a table of stages.
LEMMA ScheduledType ==
    ASSUME TypeOK, NEW p \in Pipes, NEW a,
           NEW st \in [Calls -> [Steps -> Stages]]
    PROVE  Scheduled(p, a, st) \in [Calls -> [Steps -> Stages]]
BY DEF Scheduled, Stages

\* A new import, catch-up or rerun keeps the types.
LEMMA TypeRequests ==
    ASSUME TypeOK, NEW c \in Calls, NEW a \in Assets,
           Import(c, a) \/ CatchUp(c, a) \/ Rerun(c, a)
    PROVE  TypeOK'
<1> USE WantedAssumption, ScopeAssumption DEF TypeOK, Phases, callVars, Call
<1>1. CASE Import(c, a)
  BY <1>1 DEF Import
<1>2. CASE CatchUp(c, a)
  BY <1>2 DEF CatchUp, Missing
<1>3. CASE Rerun(c, a)
  BY <1>3 DEF Rerun
<1> QED  BY <1>1, <1>2, <1>3

\* The steps of enqueue_pipeline_steps up to its last await, and the rerun loop, keep the types.
LEMMA TypeCallers ==
    ASSUME TypeOK, NEW c \in Calls,
           Begin(c) \/ PutRemote(c) \/ RerunStep(c) \/ RerunEnd(c)
    PROVE  TypeOK'
<1> USE DEF TypeOK, Phases, callVars
<1>1. CASE Begin(c)
  BY <1>1 DEF Begin, Stages
<1>2. CASE PutRemote(c)
  BY <1>2 DEF PutRemote, Stages
<1>3. CASE RerunStep(c)
  <2>1. stage' \in [Calls -> [Steps -> Stages]] /\ todo' \in [Calls -> SUBSET Steps]
    BY <1>3 DEF RerunStep, Stages
  <2>2. faceSets' \in [Assets -> Nat]
    <3>1. CASE asset[c] \in Assets
      BY <1>3, <3>1 DEF RerunStep
    <3>2. CASE asset[c] \notin Assets
      BY <1>3, <3>2 DEF RerunStep
    <3> QED  BY <3>1, <3>2
  <2> QED  BY <1>3, <2>1, <2>2 DEF RerunStep
<1>4. CASE RerunEnd(c)
  BY <1>4 DEF RerunEnd, RerunIdle
<1> QED  BY <1>1, <1>2, <1>3, <1>4

\* The registrations that end enqueue_pipeline_steps keep the types.
LEMMA TypeFinish ==
    ASSUME TypeOK, NEW c \in Calls, Finish(c)
    PROVE  TypeOK'
<1>1. phase' \in [Calls -> Phases]
  BY DEF TypeOK, Finish, Phases
<1>2. stage' \in [Calls -> [Steps -> Stages]]
  BY DEF TypeOK, Finish, Stages
<1>3. pend' \in [Pipes -> [Assets -> Nat]]
  BY PrereqCountType DEF TypeOK, Finish
<1>4. owner' \in [Pipes -> [Assets -> Calls \cup {None}]]
  BY DEF TypeOK, Finish
<1> QED  BY <1>1, <1>2, <1>3, <1>4 DEF TypeOK, Finish

\* The end of a job, however it comes, keeps the ledger and the failure count typed.
LEMMA EndsType ==
    ASSUME TypeOK, NEW c, NEW k \in Steps, NEW o, Ends(c, k, o)
    PROVE  ledger' \in [Assets -> SUBSET Steps] /\ failures' \in Nat
<1>1. failures' \in Nat
  BY DEF TypeOK, Ends
<1>2. ledger' = ledger \/ ledger' = [ledger EXCEPT ![asset[c]] = @ \cup {k}]
  BY DEF Ends
<1>3. CASE asset[c] \in Assets
  BY <1>1, <1>2, <1>3 DEF TypeOK
<1>4. CASE asset[c] \notin Assets
  BY <1>1, <1>2, <1>4 DEF TypeOK
<1> QED  BY <1>3, <1>4

\* The steps of the lanes, the background worker and the face job keep the types.
LEMMA TypeWorkers ==
    ASSUME TypeOK, NEW c \in Calls, NEW k \in Steps,
           \/ Listen(c, k) \/ LaneStart(c, k) \/ LaneEnd(c, k)
           \/ BackgroundStart(c, k) \/ FaceSave(c) \/ FaceEnd(c)
    PROVE  TypeOK'
<1>1. CASE Listen(c, k)
  BY <1>1 DEF Listen, TypeOK, callVars, Stages
<1>2. CASE LaneStart(c, k)
  BY <1>2 DEF LaneStart, TypeOK, callVars, Stages
<1>3. CASE LaneEnd(c, k)
  <2>1. PICK o \in Outcomes : Ends(c, k, o) /\ stage' = [stage EXCEPT ![c][k] = EndStage(o)]
    BY <1>3 DEF LaneEnd
  <2>2. stage' \in [Calls -> [Steps -> Stages]]
    BY <2>1 DEF TypeOK, EndStage, Stages
  <2>3. signals' \subseteq Signal
    BY <1>3 DEF LaneEnd, Signal, TypeOK
  <2> QED  BY <1>3, <2>1, <2>2, <2>3, EndsType DEF LaneEnd, TypeOK, callVars
<1>4. CASE BackgroundStart(c, k)
  BY <1>4 DEF BackgroundStart, TypeOK, callVars, Stages
<1>5. CASE FaceSave(c)
  <2>1. stage' \in [Calls -> [Steps -> Stages]]
    BY <1>5 DEF FaceSave, TypeOK, Stages
  <2>2. faceSets' \in [Assets -> Nat]
    <3>1. CASE asset[c] \in Assets
      BY <1>5, <3>1 DEF FaceSave, TypeOK
    <3>2. CASE asset[c] \notin Assets
      BY <1>5, <3>2 DEF FaceSave, TypeOK
    <3> QED  BY <3>1, <3>2
  <2> QED  BY <1>5, <2>1, <2>2 DEF FaceSave, TypeOK, callVars
<1>6. CASE FaceEnd(c)
  <2>1. PICK o \in Outcomes :
            Ends(c, "faces", o) /\ stage' = [stage EXCEPT ![c]["faces"] = EndStage(o)]
    BY <1>6 DEF FaceEnd
  <2>2. stage' \in [Calls -> [Steps -> Stages]]
    BY <2>1 DEF TypeOK, EndStage, Stages
  <2>3. "faces" \in Steps
    BY DEF Steps, Local
  <2> QED  BY <1>6, <2>1, <2>2, <2>3, EndsType DEF FaceEnd, TypeOK, callVars
<1> QED  BY <1>1, <1>2, <1>3, <1>4, <1>5, <1>6

\* A signal taken off the status queue keeps the types.
LEMMA TypeForward ==
    ASSUME TypeOK, NEW m \in signals, Forward(m)
    PROVE  TypeOK'
<1>1. m.pipe \in Pipes
  BY DEF TypeOK, Signal
<1>2. pend' \in [Pipes -> [Assets -> Nat]]
  BY <1>1, CountDownType DEF Forward
<1>3. stage' \in [Calls -> [Steps -> Stages]]
  BY <1>1, ScheduledType DEF Forward, TypeOK
<1> QED  BY <1>2, <1>3 DEF TypeOK, Forward, callVars

\* The end of a heuristics, embedding or classification job keeps the types.
LEMMA TypeLocalEnd ==
    ASSUME TypeOK, NEW c \in Calls, NEW k \in Local, LocalEnd(c, k)
    PROVE  TypeOK'
<1>1. PICK o \in Outcomes : Ends(c, k, o) /\
          LET ended == [stage EXCEPT ![c][k] = EndStage(o)]
          IN  IF k = "embedding"
              THEN /\ stage' = Scheduled("classification", asset[c], ended)
                   /\ pend' = CountDown("classification", asset[c])
              ELSE stage' = ended /\ pend' = pend
  BY DEF LocalEnd
<1>2. [stage EXCEPT ![c][k] = EndStage(o)] \in [Calls -> [Steps -> Stages]]
  BY DEF TypeOK, EndStage, Stages
<1>3. pend' \in [Pipes -> [Assets -> Nat]] /\ stage' \in [Calls -> [Steps -> Stages]]
  <2>1. "classification" \in Pipes
    BY DEF Pipes
  <2>2. CASE k = "embedding"
    <3>1. pend' = CountDown("classification", asset[c])
      BY <1>1, <2>2
    <3>2. stage' = Scheduled("classification", asset[c], [stage EXCEPT ![c][k] = EndStage(o)])
      BY <1>1, <2>2
    <3>3. pend' \in [Pipes -> [Assets -> Nat]]
      BY <2>1, <3>1, CountDownType
    <3>4. stage' \in [Calls -> [Steps -> Stages]]
      BY <1>2, <2>1, <3>2, ScheduledType
    <3> QED  BY <3>3, <3>4
  <2>3. CASE k # "embedding"
    BY <1>1, <1>2, <2>3 DEF TypeOK
  <2> QED  BY <2>2, <2>3
<1>4. ledger' \in [Assets -> SUBSET Steps] /\ failures' \in Nat
  BY <1>1, EndsType DEF Steps
<1> QED  BY <1>3, <1>4 DEF TypeOK, LocalEnd, callVars

\* Crashes and restarts keep the types.
LEMMA TypeCrashes ==
    ASSUME TypeOK, WorkerCrash \/ BackendCrash \/ Restart
    PROVE  TypeOK'
<1>1. CASE WorkerCrash
  <2>1. stage' \in [Calls -> [Steps -> Stages]]
    BY <1>1 DEF WorkerCrash, TypeOK, Stages
  <2>2. signals' \subseteq Signal /\ crashes' \in Nat
    BY <1>1 DEF WorkerCrash, TypeOK
  <2>3. phase' \in [Calls -> Phases]
    BY <1>1 DEF WorkerCrash, TypeOK, Phases
  <2> QED  BY <1>1, <2>1, <2>2, <2>3 DEF WorkerCrash, TypeOK
<1>2. CASE Fresh /\ crashes' \in Nat
  <2>1. phase' \in [Calls -> Phases]
    BY <1>2 DEF Fresh, TypeOK, Phases
  <2>2. stage' \in [Calls -> [Steps -> Stages]]
    BY <1>2 DEF Fresh, TypeOK, Stages
  <2> QED  BY <1>2, <2>1, <2>2 DEF Fresh, TypeOK
<1>3. BackendCrash \/ Restart => Fresh /\ crashes' \in Nat
  BY DEF BackendCrash, Restart, TypeOK
<1> QED  BY <1>1, <1>2, <1>3

\* Every step of the system keeps the types.
LEMMA TypeNext == TypeOK /\ [Next]_vars => TypeOK'
<1> SUFFICES ASSUME TypeOK, [Next]_vars PROVE TypeOK'
  OBVIOUS
<1>1. CASE \E c \in Calls, a \in Assets : Import(c, a) \/ Rerun(c, a)
  BY <1>1, TypeRequests
<1>2. CASE CatchUps
  BY <1>2, TypeRequests DEF CatchUps
<1>3. CASE Callers
  BY <1>3, TypeCallers, TypeFinish DEF Callers, Pipelined, Rerunning
<1>4. CASE Lanes
  BY <1>4, TypeWorkers DEF Lanes, Steps
<1>5. CASE Forwarder
  BY <1>5, TypeForward DEF Forwarder
<1>6. CASE LocalWork
  <2>1. CASE \E c \in Calls, k \in Local : BackgroundStart(c, k) \/ LocalEnd(c, k)
    BY <2>1, TypeWorkers, TypeLocalEnd DEF Steps
  <2>2. CASE \E c \in Calls : FaceSave(c) \/ FaceEnd(c)
    BY <2>2, TypeWorkers, "faces" \in Steps DEF Steps, Local
  <2> QED  BY <1>6, <2>1, <2>2 DEF LocalWork
<1>7. CASE WorkerCrash \/ BackendCrash \/ Restart
  BY <1>7, TypeCrashes
<1>8. CASE UNCHANGED vars
  BY <1>8 DEF vars, callVars, TypeOK
<1> QED  BY <1>1, <1>2, <1>3, <1>4, <1>5, <1>6, <1>7, <1>8 DEF Next

-----------------------------------------------------------------------------
(* The invariant                                                             *)

\* FaceLast over a job table.
FaceFollows(st) ==
    \A c \in Calls : st[c]["faces"] \in {"running", "saved"} =>
        \A k \in steps[c] \cap {"heuristics", "embedding"} : st[c][k] \in Ended

\* What the step of a job or of a call has to keep, over a job table.
Orderly(st) ==
    /\ EarlyStages(st)
    /\ UnstartedCalls(st)
    /\ PuttingCalls(st)
    /\ RerunCalls(st)
    /\ Registrations(st)
    /\ FaceComplete(st)
    /\ FaceFollows(st)

\* The invariant is the types, the naming of calls and the order of the job table.
LEMMA InvIsOrderly == PipelineInv <=> TypeOK /\ CallsNamed /\ Orderly(stage)
BY DEF PipelineInv, Orderly, FaceLast, FaceFollows

\* A job that exists moves on to a later stage without entering the queue.
LEMMA JobMoves ==
    ASSUME TypeOK, Orderly(stage), NEW c \in Calls, NEW k \in Steps, NEW y \in Stages,
           stage[c][k] \notin Ended \cup {"none"},
           y \notin {"none", "queued"},
           k \in {"heuristics", "embedding"} => y \in {"running"} \cup Ended,
           k = "faces" /\ y \in {"running", "saved"} =>
               \A j \in steps[c] \cap {"heuristics", "embedding"} : stage[c][j] \in Ended
    PROVE  Orderly([stage EXCEPT ![c][k] = y])
<1> DEFINE st == [stage EXCEPT ![c][k] = y]
<1>1. \A d \in Calls, j \in Steps :
          st[d][j] = IF d = c /\ j = k THEN y ELSE stage[d][j]
  BY DEF TypeOK
<1>2. {"heuristics", "embedding", "classification", "faces"} \subseteq Steps
  BY DEF Steps, Local
<1> HIDE DEF st
<1>3. EarlyStages(st)
  BY <1>1, <1>2 DEF Orderly, EarlyStages
<1>4. UnstartedCalls(st)
  BY <1>1 DEF Orderly, UnstartedCalls
<1>5. PuttingCalls(st)
  BY <1>1, <1>2 DEF Orderly, PuttingCalls
<1>6. RerunCalls(st)
  BY <1>1 DEF Orderly, RerunCalls
<1>7. Registrations(st)
  BY <1>1, <1>2 DEF Orderly, Registrations, Pipes
<1>8. FaceComplete(st)
  BY <1>1, <1>2 DEF Orderly, FaceComplete
<1>9. FaceFollows(st)
  BY <1>1, <1>2 DEF Orderly, FaceFollows
<1> QED  BY <1>3, <1>4, <1>5, <1>6, <1>7, <1>8, <1>9 DEF Orderly, st

\* A signal keeps the invariant: the job it may schedule does not exist yet.
LEMMA SignalCounts ==
    ASSUME TypeOK, NEW st \in [Calls -> [Steps -> Stages]], Orderly(st),
           NEW p \in Pipes, NEW a \in Assets,
           stage' = Scheduled(p, a, st), pend' = CountDown(p, a),
           UNCHANGED <<callVars, owner>>
    PROVE  Orderly(stage)'
<1>1. \A q \in Pipes, b \in Assets : pend'[q][b] > 0 => pend[q][b] > 0
  BY DEF TypeOK, CountDown
<1>2. CASE pend[p][a] # 1
  <2>1. stage' = st
    BY <1>2 DEF Scheduled
  <2> QED
    BY <1>1, <2>1 DEF callVars, Orderly, EarlyStages, UnstartedCalls, PuttingCalls,
                      RerunCalls, Registrations, FaceComplete, FaceFollows
<1>3. CASE pend[p][a] = 1
  <2> DEFINE o == owner[p][a]
  <2>1. /\ o \in Calls /\ asset[o] = a /\ phase[o] = "over" /\ st[o][p] = "none"
        /\ \A k \in steps[o] \cap {"heuristics", "embedding"} : st[o][k] # "none"
    BY <1>3 DEF Orderly, Registrations
  <2>2. p \in Steps \ {"heuristics", "embedding"}
    BY DEF Pipes, Steps, Local
  <2>3. \A d \in Calls, j \in Steps :
            stage'[d][j] = IF d = o /\ j = p THEN "queued" ELSE st[d][j]
    BY <1>3, <2>1, <2>2 DEF Scheduled
  <2>4. pend'[p][a] = 0
    BY <1>3 DEF CountDown, TypeOK
  <2>5. {"heuristics", "embedding", "classification", "faces"} \subseteq Steps
    BY DEF Steps, Local
  <2> HIDE DEF o
  <2> USE DEF callVars, Orderly
  <2>6. EarlyStages(stage)'
    BY <2>2, <2>3, <2>5 DEF EarlyStages
  <2>7. UnstartedCalls(stage)'
    BY <2>1, <2>3 DEF UnstartedCalls
  <2>8. PuttingCalls(stage)'
    BY <2>1, <2>3, <2>5 DEF PuttingCalls
  <2>9. RerunCalls(stage)'
    BY <2>1, <2>3 DEF RerunCalls
  <2>10. Registrations(stage)'
    <3> SUFFICES ASSUME NEW q \in Pipes, NEW b \in Assets, pend'[q][b] > 0
                 PROVE  /\ owner[q][b] \in Calls
                        /\ asset[owner[q][b]] = b
                        /\ phase[owner[q][b]] = "over"
                        /\ stage'[owner[q][b]][q] = "none"
                        /\ \A k \in steps[owner[q][b]] \cap {"heuristics", "embedding"} :
                              stage'[owner[q][b]][k] # "none"
      BY DEF Registrations
    <3>1. /\ owner[q][b] \in Calls /\ asset[owner[q][b]] = b
          /\ phase[owner[q][b]] = "over" /\ st[owner[q][b]][q] = "none"
          /\ \A k \in steps[owner[q][b]] \cap {"heuristics", "embedding"} :
                st[owner[q][b]][k] # "none"
      BY <1>1 DEF Registrations
    <3>2. ~(q = p /\ owner[q][b] = o)
      BY <2>1, <2>4, <3>1
    <3>3. q \in Steps
      BY DEF Pipes, Steps, Local
    <3> QED  BY <2>3, <2>5, <3>1, <3>2, <3>3
  <2>11. FaceComplete(stage)'
    <3> SUFFICES ASSUME NEW d \in Calls, stage'[d]["faces"] # "none",
                        NEW k \in steps[d] \cap {"heuristics", "embedding"}
                 PROVE  stage'[d][k] # "none"
      BY DEF FaceComplete
    <3>1. CASE d = o /\ p = "faces"
      BY <2>1, <2>2, <2>3, <2>5, <3>1
    <3>2. CASE ~(d = o /\ p = "faces")
      BY <2>2, <2>3, <2>5, <3>2 DEF FaceComplete
    <3> QED  BY <3>1, <3>2
  <2>12. FaceFollows(stage)'
    <3> SUFFICES ASSUME NEW d \in Calls, stage'[d]["faces"] \in {"running", "saved"},
                        NEW k \in steps[d] \cap {"heuristics", "embedding"}
                 PROVE  stage'[d][k] \in Ended
      BY DEF FaceFollows
    <3>1. st[d]["faces"] \in {"running", "saved"}
      BY <2>3, <2>5
    <3> QED  BY <2>2, <2>3, <2>5, <3>1 DEF FaceFollows
  <2> QED  BY <2>6, <2>7, <2>8, <2>9, <2>10, <2>11, <2>12
<1> QED  BY <1>2, <1>3

-----------------------------------------------------------------------------
(* Every step keeps the invariant                                            *)

\* The empty backend satisfies the invariant.
LEMMA InvInit == Init => PipelineInv
<1> SUFFICES ASSUME Init PROVE PipelineInv
  OBVIOUS
<1>1. TypeOK
  BY TypeInit
<1>2. \A c \in Calls, k \in Steps : stage[c][k] = "none"
  BY DEF Init, NoStages
<1>3. {"heuristics", "embedding", "classification", "faces"} \subseteq Steps
  BY DEF Steps, Local
<1>4. CallsNamed /\ Registrations(stage) /\ PuttingCalls(stage) /\ RerunCalls(stage)
  BY DEF Init, CallsNamed, Registrations, PuttingCalls, RerunCalls
<1> QED
  BY <1>1, <1>2, <1>3, <1>4 DEF PipelineInv, EarlyStages, UnstartedCalls, FaceComplete, FaceLast

\* A new call: Import, CatchUp and Rerun take an idle call number.
LEMMA InvRequests ==
    ASSUME PipelineInv, NEW c \in Calls, NEW a \in Assets,
           Import(c, a) \/ CatchUp(c, a) \/ Rerun(c, a)
    PROVE  PipelineInv'
<1>1. /\ phase[c] = "idle"
      /\ \A k \in Steps : stage[c][k] = "none"
      /\ UNCHANGED <<stage, pend, owner, signals>>
  BY CallsAssumption DEF Import, CatchUp, Rerun, NextCall, PipelineInv, UnstartedCalls
<1>2. PICK s \in SUBSET Steps, t \in SUBSET Steps, q \in {"collected", "rerunning"} :
          Call(c, a, q, s, t) /\ (q = "rerunning" => s = t)
  <2>1. CASE Import(c, a)
    BY <2>1, WantedAssumption DEF Import
  <2>2. CASE CatchUp(c, a)
    BY <2>2, WantedAssumption DEF CatchUp, Missing
  <2>3. CASE Rerun(c, a)
    BY <2>3, ScopeAssumption DEF Rerun
  <2> QED  BY <2>1, <2>2, <2>3
<1>3. TypeOK'
  BY TypeRequests DEF PipelineInv
<1>4. /\ \A d \in Calls : d # c => /\ phase'[d] = phase[d] /\ asset'[d] = asset[d]
                                   /\ steps'[d] = steps[d] /\ todo'[d] = todo[d]
      /\ phase'[c] = q /\ asset'[c] = a /\ steps'[c] = s /\ todo'[c] = t
  BY <1>2 DEF Call, PipelineInv, TypeOK
<1>5. {"heuristics", "embedding", "classification", "faces"} \subseteq Steps
  BY DEF Steps, Local
<1> USE DEF PipelineInv
<1>6. CallsNamed'
  BY <1>1, <1>4 DEF CallsNamed, TypeOK, Signal
<1>7. EarlyStages(stage)' /\ UnstartedCalls(stage)' /\ PuttingCalls(stage)'
  BY <1>1, <1>4 DEF EarlyStages, UnstartedCalls, PuttingCalls
<1>8. RerunCalls(stage)'
  BY <1>1, <1>2, <1>4 DEF RerunCalls
<1>9. Registrations(stage)'
  BY <1>1, <1>4 DEF Registrations
<1>10. FaceComplete(stage)' /\ FaceLast'
  BY <1>1, <1>4, <1>5 DEF FaceComplete, FaceLast
<1> QED  BY <1>3, <1>6, <1>7, <1>8, <1>9, <1>10

\* Queueing heuristics keeps the invariant.
LEMMA InvBegin ==
    ASSUME PipelineInv, NEW c \in Calls, Begin(c)
    PROVE  PipelineInv'
<1>1. TypeOK'
  BY TypeCallers DEF PipelineInv
<1>2. {"heuristics", "embedding", "classification", "faces"} \subseteq Steps
  BY DEF Steps, Local
<1>3. /\ phase[c] = "collected"
      /\ \A k \in Steps : stage[c][k] = "none"
      /\ UNCHANGED <<asset, steps, pend, owner, signals>>
      /\ \A d \in Calls : phase'[d] = IF d = c THEN "putting" ELSE phase[d]
      /\ \A d \in Calls : d # c => todo'[d] = todo[d]
      /\ \A d \in Calls, j \in Steps :
            stage'[d][j] = IF d = c /\ j = "heuristics" /\ "heuristics" \in steps[c]
                           THEN "queued" ELSE stage[d][j]
  BY <1>2 DEF PipelineInv, TypeOK, Begin, UnstartedCalls
<1> USE DEF PipelineInv
<1>4. CallsNamed'
  BY <1>3 DEF CallsNamed, TypeOK, Signal
<1>5. EarlyStages(stage)' /\ UnstartedCalls(stage)' /\ PuttingCalls(stage)'
  BY <1>2, <1>3 DEF EarlyStages, UnstartedCalls, PuttingCalls
<1>6. RerunCalls(stage)'
  BY <1>3 DEF RerunCalls
<1>7. Registrations(stage)'
  BY <1>2, <1>3 DEF Registrations, Pipes
<1>8. FaceComplete(stage)' /\ FaceLast'
  BY <1>2, <1>3 DEF FaceComplete, FaceLast
<1> QED  BY <1>1, <1>4, <1>5, <1>6, <1>7, <1>8

\* Putting a tagging or caption request keeps the invariant.
LEMMA InvPutRemote ==
    ASSUME PipelineInv, NEW c \in Calls, PutRemote(c)
    PROVE  PipelineInv'
<1>1. TypeOK'
  BY TypeCallers DEF PipelineInv
<1>2. {"heuristics", "embedding", "classification", "faces"} \subseteq Steps
  BY DEF Steps, Local
<1>3. PICK k \in Remote :
      /\ phase[c] = "putting"
      /\ UNCHANGED <<phase, asset, steps, pend, owner, signals>>
      /\ \A d \in Calls : d # c => todo'[d] = todo[d]
      /\ \A d \in Calls, j \in Steps :
            stage'[d][j] = IF d = c /\ j = k THEN "requested" ELSE stage[d][j]
  BY DEF PipelineInv, TypeOK, PutRemote, Remote, Steps
<1>4. k \in Steps /\ k \notin {"heuristics", "embedding", "classification", "faces"}
  BY DEF Remote, Steps
<1> USE DEF PipelineInv
<1>5. CallsNamed'
  BY <1>3 DEF CallsNamed, TypeOK, Signal
<1>6. EarlyStages(stage)' /\ UnstartedCalls(stage)' /\ PuttingCalls(stage)'
  BY <1>2, <1>3, <1>4 DEF EarlyStages, UnstartedCalls, PuttingCalls
<1>7. RerunCalls(stage)' /\ Registrations(stage)'
  BY <1>2, <1>3, <1>4 DEF RerunCalls, Registrations, Pipes
<1>8. FaceComplete(stage)' /\ FaceLast'
  BY <1>2, <1>3, <1>4 DEF FaceComplete, FaceLast
<1> QED  BY <1>1, <1>5, <1>6, <1>7, <1>8

\* Queueing the local jobs and registering the deferred ones keeps the invariant: the
\* registered job does not exist, and the jobs FACE follows do.
LEMMA InvFinish ==
    ASSUME PipelineInv, NEW c \in Calls, Finish(c)
    PROVE  PipelineInv'
<1> DEFINE a == asset[c]
           Waits(p) == p \in steps[c] /\ steps[c] \cap Prereqs[p] # {}
           Queued(k) == k \in steps[c] /\ (k = "embedding" \/ (k \in Pipes /\ ~Waits(k)))
<1>1. TypeOK'
  BY TypeFinish DEF PipelineInv
<1>2. {"heuristics", "embedding", "classification", "faces"} \subseteq Steps
  BY DEF Steps, Local
<1>3. /\ phase[c] = "putting"
      /\ UNCHANGED <<asset, steps, todo, signals>>
      /\ \A d \in Calls : phase'[d] = IF d = c THEN "over" ELSE phase[d]
      /\ \A d \in Calls, j \in Steps :
            stage'[d][j] = IF d = c /\ Queued(j) THEN "queued" ELSE stage[d][j]
  BY DEF PipelineInv, TypeOK, Finish
<1>4. \A p \in Pipes, b \in Assets : pend'[p][b] > 0 =>
          \/ owner'[p][b] = c /\ b = a /\ Waits(p)
          \/ owner'[p][b] = owner[p][b] /\ pend[p][b] > 0
  BY DEF PipelineInv, TypeOK, Finish
<1>5. a \in Assets
  BY <1>3 DEF PipelineInv, CallsNamed
<1> USE DEF PipelineInv
<1>6. CallsNamed'
  BY <1>3 DEF CallsNamed, TypeOK, Signal
<1>7. /\ \A k \in {"embedding", "faces", "classification"} : stage[c][k] = "none"
      /\ "heuristics" \in steps[c] => stage[c]["heuristics"] # "none"
  BY <1>3 DEF PuttingCalls
<1>8. "embedding" \in steps[c] => stage'[c]["embedding"] = "queued"
  BY <1>2, <1>3
<1>9. ~Queued("heuristics")
  BY DEF Pipes
<1> HIDE DEF Waits, Queued
<1>10. EarlyStages(stage)' /\ UnstartedCalls(stage)' /\ PuttingCalls(stage)'
  BY <1>2, <1>3 DEF EarlyStages, UnstartedCalls, PuttingCalls
<1>11. RerunCalls(stage)'
  BY <1>3 DEF RerunCalls
<1>12. Registrations(stage)'
  <2> SUFFICES ASSUME NEW p \in Pipes, NEW b \in Assets, pend'[p][b] > 0
               PROVE  /\ owner'[p][b] \in Calls
                      /\ asset'[owner'[p][b]] = b
                      /\ phase'[owner'[p][b]] = "over"
                      /\ stage'[owner'[p][b]][p] = "none"
                      /\ \A k \in steps'[owner'[p][b]] \cap {"heuristics", "embedding"} :
                            stage'[owner'[p][b]][k] # "none"
    BY DEF Registrations
  <2>1. p \in Steps /\ p \in {"faces", "classification"}
    BY DEF Pipes, Steps, Local
  <2>2. CASE owner'[p][b] = c /\ b = a /\ Waits(p)
    <3>1. ~Queued(p)
      BY <2>1, <2>2 DEF Queued, Waits, Pipes
    <3> QED  BY <1>2, <1>3, <1>7, <1>8, <1>9, <2>1, <2>2, <3>1
  <2>3. CASE owner'[p][b] = owner[p][b] /\ pend[p][b] > 0
    BY <1>2, <1>3, <2>1, <2>3 DEF Registrations
  <2> QED  BY <1>4, <2>2, <2>3
<1>13. FaceComplete(stage)'
  BY <1>2, <1>3, <1>7, <1>8, <1>9 DEF FaceComplete
<1>14. FaceLast'
  BY <1>2, <1>3, <1>7 DEF FaceLast
<1> QED  BY <1>1, <1>6, <1>10, <1>11, <1>12, <1>13, <1>14

\* The rerun loop keeps the invariant: it reaches faces after heuristics and embedding.
LEMMA InvRerun ==
    ASSUME PipelineInv, NEW c \in Calls, RerunStep(c) \/ RerunEnd(c)
    PROVE  PipelineInv'
<1>1. TypeOK'
  BY TypeCallers DEF PipelineInv
<1>2. {"heuristics", "embedding", "classification", "faces"} \subseteq Steps
  BY DEF Steps, Local
<1> USE DEF PipelineInv
<1>3. CASE RerunEnd(c)
  <2>1. /\ phase[c] = "rerunning"
        /\ UNCHANGED <<asset, steps, todo, stage, pend, owner, signals>>
        /\ \A d \in Calls : phase'[d] = IF d = c THEN "over" ELSE phase[d]
    BY <1>3 DEF RerunEnd, RerunIdle, TypeOK
  <2>2. CallsNamed'
    BY <2>1 DEF CallsNamed, TypeOK, Signal
  <2>3. EarlyStages(stage)' /\ UnstartedCalls(stage)' /\ PuttingCalls(stage)'
    BY <2>1 DEF EarlyStages, UnstartedCalls, PuttingCalls
  <2>4. RerunCalls(stage)' /\ Registrations(stage)'
    BY <2>1 DEF RerunCalls, Registrations
  <2>5. FaceComplete(stage)' /\ FaceLast'
    BY <2>1 DEF FaceComplete, FaceLast
  <2> QED  BY <1>1, <2>2, <2>3, <2>4, <2>5
<1>4. CASE RerunStep(c)
  <2>1. PICK k \in todo[c] :
        /\ \A j \in todo[c] : RerunRank[k] <= RerunRank[j]
        /\ todo' = [todo EXCEPT ![c] = @ \ {k}]
        /\ stage' = [stage EXCEPT ![c][k] = IF k \in Remote THEN "requested" ELSE "running"]
    BY <1>4 DEF RerunStep
  <2>2. /\ phase[c] = "rerunning"
        /\ \A j \in Steps : stage[c][j] \in Ended \cup {"none"}
        /\ UNCHANGED <<phase, asset, steps, pend, owner, signals>>
    BY <1>4 DEF RerunStep, RerunIdle, Ended
  <2>3. PICK y \in {"requested", "running"} :
        /\ y = "requested" => k \in Remote
        /\ \A d \in Calls, j \in Steps :
              stage'[d][j] = IF d = c /\ j = k THEN y ELSE stage[d][j]
        /\ \A d \in Calls : todo'[d] = IF d = c THEN todo[c] \ {k} ELSE todo[d]
    BY <2>1 DEF TypeOK
  <2>4. k \in Steps /\ stage[c][k] = "none"
    BY <2>2 DEF TypeOK, RerunCalls
  <2>5. CallsNamed'
    BY <2>2 DEF CallsNamed, TypeOK, Signal
  <2>6. k \in {"heuristics", "embedding"} => y = "running"
    BY <2>3 DEF Remote
  <2>7. EarlyStages(stage)' /\ UnstartedCalls(stage)' /\ PuttingCalls(stage)'
    BY <1>2, <2>2, <2>3, <2>6 DEF EarlyStages, UnstartedCalls, PuttingCalls
  <2>8. RerunCalls(stage)'
    BY <2>2, <2>3 DEF RerunCalls
  <2>9. Registrations(stage)'
    BY <1>2, <2>2, <2>3 DEF Registrations, Pipes
  <2>10. stage[c]["faces"] \notin {"running", "saved"}
    BY <1>2, <2>2 DEF Ended
  <2>11. k = "faces" => \A j \in steps[c] \cap {"heuristics", "embedding"} :
                            j \notin todo[c] /\ stage[c][j] \in Ended
    <3> SUFFICES ASSUME k = "faces", NEW j \in steps[c] \cap {"heuristics", "embedding"}
                 PROVE  j \notin todo[c] /\ stage[c][j] \in Ended
      OBVIOUS
    <3>1. RerunRank["faces"] = 6 /\ RerunRank["heuristics"] = 1 /\ RerunRank["embedding"] = 4
      BY <1>2 DEF RerunRank
    <3>2. j \notin todo[c]
      BY <2>1, <3>1
    <3>3. stage[c][j] # "none"
      BY <1>2, <2>2, <3>2 DEF RerunCalls
    <3> QED  BY <1>2, <2>2, <3>2, <3>3
  <2>12. FaceComplete(stage)'
    BY <1>2, <2>2, <2>3, <2>11 DEF FaceComplete, Ended
  <2>13. FaceLast'
    BY <1>2, <2>2, <2>3, <2>10, <2>11 DEF FaceLast
  <2> QED  BY <1>1, <2>5, <2>7, <2>8, <2>9, <2>12, <2>13
<1> QED  BY <1>3, <1>4

\* The steps of jobs that neither schedule nor create one.
LEMMA InvWorkers ==
    ASSUME PipelineInv, NEW c \in Calls, NEW k \in Steps,
           \/ k \in Remote /\ (Listen(c, k) \/ LaneStart(c, k) \/ LaneEnd(c, k))
           \/ k \in Local /\ BackgroundStart(c, k)
           \/ k \in Local \ {"faces", "embedding"} /\ LocalEnd(c, k)
           \/ k = "faces" /\ (FaceSave(c) \/ FaceEnd(c))
    PROVE  PipelineInv'
<1>1. TypeOK'
  BY TypeWorkers, TypeLocalEnd DEF PipelineInv
<1> USE DEF PipelineInv
<1>2. PICK y \in Stages :
          /\ stage' = [stage EXCEPT ![c][k] = y]
          /\ stage[c][k] \notin Ended \cup {"none"}
          /\ y \notin {"none", "queued"}
          /\ k \in {"heuristics", "embedding"} => y \in {"running"} \cup Ended
          /\ k = "faces" /\ y \in {"running", "saved"} =>
                stage[c][k] = "running" \/ BackgroundStart(c, k)
  <2>1. CASE k \in Remote /\ (Listen(c, k) \/ LaneStart(c, k))
    BY <2>1 DEF Listen, LaneStart, Remote, Ended, Stages
  <2>2. CASE k \in Remote /\ LaneEnd(c, k)
    BY <2>2 DEF LaneEnd, EndStage, Remote, Ended, Stages
  <2>3. CASE k \in Local /\ BackgroundStart(c, k)
    BY <2>3 DEF BackgroundStart, Ended, Stages
  <2>4. CASE k \in Local \ {"faces", "embedding"} /\ LocalEnd(c, k)
    BY <2>4 DEF LocalEnd, EndStage, Ended, Stages
  <2>5. CASE k = "faces" /\ (FaceSave(c) \/ FaceEnd(c))
    BY <2>5 DEF FaceSave, FaceEnd, EndStage, Ended, Stages
  <2> QED  BY <2>1, <2>2, <2>3, <2>4, <2>5
<1>3. k = "faces" /\ y \in {"running", "saved"} =>
          \A j \in steps[c] \cap {"heuristics", "embedding"} : stage[c][j] \in Ended
  <2> SUFFICES ASSUME k = "faces", y \in {"running", "saved"},
                      NEW j \in steps[c] \cap {"heuristics", "embedding"}
               PROVE  stage[c][j] \in Ended
    OBVIOUS
  <2>1. CASE stage[c][k] = "running"
    BY <2>1 DEF FaceLast
  <2>2. CASE BackgroundStart(c, k)
    <3>1. j \in Local /\ k \in Local
      BY DEF Local
    <3>2. Priority[k] = 45 /\ Priority[j] \in {20, 30}
      BY DEF Priority, Local
    <3>3. stage[c][j] # "queued"
      BY <2>2, <3>1, <3>2 DEF BackgroundStart
    <3>4. stage[c][k] = "queued"
      BY <2>2 DEF BackgroundStart
    <3>5. phase[c] # "rerunning"
      BY <3>1, <3>4 DEF RerunCalls
    <3>6. stage[c][j] # "running"
      BY <2>2, <3>1, <3>5 DEF BackgroundStart, BackgroundBusy
    <3>7. stage[c][j] # "none"
      BY <3>4 DEF FaceComplete
    <3> QED  BY <3>3, <3>6, <3>7 DEF EarlyStages
  <2> QED  BY <1>2, <2>1, <2>2
<1>4. Orderly([stage EXCEPT ![c][k] = y])
  BY <1>2, <1>3, JobMoves, InvIsOrderly
<1>5. UNCHANGED <<callVars, owner, pend>>
  BY DEF Listen, LaneStart, LaneEnd, BackgroundStart, LocalEnd, FaceSave, FaceEnd
<1>6. Orderly(stage)'
  BY <1>2, <1>4, <1>5 DEF callVars, Orderly, EarlyStages, UnstartedCalls, PuttingCalls,
                          RerunCalls, Registrations, FaceComplete, FaceFollows
<1>7. CallsNamed'
  <2>1. \A m \in signals' : m \in signals \/ m.call = c
    BY DEF Listen, LaneStart, LaneEnd, BackgroundStart, LocalEnd, FaceSave, FaceEnd
  <2>2. phase[c] # "idle"
    BY <1>2 DEF UnstartedCalls
  <2> QED  BY <1>5, <2>1, <2>2 DEF CallsNamed, callVars
<1> QED  BY <1>1, <1>6, <1>7 DEF Orderly, FaceLast, FaceFollows

\* A signal from the worker process keeps the invariant.
LEMMA InvForward ==
    ASSUME PipelineInv, NEW m \in signals, Forward(m)
    PROVE  PipelineInv'
<1>1. TypeOK'
  BY TypeForward DEF PipelineInv
<1>2. m.pipe \in Pipes /\ asset[m.call] \in Assets
  BY DEF PipelineInv, TypeOK, Signal, CallsNamed
<1>3. Orderly(stage)'
  BY <1>2, SignalCounts, InvIsOrderly DEF Forward, TypeOK
<1>4. CallsNamed'
  BY DEF PipelineInv, CallsNamed, Forward, callVars
<1> QED  BY <1>1, <1>3, <1>4 DEF PipelineInv, Orderly, FaceLast, FaceFollows

\* The end of an embedding job, which signals in place, keeps the invariant.
LEMMA InvEmbeddingEnd ==
    ASSUME PipelineInv, NEW c \in Calls, LocalEnd(c, "embedding")
    PROVE  PipelineInv'
<1>0. "embedding" \in Local /\ "embedding" \in Steps /\ "classification" \in Pipes
  BY DEF Local, Steps, Pipes
<1>1. TypeOK'
  BY <1>0, TypeLocalEnd DEF PipelineInv
<1>2. PICK o \in Outcomes :
          /\ stage' = Scheduled("classification", asset[c],
                                [stage EXCEPT ![c]["embedding"] = EndStage(o)])
          /\ pend' = CountDown("classification", asset[c])
  BY DEF LocalEnd
<1>3. EndStage(o) \in Ended /\ EndStage(o) \in Stages
  BY DEF EndStage, Ended, Stages
<1>4. stage[c]["embedding"] = "running"
  BY DEF LocalEnd
<1>5. Orderly([stage EXCEPT ![c]["embedding"] = EndStage(o)])
  BY <1>0, <1>3, <1>4, JobMoves, InvIsOrderly DEF Ended
<1>6. [stage EXCEPT ![c]["embedding"] = EndStage(o)] \in [Calls -> [Steps -> Stages]]
  BY <1>3 DEF PipelineInv, TypeOK
<1>7. asset[c] \in Assets
  BY <1>0, <1>4 DEF PipelineInv, CallsNamed, UnstartedCalls
<1>8. Orderly(stage)'
  BY <1>0, <1>2, <1>5, <1>6, <1>7, SignalCounts, InvIsOrderly DEF LocalEnd
<1>9. CallsNamed'
  BY DEF PipelineInv, CallsNamed, LocalEnd, callVars
<1> QED  BY <1>1, <1>8, <1>9 DEF PipelineInv, Orderly, FaceLast, FaceFollows

\* Losing the worker process keeps the invariant: only remote jobs are lost.
LEMMA InvWorkerCrash ==
    ASSUME PipelineInv, WorkerCrash
    PROVE  PipelineInv'
<1>1. TypeOK'
  BY TypeCrashes DEF PipelineInv
<1>2. /\ UNCHANGED <<asset, steps, todo, pend, owner>>
      /\ signals' \subseteq signals
      /\ \A c \in Calls : \/ phase'[c] = phase[c]
                          \/ phase[c] = "rerunning" /\ phase'[c] = "lost"
      /\ \A c \in Calls, k \in Steps :
            \/ stage'[c][k] = stage[c][k]
            \/ k \in Remote /\ stage[c][k] # "none" /\ stage'[c][k] = "lost"
  BY DEF WorkerCrash, AwaitsRemote
<1>3. /\ {"heuristics", "embedding", "classification", "faces"} \subseteq Steps
      /\ {"heuristics", "embedding", "classification", "faces"} \cap Remote = {}
  BY DEF Steps, Local, Remote
<1> USE <1>2, <1>3 DEF PipelineInv
<1>4. CallsNamed'
  <2>1. \A m \in signals : m.call \in Calls
    BY DEF TypeOK, Signal
  <2> QED  BY <2>1 DEF CallsNamed
<1>7. EarlyStages(stage)' /\ UnstartedCalls(stage)' /\ PuttingCalls(stage)'
  BY DEF EarlyStages, UnstartedCalls, PuttingCalls, Ended
<1>5. RerunCalls(stage)' /\ Registrations(stage)'
  BY DEF RerunCalls, Registrations, Pipes
<1>6. FaceComplete(stage)' /\ FaceLast'
  BY DEF FaceComplete, FaceLast
<1> QED  BY <1>1, <1>4, <1>5, <1>6, <1>7

\* A fresh backend process keeps the invariant: it starts without registrations.
LEMMA InvRestart ==
    ASSUME PipelineInv, BackendCrash \/ Restart
    PROVE  PipelineInv'
<1>1. TypeOK'
  BY TypeCrashes DEF PipelineInv
<1>2. /\ UNCHANGED <<asset, steps, todo>>
      /\ signals' = {}
      /\ \A p \in Pipes, a \in Assets : pend'[p][a] = 0
      /\ \A c \in Calls : phase'[c] = IF phase[c] \in {"idle", "over"} THEN phase[c] ELSE "lost"
      /\ \A c \in Calls, k \in Steps :
            stage'[c][k] = IF stage[c][k] \in Ended \cup {"none"} THEN stage[c][k] ELSE "lost"
  BY DEF BackendCrash, Restart, Fresh
<1>3. {"heuristics", "embedding", "classification", "faces"} \subseteq Steps
  BY DEF Steps, Local
<1> USE <1>2, <1>3 DEF PipelineInv
<1>4. CallsNamed' /\ EarlyStages(stage)' /\ UnstartedCalls(stage)' /\ PuttingCalls(stage)'
  BY DEF CallsNamed, EarlyStages, UnstartedCalls, PuttingCalls, Ended
<1>5. RerunCalls(stage)' /\ Registrations(stage)'
  BY DEF RerunCalls, Registrations
<1>6. FaceComplete(stage)' /\ FaceLast'
  BY DEF FaceComplete, FaceLast, Ended
<1> QED  BY <1>1, <1>4, <1>5, <1>6

\* Every step of the system keeps the invariant.
LEMMA InvNext == PipelineInv /\ [Next]_vars => PipelineInv'
<1> SUFFICES ASSUME PipelineInv, [Next]_vars PROVE PipelineInv'
  OBVIOUS
<1>1. CASE \E c \in Calls, a \in Assets : Import(c, a) \/ Rerun(c, a)
  BY <1>1, InvRequests
<1>2. CASE CatchUps
  BY <1>2, InvRequests DEF CatchUps
<1>3. CASE Callers
  BY <1>3, InvBegin, InvPutRemote, InvFinish, InvRerun DEF Callers, Pipelined, Rerunning
<1>4. CASE Lanes
  BY <1>4, InvWorkers DEF Lanes, Steps
<1>5. CASE Forwarder
  BY <1>5, InvForward DEF Forwarder
<1>6. CASE LocalWork
  <2>1. CASE \E c \in Calls, k \in Local : BackgroundStart(c, k) \/ LocalEnd(c, k)
    <3>1. PICK c \in Calls, k \in Local : BackgroundStart(c, k) \/ LocalEnd(c, k)
      BY <2>1
    <3>2. k \in Steps /\ (LocalEnd(c, k) => k # "faces")
      BY DEF Steps, LocalEnd
    <3> QED  BY <3>1, <3>2, InvWorkers, InvEmbeddingEnd
  <2>2. CASE \E c \in Calls : FaceSave(c) \/ FaceEnd(c)
    BY <2>2, InvWorkers, "faces" \in Steps DEF Steps, Local
  <2> QED  BY <1>6, <2>1, <2>2 DEF LocalWork
<1>7. CASE WorkerCrash \/ BackendCrash \/ Restart
  BY <1>7, InvWorkerCrash, InvRestart
<1>8. CASE UNCHANGED vars
  BY <1>8 DEF vars, callVars, PipelineInv, TypeOK, CallsNamed, EarlyStages, UnstartedCalls,
              PuttingCalls, RerunCalls, Registrations, FaceComplete, FaceLast
<1> QED  BY <1>1, <1>2, <1>3, <1>4, <1>5, <1>6, <1>7, <1>8 DEF Next

-----------------------------------------------------------------------------
(* The theorems                                                              *)

\* The state of the pipeline always has the shape TypeOK gives it.
THEOREM TypeCorrect == Spec => []TypeOK
<1>1. Init => TypeOK
  BY TypeInit
<1>2. TypeOK /\ [Next]_vars => TypeOK'
  BY TypeNext
<1> QED  BY <1>1, <1>2, PTL DEF Spec

\* The strengthened invariant holds in every reachable state.
THEOREM Invariant == Spec => []PipelineInv
<1>1. Init => PipelineInv
  BY InvInit
<1>2. PipelineInv /\ [Next]_vars => PipelineInv'
  BY InvNext
<1> QED  BY <1>1, <1>2, PTL DEF Spec

\* The background worker starts FACE only after heuristics and embedding of the
\* same call, for any number of photos and calls that overlap in any way.
THEOREM FaceRunsLast == Spec => []FaceLast
<1>1. PipelineInv => FaceLast
  BY DEF PipelineInv
<1> QED  BY <1>1, Invariant, PTL

\* No FACE or CLASSIFICATION job that left the queue ever enters it again.
LEMMA StepSchedulesOnce ==
    ASSUME PipelineInv, [Next]_vars, NEW c \in Calls, NEW p \in Pipes,
           stage[c][p] \notin {"none", "queued"}
    PROVE  stage'[c][p] # "queued"
<1>1. p \in Steps /\ p \in {"faces", "classification"}
  BY DEF Pipes, Steps, Local
<1> USE <1>1 DEF PipelineInv, TypeOK
<1>2. CASE \E d \in Calls, a \in Assets : Import(d, a) \/ Rerun(d, a) \/ CatchUp(d, a)
  BY <1>2 DEF Import, Rerun, CatchUp
<1>3. ASSUME NEW d \in Calls, Begin(d) \/ PutRemote(d) \/ RerunEnd(d)
      PROVE  stage'[c][p] # "queued"
  BY <1>3 DEF Begin, PutRemote, RerunEnd
<1>4. ASSUME NEW d \in Calls, Finish(d) PROVE stage'[c][p] # "queued"
  <2>1. d = c => stage[c][p] = "none"
    BY <1>4 DEF Finish, PuttingCalls
  <2>2. d # c => stage'[c][p] = stage[c][p]
    BY <1>4 DEF Finish
  <2> QED  BY <2>1, <2>2
<1>5. ASSUME NEW d \in Calls, RerunStep(d) PROVE stage'[c][p] # "queued"
  BY <1>5 DEF RerunStep
<1>6. ASSUME NEW d \in Calls, NEW k \in Steps,
             Listen(d, k) \/ LaneStart(d, k) \/ LaneEnd(d, k) \/ BackgroundStart(d, k)
      PROVE  stage'[c][p] # "queued"
  BY <1>6 DEF Listen, LaneStart, LaneEnd, BackgroundStart, EndStage
<1>7. ASSUME NEW d \in Calls, FaceSave(d) \/ FaceEnd(d) PROVE stage'[c][p] # "queued"
  BY <1>7 DEF FaceSave, FaceEnd, EndStage
\* A signal for pipe q schedules the owner's job, which does not exist before.
<1>8. ASSUME NEW q \in Pipes, NEW a \in Assets,
             NEW st \in [Calls -> [Steps -> Stages]], st[c][p] # "queued",
             \A d \in Calls, k \in Pipes : stage[d][k] = "none" => st[d][k] = "none",
             st[c][p] # "none",
             stage' = Scheduled(q, a, st)
      PROVE  stage'[c][p] # "queued"
  <2>1. CASE pend[q][a] = 1
    <3>1. owner[q][a] \in Calls /\ stage[owner[q][a]][q] = "none"
      BY <2>1 DEF Registrations
    <3>2. ~(owner[q][a] = c /\ q = p)
      BY <1>8, <3>1
    <3>3. q \in Steps
      BY DEF Pipes, Steps, Local
    <3> QED  BY <1>8, <2>1, <3>1, <3>2, <3>3 DEF Scheduled
  <2>2. CASE pend[q][a] # 1
    BY <1>8, <2>2 DEF Scheduled
  <2> QED  BY <2>1, <2>2
<1>9. ASSUME NEW m \in signals, Forward(m) PROVE stage'[c][p] # "queued"
  <2>1. m.pipe \in Pipes /\ asset[m.call] \in Assets
    BY DEF Signal, CallsNamed
  <2> QED  BY <1>8, <1>9, <2>1 DEF Forward
<1>10. ASSUME NEW d \in Calls, NEW k \in Local, LocalEnd(d, k) PROVE stage'[c][p] # "queued"
  <2>1. PICK o \in Outcomes :
            LET ended == [stage EXCEPT ![d][k] = EndStage(o)]
            IN  IF k = "embedding" THEN stage' = Scheduled("classification", asset[d], ended)
                                   ELSE stage' = ended
    BY <1>10 DEF LocalEnd
  <2> DEFINE ended == [stage EXCEPT ![d][k] = EndStage(o)]
  <2>2. EndStage(o) \in Stages /\ EndStage(o) \notin {"none", "queued"}
    BY DEF EndStage, Stages
  <2>3. k \in Steps /\ stage[d][k] = "running"
    BY <1>10 DEF LocalEnd, Steps
  <2>4. ended \in [Calls -> [Steps -> Stages]] /\ ended[c][p] \notin {"none", "queued"}
    BY <2>2, <2>3
  <2>5. \A e \in Calls, j \in Pipes : stage[e][j] = "none" => ended[e][j] = "none"
    BY <2>2, <2>3 DEF Pipes, Steps, Local
  <2>6. CASE k # "embedding"
    BY <2>1, <2>4, <2>6
  <2>7. CASE k = "embedding"
    <3>1. asset[d] \in Assets
      BY <2>3 DEF CallsNamed, UnstartedCalls
    <3>2. stage' = Scheduled("classification", asset[d], ended)
      BY <2>1, <2>7
    <3>3. "classification" \in Pipes
      BY DEF Pipes
    <3> HIDE DEF ended
    <3> QED  BY <1>8, <2>4, <2>5, <3>1, <3>2, <3>3
  <2> QED  BY <2>6, <2>7
<1>11. CASE WorkerCrash \/ BackendCrash \/ Restart
  BY <1>11 DEF WorkerCrash, BackendCrash, Restart, Fresh, Ended
<1>12. CASE UNCHANGED vars
  BY <1>12 DEF vars
<1> QED
  BY <1>2, <1>3, <1>4, <1>5, <1>6, <1>7, <1>9, <1>10, <1>11, <1>12
     DEF Next, CatchUps, Callers, Pipelined, Rerunning, Lanes, Forwarder, LocalWork, Steps

\* Each registration schedules its job at most once, whatever signals arrive.
THEOREM PipelineSchedulesOnce == Spec => ScheduledOnce
<1>1. PipelineInv /\ [Next]_vars =>
          [\A c \in Calls, p \in Pipes :
              stage[c][p] \notin {"none", "queued"} => stage'[c][p] # "queued"]_vars
  BY StepSchedulesOnce
<1> QED  BY <1>1, Invariant, PTL DEF Spec, ScheduledOnce
-----------------------------------------------------------------------------
(* Photos that are worked on by one call at a time: what a signal counts     *)

\* The steps FACE and CLASSIFICATION wait for.
Early == Remote \cup {"embedding"}

\* A call that still does or may do something that sends a signal.
Busy(c, st, sg) ==
    \/ phase[c] \in {"collected", "putting", "rerunning"}
    \/ \E k \in Early : st[c][k] \notin Ended \cup {"none"}
    \/ \E m \in sg : m.call = c

\* There is one such call for a photo. A job of an older call may still be queued beside it, by
\* a registration that was left over and that the younger call's signals counted down.
OneAtATime(st, sg) ==
    \A c, d \in Calls : asset[c] = asset[d] /\ Busy(c, st, sg) /\ Busy(d, st, sg) => c = d

\* A signal is about a step that is over.
SignalsOver(st, sg) == \A m \in sg : st[m.call][m.step] \in Ended /\ m.step \in Prereqs[m.pipe]

\* A call has jobs of the steps it was asked for, and no others are to come.
JobsWanted(st) ==
    \A c \in Calls : /\ \A k \in Early : st[c][k] # "none" => k \in steps[c]
                     /\ phase[c] \in {"putting", "rerunning"} => todo[c] \subseteq steps[c]

\* Each remote job is put once.
PutOnce(st) ==
    \A c \in Calls : phase[c] = "putting" =>
        /\ todo[c] \subseteq Remote
        /\ \A k \in Remote : k \in todo[c] => st[c][k] = "none"
        /\ \A k \in steps[c] \cap Remote : k \in todo[c] \/ st[c][k] # "none"

\* The prerequisites of a call whose signal is still to come.
Open(c, p, st, sg) ==
    {k \in steps[c] \cap Prereqs[p] : st[c][k] \notin Ended \/ [call |-> c, step |-> k, pipe |-> p] \in sg}

\* A registration counts at least those.
Counted(st, sg) ==
    \A p \in Pipes, a \in Assets : pend[p][a] > 0 =>
        /\ \A k \in steps[owner[p][a]] \cap Prereqs[p] : st[owner[p][a]][k] # "none"
        /\ Cardinality(Open(owner[p][a], p, st, sg)) <= pend[p][a]

\* Calls are about photos that were imported.
Imported == \A c \in Calls : asset[c] \in Assets => asset[c] \in library

\* The prerequisites of a job that exists are over.
PrereqsDone ==
    \A c \in Calls, p \in Pipes : stage[c][p] \in {"queued", "running", "saved"} =>
        \A k \in steps[c] \cap Prereqs[p] : stage[c][k] \in Ended

QuietInv ==
    /\ OneAtATime(stage, signals) /\ SignalsOver(stage, signals) /\ JobsWanted(stage) /\ PutOnce(stage)
    /\ Counted(stage, signals) /\ Imported /\ PrereqsDone

\* The names of steps.
LEMMA StepNames ==
    /\ Early \subseteq Steps /\ Remote \subseteq Early /\ "embedding" \in Early \ Remote
    /\ Pipes \subseteq Steps /\ Pipes \cap Early = {}
    /\ \A p \in Pipes : Prereqs[p] \subseteq Early
    /\ "none" \notin Ended /\ {"queued", "running", "saved"} \cap Ended = {}
BY DEF Early, Remote, Steps, Local, Pipes, Prereqs, Ended

\* The prerequisites that are open are few, and fewer when one is over.
LEMMA OpenFew ==
    ASSUME NEW p \in Pipes, NEW s \in SUBSET Steps, NEW S \in SUBSET (s \cap Prereqs[p])
    PROVE  /\ IsFiniteSet(S) /\ Cardinality(S) \in Nat /\ Cardinality(S) <= PrereqCount(p, s)
           /\ \A T \in SUBSET S : Cardinality(T) \in Nat /\ Cardinality(T) <= Cardinality(S)
           /\ \A k \in S : \A T \in SUBSET (S \ {k}) : Cardinality(T) <= Cardinality(S) - 1
<1>1. IsFiniteSet(s \cap Prereqs[p])
  <2>1. Prereqs[p] = {"tags", "caption"} \/ Prereqs[p] = {"tags", "embedding"}
    BY DEF Prereqs, Pipes, Remote
  <2>2. IsFiniteSet({"tags"} \cup {"caption"}) /\ IsFiniteSet({"tags"} \cup {"embedding"})
    BY FS_Singleton, FS_AddElement
  <2>3. /\ {"tags"} \cup {"caption"} = {"tags", "caption"}
        /\ {"tags"} \cup {"embedding"} = {"tags", "embedding"}
    OBVIOUS
  <2>4. IsFiniteSet(Prereqs[p])
    BY <2>1, <2>2, <2>3
  <2> QED BY <2>4, FS_Subset, s \cap Prereqs[p] \subseteq Prereqs[p]
<1>2. IsFiniteSet(S) /\ Cardinality(S) \in Nat /\ Cardinality(S) <= PrereqCount(p, s)
  BY <1>1, FS_Subset, FS_CardinalityType DEF PrereqCount
<1>3. ASSUME NEW T \in SUBSET S PROVE Cardinality(T) \in Nat /\ Cardinality(T) <= Cardinality(S)
  BY <1>2, FS_Subset, FS_CardinalityType
<1>4. ASSUME NEW k \in S, NEW T \in SUBSET (S \ {k}) PROVE Cardinality(T) <= Cardinality(S) - 1
  <2>1. IsFiniteSet(S \ {k}) /\ Cardinality(S \ {k}) = Cardinality(S) - 1
    BY <1>2, FS_RemoveElement
  <2> QED BY <2>1, FS_Subset, FS_CardinalityType
<1> QED BY <1>2, <1>3, <1>4

\* A step that starts nothing: jobs go on or end, and send signals when they end, calls end,
\* registrations stay or are lost.
Onward ==
    /\ UNCHANGED <<asset, steps, library>>
    /\ \A c \in Calls : /\ phase'[c] = phase[c] \/ phase'[c] \in {"over", "lost"}
                        /\ phase'[c] \in {"putting", "rerunning"} => todo'[c] = todo[c]
    /\ \A p \in Pipes, a \in Assets : pend'[p][a] > 0 => pend'[p][a] = pend[p][a] /\ owner'[p][a] = owner[p][a]
    /\ \A c \in Calls, k \in Steps :
          \/ stage'[c][k] = stage[c][k]
          \/ /\ stage[c][k] \notin Ended \cup {"none"} /\ stage'[c][k] # "none"
             /\ k \in Pipes /\ stage'[c][k] \in {"queued", "running", "saved"} =>
                   stage[c][k] \in {"queued", "running", "saved"}
    /\ \A m \in signals' :
          \/ m \in signals
          \/ stage[m.call][m.step] \notin Ended \cup {"none"} /\ stage'[m.call][m.step] \in Ended
             /\ m.step \in Prereqs[m.pipe]

\* What a signal is.
LEMMA SignalParts ==
    ASSUME TypeOK, NEW m \in signals
    PROVE  m.call \in Calls /\ m.step \in Remote /\ m.pipe \in Pipes
BY DEF TypeOK, Signal

\* Such a step keeps the invariant.
LEMMA OnwardKeeps ==
    ASSUME PipelineInv, QuietInv, TypeOK', Onward
    PROVE  QuietInv'
<1> USE StepNames DEF QuietInv
<1>1. \A m \in signals' : m.call \in Calls /\ m.step \in Remote /\ m.pipe \in Pipes
  BY DEF TypeOK, Signal
<1>2. \A c \in Calls, k \in Steps : stage[c][k] \in Ended => stage'[c][k] = stage[c][k]
  BY DEF Onward
<1>3. ASSUME NEW c \in Calls, Busy(c, stage, signals)'
      PROVE  Busy(c, stage, signals)
  <2>1. CASE phase'[c] \in {"collected", "putting", "rerunning"}
    BY <2>1 DEF Onward, Busy
  <2>2. CASE \E k \in Early : stage'[c][k] \notin Ended \cup {"none"}
    BY <2>2, <1>2 DEF Onward, Busy
  <2>3. CASE \E m \in signals' : m.call = c
    <3>1. PICK m \in signals' : m.call = c
      BY <2>3
    <3>2. m \in signals \/ (stage[c][m.step] \notin Ended \cup {"none"} /\ m.step \in Early)
      BY <1>1, <3>1 DEF Onward
    <3> QED BY <3>1, <3>2 DEF Busy
  <2> QED BY <1>3, <2>1, <2>2, <2>3 DEF Busy
<1>4. OneAtATime(stage, signals)'
  <2> SUFFICES ASSUME NEW c \in Calls, NEW d \in Calls, asset'[c] = asset'[d],
                      Busy(c, stage, signals)', Busy(d, stage, signals)'
               PROVE  c = d
    BY DEF OneAtATime
  <2>1. Busy(c, stage, signals) /\ Busy(d, stage, signals)
    BY <1>3
  <2> QED BY <2>1 DEF OneAtATime, Onward
<1>5. SignalsOver(stage, signals)'
  <2> SUFFICES ASSUME NEW m \in signals'
               PROVE  stage'[m.call][m.step] \in Ended /\ m.step \in Prereqs[m.pipe]
    BY DEF SignalsOver
  <2>1. CASE m \in signals
    BY <1>1, <1>2, <2>1 DEF SignalsOver
  <2> QED BY <2>1 DEF Onward
<1>6. JobsWanted(stage)'
  BY DEF JobsWanted, Onward
<1>7. PutOnce(stage)'
  BY DEF PutOnce, Onward
<1>8. Counted(stage, signals)'
  <2> SUFFICES ASSUME NEW p \in Pipes, NEW a \in Assets, pend'[p][a] > 0
               PROVE  /\ \A k \in steps'[owner'[p][a]] \cap Prereqs[p] : stage'[owner'[p][a]][k] # "none"
                      /\ Cardinality(Open(owner[p][a], p, stage, signals)') <= pend'[p][a]
    BY DEF Counted
  <2>1. PICK o \in Calls : o = owner[p][a] /\ owner'[p][a] = o /\ pend'[p][a] = pend[p][a] /\ pend[p][a] \in Nat
    BY DEF Onward, PipelineInv, Registrations, TypeOK
  <2>2. steps' = steps /\ steps[o] \in SUBSET Steps
    BY DEF PipelineInv, TypeOK, Onward
  <2>3. /\ \A k \in steps[o] \cap Prereqs[p] : stage[o][k] # "none"
        /\ Cardinality(Open(o, p, stage, signals)) <= pend[p][a]
    BY <2>1 DEF Counted
  <2>4. \A k \in steps[o] \cap Prereqs[p] : stage'[o][k] # "none"
    BY <2>2, <2>3 DEF Onward
  <2>5. Open(o, p, stage', signals') \subseteq Open(o, p, stage, signals)
    <3> SUFFICES ASSUME NEW k \in steps[o] \cap Prereqs[p],
                        stage'[o][k] \notin Ended \/ [call |-> o, step |-> k, pipe |-> p] \in signals'
                 PROVE  stage[o][k] \notin Ended \/ [call |-> o, step |-> k, pipe |-> p] \in signals
      BY <2>2 DEF Open
    <3>1. CASE stage'[o][k] \notin Ended
      BY <1>2, <2>2, <3>1
    <3>2. CASE [call |-> o, step |-> k, pipe |-> p] \in signals'
      BY <3>2 DEF Onward
    <3> QED BY <3>1, <3>2
  <2>6. Open(o, p, stage, signals) \in SUBSET (steps[o] \cap Prereqs[p])
    BY DEF Open
  <2>7. /\ Cardinality(Open(o, p, stage', signals')) \in Nat /\ Cardinality(Open(o, p, stage, signals)) \in Nat
        /\ Cardinality(Open(o, p, stage', signals')) <= Cardinality(Open(o, p, stage, signals))
    BY <2>2, <2>5, <2>6, OpenFew
  <2>8. Open(owner[p][a], p, stage, signals)' = Open(o, p, stage', signals')
    BY <2>1, <2>2 DEF Open
  <2>9. Cardinality(Open(o, p, stage', signals')) <= pend'[p][a]
    BY <2>1, <2>3, <2>7
  <2> QED BY <2>1, <2>2, <2>4, <2>8, <2>9
<1>9. Imported'
  BY DEF Imported, Onward
<1>10. PrereqsDone'
  <2> SUFFICES ASSUME NEW c \in Calls, NEW p \in Pipes, stage'[c][p] \in {"queued", "running", "saved"},
                      NEW k \in steps[c] \cap Prereqs[p]
               PROVE  stage'[c][k] \in Ended
    BY DEF PrereqsDone, Onward
  <2>1. stage[c][p] \in {"queued", "running", "saved"}
    BY DEF Onward
  <2>2. stage[c][k] \in Ended /\ k \in Steps
    BY <2>1 DEF PrereqsDone
  <2> QED BY <1>2, <2>2
<1> QED BY <1>4, <1>5, <1>6, <1>7, <1>8, <1>9, <1>10

\* What is left for a call that is not busy: nothing.
LEMMA IdleOpen ==
    ASSUME PipelineInv, QuietInv, NEW p \in Pipes, NEW a \in Assets, pend[p][a] > 0,
           ~Busy(owner[p][a], stage, signals)
    PROVE  \A k \in steps[owner[p][a]] \cap Prereqs[p] :
              stage[owner[p][a]][k] \in Ended /\ [call |-> owner[p][a], step |-> k, pipe |-> p] \notin signals
<1> USE StepNames DEF QuietInv
<1> SUFFICES ASSUME NEW k \in steps[owner[p][a]] \cap Prereqs[p]
             PROVE  stage[owner[p][a]][k] \in Ended /\ [call |-> owner[p][a], step |-> k, pipe |-> p] \notin signals
  OBVIOUS
<1>1. k \in Early /\ stage[owner[p][a]][k] # "none"
  BY DEF Counted
<1>2. stage[owner[p][a]][k] \in Ended
  BY <1>1 DEF Busy
<1>3. [call |-> owner[p][a], step |-> k, pipe |-> p] \notin signals
  BY DEF Busy
<1> QED BY <1>2, <1>3

\* A signal of a step that is over, or the end of an embedding, which signals at once: st are the jobs
\* before the signal counts.
LEMMA DeliveredKeeps ==
    ASSUME PipelineInv, QuietInv, TypeOK', NEW c \in Calls, NEW k \in Early, NEW p \in Pipes,
           NEW st \in [Calls -> [Steps -> Stages]],
           \A d \in Calls, j \in Steps : d # c \/ j # k => st[d][j] = stage[d][j],
           k \in Prereqs[p], asset[c] \in Assets, st[c][k] \in Ended,
           \/ st = stage /\ [call |-> c, step |-> k, pipe |-> p] \in signals
           \/ stage[c][k] \notin Ended \cup {"none"},
           signals' = signals \ {[call |-> c, step |-> k, pipe |-> p]},
           stage' = Scheduled(p, asset[c], st), pend' = CountDown(p, asset[c]),
           UNCHANGED <<callVars, owner, library>>
    PROVE  QuietInv'
<1> USE StepNames DEF QuietInv
<1> DEFINE a == asset[c]
           o == owner[p][a]
           sent(d, j, q) == [call |-> d, step |-> j, pipe |-> q]
<1>1. pend \in [Pipes -> [Assets -> Nat]] /\ steps \in [Calls -> SUBSET Steps] /\ stage \in [Calls -> [Steps -> Stages]]
  BY DEF PipelineInv, TypeOK
<1>2. \A q \in Pipes, b \in Assets : pend'[q][b] = IF q = p /\ b = a /\ pend[p][a] > 0 THEN pend[p][a] - 1 ELSE pend[q][b]
  BY <1>1 DEF CountDown
<1>3. pend[p][a] > 0 => o \in Calls /\ asset[o] = a
  BY DEF PipelineInv, Registrations
<1>4. /\ \A d \in Calls, j \in Early : stage'[d][j] = st[d][j]
      /\ \A d \in Calls, q \in Steps : stage'[d][q] = IF pend[p][a] = 1 /\ d = o /\ q = p THEN "queued" ELSE st[d][q]
  BY <1>1, <1>3 DEF Scheduled
<1>5. \A d \in Calls, j \in Early : stage[d][j] \in Ended => stage'[d][j] \in Ended
  BY <1>4
<1>6. \A d \in Calls, j \in Early : stage'[d][j] \in Ended \/ stage'[d][j] = stage[d][j]
  BY <1>4
<1>7. Busy(c, stage, signals)
  BY DEF Busy
<1>8. UNCHANGED <<phase, asset, steps, todo, owner, library>>
  BY DEF callVars
<1> HIDE DEF a, o
<1>9. ASSUME NEW d \in Calls, Busy(d, stage, signals)'
      PROVE  Busy(d, stage, signals)
  <2>1. CASE phase'[d] \in {"collected", "putting", "rerunning"}
    BY <1>8, <2>1 DEF Busy
  <2>2. CASE \E j \in Early : stage'[d][j] \notin Ended \cup {"none"}
    BY <1>6, <2>2 DEF Busy
  <2>3. CASE \E m \in signals' : m.call = d
    BY <2>3 DEF Busy
  <2> QED BY <1>9, <2>1, <2>2, <2>3 DEF Busy
<1>10. OneAtATime(stage, signals)'
  BY <1>8, <1>9 DEF OneAtATime
<1>11. SignalsOver(stage, signals)'
  <2> SUFFICES ASSUME NEW m \in signals'
               PROVE  stage'[m.call][m.step] \in Ended /\ m.step \in Prereqs[m.pipe]
    BY DEF SignalsOver
  <2>1. m \in signals /\ m.call \in Calls /\ m.step \in Early
    BY SignalParts DEF PipelineInv
  <2> QED BY <1>5, <2>1 DEF SignalsOver
<1>12. JobsWanted(stage)'
  BY <1>4, <1>8 DEF JobsWanted
<1>13. \A d \in Calls, j \in Early : stage'[d][j] = "none" <=> stage[d][j] = "none"
  BY <1>4
<1>14. PutOnce(stage)'
  BY <1>8, <1>13 DEF PutOnce
<1>15. ASSUME pend[p][a] > 0
       PROVE  /\ \A j \in steps[o] \cap Prereqs[p] : j # k \/ o # c => (pend[p][a] = 1 => stage[o][j] \in Ended)
              /\ pend[p][a] # 1 => Cardinality(Open(o, p, stage', signals')) <= pend[p][a] - 1
  <2>1. steps[o] \in SUBSET Steps /\ Open(o, p, stage, signals) \in SUBSET (steps[o] \cap Prereqs[p])
    BY <1>1, <1>3, <1>15 DEF Open
  <2>2. Open(o, p, stage', signals') \subseteq Open(o, p, stage, signals)
    BY <1>3, <1>5, <1>15, <2>1 DEF Open
  <2>3. Cardinality(Open(o, p, stage, signals)) <= pend[p][a] /\ pend[p][a] \in Nat /\ a \in Assets
    BY <1>1, <1>15 DEF Counted, o, a
  <2>4. CASE o = c
    <3>1. k \in steps[c] /\ k \in Open(o, p, stage, signals)
      BY <2>4 DEF SignalsOver, JobsWanted, Open
    <3>2. k \notin Open(o, p, stage', signals')
      BY <1>4, <2>4 DEF Open
    <3>3. Cardinality(Open(o, p, stage', signals')) <= Cardinality(Open(o, p, stage, signals)) - 1
      <4>1. Open(o, p, stage', signals') \in SUBSET (Open(o, p, stage, signals) \ {k})
        BY <2>2, <3>2
      <4> QED BY <2>1, <3>1, <4>1, OpenFew
    <3>4. Cardinality(Open(o, p, stage', signals')) \in Nat /\ Cardinality(Open(o, p, stage, signals)) \in Nat
      BY <2>1, <2>2, OpenFew
    <3>5. Cardinality(Open(o, p, stage', signals')) <= pend[p][a] - 1
      BY <2>3, <3>3, <3>4
    <3>6. ASSUME NEW j \in steps[o] \cap Prereqs[p], j # k, pend[p][a] = 1
          PROVE  stage[o][j] \in Ended
      <4>1. SUFFICES ASSUME stage[o][j] \notin Ended PROVE FALSE
        OBVIOUS
      <4>2. {j} \in SUBSET (Open(o, p, stage, signals) \ {k})
        BY <3>6, <4>1 DEF Open
      <4>3. Cardinality({j}) <= Cardinality(Open(o, p, stage, signals)) - 1 /\ Cardinality({j}) = 1
        BY <2>1, <3>1, <4>2, OpenFew, FS_Singleton
      <4> QED BY <2>3, <3>4, <3>6, <4>3
    <3>7. \A j \in steps[o] \cap Prereqs[p] : j # k \/ o # c => (pend[p][a] = 1 => stage[o][j] \in Ended)
      BY <2>4, <3>6
    <3> QED BY <3>5, <3>7
  <2>5. CASE o # c
    <3>1. ~Busy(o, stage, signals)
      BY <1>3, <1>7, <1>15, <2>5 DEF OneAtATime, a
    <3>2. \A j \in steps[o] \cap Prereqs[p] : stage[o][j] \in Ended /\ sent(o, j, p) \notin signals
      BY <1>15, <2>3, <3>1, IdleOpen DEF o
    <3>3. Open(o, p, stage, signals) = {}
      BY <3>2 DEF Open
    <3>4. Cardinality(Open(o, p, stage', signals')) = 0
      BY <2>2, <3>3, FS_EmptySet
    <3>5. pend[p][a] # 1 => 0 <= pend[p][a] - 1
      BY <2>3, <1>15
    <3>6. \A j \in steps[o] \cap Prereqs[p] : stage[o][j] \in Ended
      BY <3>2
    <3> QED BY <3>4, <3>5, <3>6
  <2> QED BY <2>4, <2>5
<1>16. Counted(stage, signals)'
  <2> SUFFICES ASSUME NEW q \in Pipes, NEW b \in Assets, pend'[q][b] > 0
               PROVE  /\ \A j \in steps'[owner'[q][b]] \cap Prereqs[q] : stage'[owner'[q][b]][j] # "none"
                      /\ Cardinality(Open(owner[q][b], q, stage, signals)') <= pend'[q][b]
    BY DEF Counted
  <2>1. PICK w \in Calls : w = owner[q][b] /\ pend[q][b] > 0 /\ pend[q][b] \in Nat
    BY <1>1, <1>2 DEF PipelineInv, Registrations
  <2>2. owner'[q][b] = w /\ steps' = steps /\ Open(owner[q][b], q, stage, signals)' = Open(w, q, stage', signals')
    BY <1>8, <2>1 DEF Open
  <2>3. \A j \in steps[w] \cap Prereqs[q] : stage'[w][j] # "none"
    BY <1>13, <2>1 DEF Counted
  <2>4. Cardinality(Open(w, q, stage', signals')) <= pend'[q][b]
    <3>1. CASE q = p /\ b = a
      <4>1. pend'[q][b] = pend[p][a] - 1 /\ pend[p][a] # 1 /\ w = o
        BY <1>2, <2>1, <3>1 DEF o
      <4> QED BY <1>15, <2>1, <3>1, <4>1
    <3>2. CASE ~(q = p /\ b = a)
      <4>0. pend'[q][b] = pend[q][b]
        BY <1>1, <1>2, <2>1, <3>2
      <4>1. pend'[q][b] = pend[q][b] /\ Cardinality(Open(w, q, stage, signals)) <= pend[q][b]
        BY <2>1, <4>0 DEF Counted
      <4>2. Open(w, q, stage', signals') \subseteq Open(w, q, stage, signals)
        BY <1>1, <1>5, <2>1 DEF Open
      <4>3. steps[w] \in SUBSET Steps /\ Open(w, q, stage, signals) \in SUBSET (steps[w] \cap Prereqs[q])
        BY <1>1 DEF Open
      <4>4. /\ Cardinality(Open(w, q, stage', signals')) \in Nat /\ Cardinality(Open(w, q, stage, signals)) \in Nat
            /\ Cardinality(Open(w, q, stage', signals')) <= Cardinality(Open(w, q, stage, signals))
        BY <4>2, <4>3, OpenFew
      <4> QED BY <2>1, <4>1, <4>4
    <3> QED BY <3>1, <3>2
  <2> QED BY <2>2, <2>3, <2>4
<1>17. PrereqsDone'
  <2> SUFFICES ASSUME NEW d \in Calls, NEW q \in Pipes, stage'[d][q] \in {"queued", "running", "saved"},
                      NEW j \in steps[d] \cap Prereqs[q]
               PROVE  stage'[d][j] \in Ended
    BY <1>8 DEF PrereqsDone
  <2>1. j \in Early /\ q \in Steps
    OBVIOUS
  <2>2. CASE stage[d][q] \in {"queued", "running", "saved"}
    BY <1>5, <2>1, <2>2 DEF PrereqsDone
  <2>3. CASE stage[d][q] \notin {"queued", "running", "saved"}
    <3>1. st[d][q] = stage[d][q] /\ pend[p][a] = 1 /\ d = o /\ q = p
      BY <1>4, <2>3
    <3>2. CASE j = k /\ o = c
      BY <1>4, <3>1, <3>2
    <3>3. CASE ~(j = k /\ o = c)
      BY <1>5, <1>15, <2>1, <3>1, <3>3
    <3> QED BY <3>2, <3>3
  <2> QED BY <2>2, <2>3
<1>18. Imported'
  BY <1>8 DEF Imported
<1> QED BY <1>10, <1>11, <1>12, <1>14, <1>16, <1>17, <1>18

\* A step of a call c that gets no job it has already, and changes the counters of its photo at most,
\* keeps what is said of the others.
Beginning(c) ==
    /\ UNCHANGED <<signals, library>>
    /\ \A d \in Calls : d # c => /\ phase'[d] = phase[d] /\ asset'[d] = asset[d]
                                 /\ steps'[d] = steps[d] /\ todo'[d] = todo[d]
                                 /\ \A k \in Steps : stage'[d][k] = stage[d][k]
    /\ \A k \in Steps : stage[c][k] # "none" => stage'[c][k] = stage[c][k]

\* What Busy, SignalsOver and the registrations of other calls owe to such a step.
LEMMA BeginningKeeps ==
    ASSUME PipelineInv, QuietInv, NEW c \in Calls, Beginning(c)
    PROVE  /\ \A d \in Calls : d # c /\ Busy(d, stage, signals)' => Busy(d, stage, signals)
           /\ SignalsOver(stage, signals)'
           /\ \A d \in Calls, p \in Pipes :
                 d # c /\ stage'[d][p] \in {"queued", "running", "saved"} =>
                    \A k \in steps'[d] \cap Prereqs[p] : stage'[d][k] \in Ended
           /\ \A p \in Pipes, a \in Assets :
                 pend[p][a] > 0 /\ owner[p][a] # c =>
                    /\ \A k \in steps'[owner[p][a]] \cap Prereqs[p] : stage'[owner[p][a]][k] # "none"
                    /\ Open(owner[p][a], p, stage', signals) = Open(owner[p][a], p, stage, signals)
                    /\ steps'[owner[p][a]] = steps[owner[p][a]]
                    /\ Cardinality(Open(owner[p][a], p, stage, signals)) <= pend[p][a]
<1> USE StepNames DEF QuietInv
<1>1. \A d \in Calls : d # c /\ Busy(d, stage, signals)' => Busy(d, stage, signals)
  BY DEF Busy, Beginning
<1>2. SignalsOver(stage, signals)'
  <2> SUFFICES ASSUME NEW m \in signals
               PROVE  stage'[m.call][m.step] \in Ended /\ m.step \in Prereqs[m.pipe]
    BY DEF SignalsOver, Beginning
  <2>1. m.call \in Calls /\ m.step \in Steps /\ stage[m.call][m.step] \in Ended /\ m.step \in Prereqs[m.pipe]
    BY SignalParts DEF SignalsOver, PipelineInv
  <2> QED BY <2>1 DEF Beginning
<1>3. \A d \in Calls, p \in Pipes :
         d # c /\ stage'[d][p] \in {"queued", "running", "saved"} =>
            \A k \in steps'[d] \cap Prereqs[p] : stage'[d][k] \in Ended
  BY DEF Beginning, PrereqsDone
<1>4. ASSUME NEW p \in Pipes, NEW a \in Assets, pend[p][a] > 0, owner[p][a] # c
      PROVE  /\ \A k \in steps'[owner[p][a]] \cap Prereqs[p] : stage'[owner[p][a]][k] # "none"
             /\ Open(owner[p][a], p, stage', signals) = Open(owner[p][a], p, stage, signals)
             /\ steps'[owner[p][a]] = steps[owner[p][a]]
             /\ Cardinality(Open(owner[p][a], p, stage, signals)) <= pend[p][a]
  <2>1. owner[p][a] \in Calls
    BY <1>4 DEF PipelineInv, Registrations
  <2>2. steps'[owner[p][a]] = steps[owner[p][a]] /\ \A k \in Steps : stage'[owner[p][a]][k] = stage[owner[p][a]][k]
    BY <1>4, <2>1 DEF Beginning
  <2>3. Open(owner[p][a], p, stage', signals) = Open(owner[p][a], p, stage, signals)
    BY <2>2 DEF Open
  <2> QED BY <1>4, <2>2, <2>3 DEF Counted
<1> QED BY <1>1, <1>2, <1>3, <1>4

\* A new call: nothing of its photo is under way, and nobody has registered for it.
LEMMA QuietRequests ==
    ASSUME PipelineInv, QuietInv, Overlapping = {}, NEW c \in Calls, NEW a \in Assets,
           Import(c, a) \/ CatchUp(c, a) \/ Rerun(c, a)
    PROVE  QuietInv'
<1> USE StepNames
<1>1. /\ phase[c] = "idle"
      /\ \A k \in Steps : stage[c][k] = "none"
      /\ UNCHANGED <<stage, pend, owner, signals>>
  BY CallsAssumption DEF Import, CatchUp, Rerun, NextCall, PipelineInv, UnstartedCalls
<1>2. PICK s \in SUBSET Steps, t \in SUBSET Steps, q \in {"collected", "rerunning"} : Call(c, a, q, s, t) /\ t \subseteq s
  <2>1. CASE Import(c, a)
    BY <2>1, WantedAssumption DEF Import
  <2>2. CASE CatchUp(c, a)
    BY <2>2, WantedAssumption DEF CatchUp, Missing
  <2>3. CASE Rerun(c, a)
    BY <2>3, ScopeAssumption DEF Rerun
  <2> QED  BY <2>1, <2>2, <2>3
<1>3. /\ \A d \in Calls : d # c => /\ phase'[d] = phase[d] /\ asset'[d] = asset[d]
                                   /\ steps'[d] = steps[d] /\ todo'[d] = todo[d]
      /\ phase'[c] = q /\ asset'[c] = a /\ steps'[c] = s /\ todo'[c] = t
  BY <1>2 DEF Call, PipelineInv, TypeOK
<1>4. /\ \A d \in Calls : asset[d] = a /\ d # c => ~Busy(d, stage, signals)
      /\ library \subseteq library' /\ a \in library'
  <2>1. CASE Import(c, a)
    BY <2>1 DEF Import, QuietInv, Imported
  <2>2. CASE CatchUp(c, a) \/ Rerun(c, a)
    <3>1. Quiet(a) /\ library' = library /\ a \in library
      BY <2>2 DEF CatchUp, Rerun, MayStart
    <3> QED BY <3>1 DEF Quiet, Busy
  <2> QED BY <2>1, <2>2
<1>5. \A p \in Pipes, b \in Assets : pend[p][b] > 0 => owner[p][b] # c /\ owner[p][b] \in Calls
  BY <1>1 DEF PipelineInv, Registrations
<1>6. \A d \in Calls : d # c /\ Busy(d, stage, signals)' => Busy(d, stage, signals)
  BY <1>1, <1>3 DEF Busy
<1>7. OneAtATime(stage, signals)'
  <2> SUFFICES ASSUME NEW d \in Calls, NEW e \in Calls, asset'[d] = asset'[e],
                      Busy(d, stage, signals)', Busy(e, stage, signals)', d # e
               PROVE  FALSE
    BY DEF OneAtATime
  <2>1. CASE d # c /\ e # c
    BY <1>3, <1>6, <2>1 DEF QuietInv, OneAtATime
  <2>2. CASE d = c \/ e = c
    BY <1>3, <1>4, <1>6, <2>2
  <2> QED BY <2>1, <2>2
<1>8. SignalsOver(stage, signals)' /\ JobsWanted(stage)'
  <2>1. SignalsOver(stage, signals)'
    BY <1>1 DEF QuietInv, SignalsOver
  <2>2. \A d \in Calls, k \in Early : stage'[d][k] # "none" => k \in steps'[d]
    BY <1>1, <1>3 DEF QuietInv, JobsWanted
  <2>3. \A d \in Calls : phase'[d] \in {"putting", "rerunning"} => todo'[d] \subseteq steps'[d]
    BY <1>2, <1>3 DEF QuietInv, JobsWanted
  <2> QED BY <2>1, <2>2, <2>3 DEF JobsWanted
<1>9. PutOnce(stage)'
  BY <1>1, <1>3 DEF QuietInv, PutOnce
<1>10. Counted(stage, signals)'
  <2> SUFFICES ASSUME NEW p \in Pipes, NEW b \in Assets, pend[p][b] > 0
               PROVE  /\ \A k \in steps'[owner[p][b]] \cap Prereqs[p] : stage[owner[p][b]][k] # "none"
                      /\ Cardinality(Open(owner[p][b], p, stage, signals)') <= pend[p][b]
    BY <1>1 DEF Counted
  <2>1. steps'[owner[p][b]] = steps[owner[p][b]]
    BY <1>3, <1>5
  <2>2. Open(owner[p][b], p, stage, signals)' = Open(owner[p][b], p, stage, signals)
    BY <1>1, <2>1 DEF Open
  <2> QED BY <2>1, <2>2 DEF QuietInv, Counted
<1>11. Imported'
  BY <1>3, <1>4 DEF QuietInv, Imported
<1>12. PrereqsDone'
  BY <1>1, <1>3 DEF QuietInv, PrereqsDone
<1> QED BY <1>7, <1>8, <1>9, <1>10, <1>11, <1>12 DEF QuietInv

\* What such a step leaves to show: the prerequisites of its own call.
LEMMA OwnCall ==
    ASSUME PipelineInv, QuietInv, TypeOK', NEW c \in Calls, Beginning(c), asset' = asset,
           Busy(c, stage, signals),
           \A k \in Early : stage'[c][k] # "none" => k \in steps'[c],
           phase'[c] \in {"putting", "rerunning"} => todo'[c] \subseteq steps'[c],
           phase'[c] = "putting" =>
              /\ todo'[c] \subseteq Remote
              /\ \A k \in Remote : k \in todo'[c] => stage'[c][k] = "none"
              /\ \A k \in steps'[c] \cap Remote : k \in todo'[c] \/ stage'[c][k] # "none",
           \A p \in Pipes, a \in Assets : pend'[p][a] > 0 =>
              \/ owner[p][a] # c /\ owner'[p][a] = owner[p][a] /\ pend'[p][a] = pend[p][a]
              \/ /\ owner'[p][a] = c /\ pend'[p][a] = PrereqCount(p, steps'[c])
                 /\ \A k \in steps'[c] \cap Prereqs[p] : stage'[c][k] # "none",
           \A p \in Pipes : stage'[c][p] \in {"queued", "running", "saved"} =>
              \A k \in steps'[c] \cap Prereqs[p] : stage'[c][k] \in Ended
    PROVE  QuietInv'
<1> USE StepNames
<1>1. /\ \A d \in Calls : Busy(d, stage, signals)' => Busy(d, stage, signals)
      /\ SignalsOver(stage, signals)'
  BY BeginningKeeps
<1>2. OneAtATime(stage, signals)'
  BY <1>1 DEF QuietInv, OneAtATime
<1>3. JobsWanted(stage)' /\ PutOnce(stage)'
  BY DEF QuietInv, JobsWanted, PutOnce, Beginning
<1>4. Counted(stage, signals)'
  <2> SUFFICES ASSUME NEW p \in Pipes, NEW a \in Assets, pend'[p][a] > 0
               PROVE  /\ \A k \in steps'[owner'[p][a]] \cap Prereqs[p] : stage'[owner'[p][a]][k] # "none"
                      /\ Cardinality(Open(owner[p][a], p, stage, signals)') <= pend'[p][a]
    BY DEF Counted
  <2>1. CASE owner[p][a] # c /\ owner'[p][a] = owner[p][a] /\ pend'[p][a] = pend[p][a]
    <3>1. /\ \A k \in steps'[owner[p][a]] \cap Prereqs[p] : stage'[owner[p][a]][k] # "none"
          /\ Open(owner[p][a], p, stage', signals) = Open(owner[p][a], p, stage, signals)
          /\ steps'[owner[p][a]] = steps[owner[p][a]]
          /\ Cardinality(Open(owner[p][a], p, stage, signals)) <= pend[p][a]
      BY <2>1, BeginningKeeps
    <3>2. Open(owner[p][a], p, stage, signals)' = Open(owner[p][a], p, stage', signals)
      BY <2>1, <3>1 DEF Open, Beginning
    <3> QED BY <2>1, <3>1, <3>2
  <2>2. CASE /\ owner'[p][a] = c /\ pend'[p][a] = PrereqCount(p, steps'[c])
             /\ \A k \in steps'[c] \cap Prereqs[p] : stage'[c][k] # "none"
    <3>1. steps'[c] \in SUBSET Steps
      BY DEF TypeOK
    <3>2. Open(owner[p][a], p, stage, signals)' \in SUBSET (steps'[c] \cap Prereqs[p])
      BY <2>2 DEF Open
    <3> QED BY <2>2, <3>1, <3>2, OpenFew
  <2> QED BY <2>1, <2>2
<1>5. Imported'
  BY DEF QuietInv, Imported, Beginning
<1>6. PrereqsDone'
  <2> SUFFICES ASSUME NEW d \in Calls, NEW p \in Pipes, stage'[d][p] \in {"queued", "running", "saved"}
               PROVE  \A k \in steps'[d] \cap Prereqs[p] : stage'[d][k] \in Ended
    BY DEF PrereqsDone
  <2> QED BY BeginningKeeps
<1> QED BY <1>1, <1>2, <1>3, <1>4, <1>5, <1>6 DEF QuietInv

\* Heuristics are queued: nothing waits for them.
LEMMA QuietBegin ==
    ASSUME PipelineInv, QuietInv, TypeOK', NEW c \in Calls, Begin(c)
    PROVE  QuietInv'
<1> USE StepNames
<1>1. {"heuristics", "embedding", "classification", "faces"} \subseteq Steps /\ "heuristics" \notin Early
  BY DEF Steps, Local, Early, Remote
<1>2. /\ phase[c] = "collected" /\ \A k \in Steps : stage[c][k] = "none"
      /\ UNCHANGED <<asset, steps, pend, owner, signals, library>>
      /\ \A d \in Calls : phase'[d] = IF d = c THEN "putting" ELSE phase[d]
      /\ \A d \in Calls : todo'[d] = IF d = c THEN steps[c] \cap Remote ELSE todo[d]
      /\ \A d \in Calls, j \in Steps :
            stage'[d][j] = IF d = c /\ j = "heuristics" /\ "heuristics" \in steps[c]
                           THEN "queued" ELSE stage[d][j]
  BY <1>1 DEF PipelineInv, TypeOK, Begin, UnstartedCalls
<1>3. Beginning(c) /\ Busy(c, stage, signals)
  BY <1>2 DEF Beginning, Busy
<1>4. \A p \in Pipes, a \in Assets : pend'[p][a] > 0 =>
          owner[p][a] # c /\ owner'[p][a] = owner[p][a] /\ pend'[p][a] = pend[p][a]
  BY <1>2 DEF PipelineInv, Registrations
<1>5. \A k \in Early : stage'[c][k] = "none"
  BY <1>1, <1>2
<1>6. \A p \in Pipes : stage'[c][p] = "none"
  BY <1>1, <1>2 DEF Pipes
<1> QED BY <1>2, <1>3, <1>4, <1>5, <1>6, OwnCall

\* A request is put for a step that has none yet.
LEMMA QuietPutRemote ==
    ASSUME PipelineInv, QuietInv, TypeOK', NEW c \in Calls, PutRemote(c)
    PROVE  QuietInv'
<1> USE StepNames
<1>1. PICK k \in Remote :
      /\ phase[c] = "putting" /\ k \in todo[c]
      /\ UNCHANGED <<phase, asset, steps, pend, owner, signals, library>>
      /\ \A d \in Calls : todo'[d] = IF d = c THEN todo[c] \ {k} ELSE todo[d]
      /\ \A d \in Calls, j \in Steps :
            stage'[d][j] = IF d = c /\ j = k THEN "requested" ELSE stage[d][j]
  <2>1. todo[c] # {} => "tags" \in todo[c] \/ "caption" \in todo[c]
    <3>1. todo[c] \subseteq Remote
      BY DEF QuietInv, PutOnce, PutRemote
    <3> QED BY <3>1 DEF Remote
  <2> QED BY <2>1 DEF PipelineInv, TypeOK, PutRemote, Remote, Steps
<1>2. k \in Steps /\ k \notin Pipes /\ k \in steps[c] /\ stage[c][k] = "none"
  BY <1>1 DEF QuietInv, PutOnce, JobsWanted
<1>3. Beginning(c) /\ Busy(c, stage, signals)
  BY <1>1, <1>2 DEF Beginning, Busy
<1>4. \A p \in Pipes, a \in Assets : pend'[p][a] > 0 =>
          owner[p][a] # c /\ owner'[p][a] = owner[p][a] /\ pend'[p][a] = pend[p][a]
  BY <1>1 DEF PipelineInv, Registrations
<1>5. \A j \in Early : stage'[c][j] # "none" => j \in steps'[c]
  BY <1>1, <1>2 DEF QuietInv, JobsWanted
<1>6. /\ todo'[c] \subseteq Remote
      /\ \A j \in Remote : j \in todo'[c] => stage'[c][j] = "none"
      /\ \A j \in steps'[c] \cap Remote : j \in todo'[c] \/ stage'[c][j] # "none"
  BY <1>1, <1>2 DEF QuietInv, PutOnce
<1>7. todo'[c] \subseteq steps'[c]
  BY <1>1 DEF QuietInv, JobsWanted
<1>8. \A p \in Pipes : stage'[c][p] = "none"
  BY <1>1, <1>2 DEF PipelineInv, PuttingCalls, Pipes
<1> QED BY <1>3, <1>1, <1>4, <1>5, <1>6, <1>7, <1>8, OwnCall

\* The registrations count every prerequisite of the call, and each of them has a job by then.
LEMMA QuietFinish ==
    ASSUME PipelineInv, QuietInv, TypeOK', NEW c \in Calls, Finish(c)
    PROVE  QuietInv'
<1> USE StepNames
<1> DEFINE a == asset[c]
           s == steps[c]
           Waits(p) == p \in s /\ s \cap Prereqs[p] # {}
           Queued(k) == k \in s /\ (k = "embedding" \/ (k \in Pipes /\ ~Waits(k)))
<1>1. /\ phase[c] = "putting" /\ todo[c] = {}
      /\ UNCHANGED <<asset, steps, todo, signals, library>>
      /\ \A d \in Calls : phase'[d] = IF d = c THEN "over" ELSE phase[d]
      /\ \A d \in Calls, j \in Steps :
            stage'[d][j] = IF d = c /\ Queued(j) THEN "queued" ELSE stage[d][j]
  BY DEF PipelineInv, TypeOK, Finish
<1>2. \A p \in Pipes, b \in Assets :
          /\ pend'[p][b] = IF Waits(p) /\ b = a THEN PrereqCount(p, s) ELSE pend[p][b]
          /\ owner'[p][b] = IF Waits(p) /\ b = a THEN c ELSE owner[p][b]
  BY DEF PipelineInv, TypeOK, Finish
<1>3. \A k \in {"embedding", "faces", "classification"} : stage[c][k] = "none"
  BY <1>1 DEF PipelineInv, PuttingCalls
<1>4. \A k \in Pipes \cup {"embedding"} : stage[c][k] = "none"
  BY <1>3 DEF Pipes
<1>5. \A k \in s \cap Remote : stage[c][k] # "none"
  BY <1>1 DEF QuietInv, PutOnce
<1>6. \A k \in Early : k \in s => stage'[c][k] # "none"
  BY <1>1, <1>5 DEF Early
<1>7. ASSUME NEW k \in Steps, Queued(k) PROVE k \in Pipes \cup {"embedding"} /\ k \in s
  BY <1>7
<1>8. \A p \in Pipes : Queued(p) => s \cap Prereqs[p] = {}
  OBVIOUS
<1> HIDE DEF Queued, Waits
<1>9. Beginning(c) /\ Busy(c, stage, signals)
  BY <1>1, <1>4, <1>7 DEF Beginning, Busy
<1>10. ASSUME NEW p \in Pipes, NEW b \in Assets, pend'[p][b] > 0
       PROVE  \/ owner[p][b] # c /\ owner'[p][b] = owner[p][b] /\ pend'[p][b] = pend[p][b]
              \/ /\ owner'[p][b] = c /\ pend'[p][b] = PrereqCount(p, steps'[c])
                 /\ \A k \in steps'[c] \cap Prereqs[p] : stage'[c][k] # "none"
  <2>1. CASE Waits(p) /\ b = a
    BY <1>1, <1>2, <1>6, <2>1
  <2>2. CASE ~(Waits(p) /\ b = a)
    BY <1>1, <1>2, <1>10, <2>2 DEF PipelineInv, Registrations
  <2> QED BY <2>1, <2>2
<1>11. \A k \in Early : stage'[c][k] # "none" => k \in steps'[c]
  BY <1>1, <1>7 DEF QuietInv, JobsWanted
<1>12. \A p \in Pipes : stage'[c][p] \in {"queued", "running", "saved"} =>
          \A k \in steps'[c] \cap Prereqs[p] : stage'[c][k] \in Ended
  BY <1>1, <1>4, <1>8
<1> QED BY <1>1, <1>9, <1>10, <1>11, <1>12, OwnCall

\* The loop of a rerun goes on when its last step is over, and takes the steps in their order.
LEMMA QuietRerunStep ==
    ASSUME PipelineInv, QuietInv, TypeOK', NEW c \in Calls, RerunStep(c)
    PROVE  QuietInv'
<1> USE StepNames
<1>1. PICK k \in todo[c] :
        /\ \A j \in todo[c] : RerunRank[k] <= RerunRank[j]
        /\ todo' = [todo EXCEPT ![c] = @ \ {k}]
        /\ stage' = [stage EXCEPT ![c][k] = IF k \in Remote THEN "requested" ELSE "running"]
  BY DEF RerunStep
<1>2. /\ phase[c] = "rerunning"
      /\ \A j \in Steps : stage[c][j] \in Ended \cup {"none"}
      /\ UNCHANGED <<phase, asset, steps, pend, owner, signals, library>>
  BY DEF RerunStep, RerunIdle, Ended
<1>3. k \in Steps /\ k \in steps[c] /\ stage[c][k] = "none"
  BY <1>2 DEF PipelineInv, TypeOK, RerunCalls, QuietInv, JobsWanted
<1>4. PICK y \in {"requested", "running"} :
        /\ \A d \in Calls, j \in Steps : stage'[d][j] = IF d = c /\ j = k THEN y ELSE stage[d][j]
        /\ \A d \in Calls : todo'[d] = IF d = c THEN todo[c] \ {k} ELSE todo[d]
  BY <1>1 DEF PipelineInv, TypeOK
<1>5. Beginning(c) /\ Busy(c, stage, signals)
  BY <1>2, <1>3, <1>4 DEF Beginning, Busy
<1>6. \A p \in Pipes, a \in Assets : pend'[p][a] > 0 =>
          owner[p][a] # c /\ owner'[p][a] = owner[p][a] /\ pend'[p][a] = pend[p][a]
  BY <1>2 DEF PipelineInv, Registrations
<1>7. \A j \in Early : stage'[c][j] # "none" => j \in steps'[c]
  BY <1>2, <1>3, <1>4 DEF QuietInv, JobsWanted
<1>8. todo'[c] \subseteq steps'[c]
  BY <1>2, <1>4 DEF QuietInv, JobsWanted
<1>9. ASSUME NEW p \in Pipes, stage'[c][p] \in {"queued", "running", "saved"},
             NEW j \in steps'[c] \cap Prereqs[p]
      PROVE  stage'[c][j] \in Ended
  <2>1. p = k /\ j # k /\ j \in steps[c] /\ j \in Steps
    BY <1>2, <1>4, <1>9
  <2>2. RerunRank[j] < RerunRank[p]
    BY <1>9 DEF RerunRank, Prereqs, Pipes, Remote, Local, Steps
  <2>3. j \notin todo[c]
    <3>1. RerunRank[j] \in Nat /\ RerunRank[p] \in Nat
      BY <2>1 DEF RerunRank, Steps, Remote, Local, Pipes
    <3> QED BY <1>1, <2>1, <2>2, <3>1
  <2>4. stage[c][j] # "none"
    BY <1>2, <2>1, <2>3 DEF PipelineInv, RerunCalls
  <2> QED BY <1>2, <1>4, <2>1, <2>4
<1>10. phase'[c] # "putting"
  BY <1>2
<1> QED BY <1>2, <1>5, <1>6, <1>7, <1>8, <1>9, <1>10, OwnCall

\* The steps of jobs that signal nothing at once: see Onward.
LEMMA QuietWorkers ==
    ASSUME PipelineInv, QuietInv, TypeOK', NEW c \in Calls, NEW k \in Steps,
           \/ k \in Remote /\ (Listen(c, k) \/ LaneStart(c, k) \/ LaneEnd(c, k))
           \/ k \in Local /\ BackgroundStart(c, k)
           \/ k \in Local \ {"faces", "embedding"} /\ LocalEnd(c, k)
           \/ k = "faces" /\ (FaceSave(c) \/ FaceEnd(c))
    PROVE  QuietInv'
<1> USE StepNames
<1>1. PICK y \in Stages :
          /\ stage' = [stage EXCEPT ![c][k] = y]
          /\ stage[c][k] \notin Ended \cup {"none"} /\ y # "none"
          /\ k \in Pipes => stage[c][k] \in {"queued", "running", "saved"}
          /\ LaneEnd(c, k) /\ k \in Remote => y \in Ended
  <2>1. CASE k \in Remote /\ (Listen(c, k) \/ LaneStart(c, k))
    BY <2>1 DEF Listen, LaneStart, LaneEnd, Remote, Ended, Stages, Pipes
  <2>2. CASE k \in Remote /\ LaneEnd(c, k)
    BY <2>2 DEF LaneEnd, EndStage, Remote, Ended, Stages, Pipes
  <2>3. CASE k \in Local /\ BackgroundStart(c, k)
    BY <2>3 DEF BackgroundStart, Ended, Stages, Local, Remote
  <2>4. CASE k \in Local \ {"faces", "embedding"} /\ LocalEnd(c, k)
    BY <2>4 DEF LocalEnd, EndStage, Ended, Stages, Local, Remote
  <2>5. CASE k = "faces" /\ (FaceSave(c) \/ FaceEnd(c))
    BY <2>5 DEF FaceSave, FaceEnd, EndStage, Ended, Stages, Remote
  <2> QED BY <2>1, <2>2, <2>3, <2>4, <2>5
<1>2. \A d \in Calls, j \in Steps : stage'[d][j] = IF d = c /\ j = k THEN y ELSE stage[d][j]
  BY <1>1 DEF PipelineInv, TypeOK
<1>3. UNCHANGED <<phase, asset, steps, todo, pend, owner, library>>
  BY DEF Listen, LaneStart, LaneEnd, BackgroundStart, LocalEnd, FaceSave, FaceEnd, callVars
<1>4. \A m \in signals' : m \in signals \/ (stage[m.call][m.step] \notin Ended \cup {"none"}
                                            /\ stage'[m.call][m.step] \in Ended /\ m.step \in Prereqs[m.pipe])
  <2>1. CASE signals' = signals
    BY <2>1
  <2>2. CASE k \in Remote /\ LaneEnd(c, k)
    <3>1. signals' = signals \cup {[call |-> c, step |-> k, pipe |-> p] : p \in {q \in Pipes : k \in Prereqs[q]}}
      BY <2>2 DEF LaneEnd
    <3> QED BY <1>1, <1>2, <2>2, <3>1
  <2> QED BY <2>1, <2>2 DEF Listen, LaneStart, BackgroundStart, LocalEnd, FaceSave, FaceEnd
<1>5. Onward
  BY <1>1, <1>2, <1>3, <1>4 DEF Onward
<1> QED BY <1>5, OnwardKeeps

\* The end of a rerun, the death of the worker process and a restart start nothing either.
LEMMA QuietEnds ==
    ASSUME PipelineInv, QuietInv, TypeOK',
           (\E c \in Calls : RerunEnd(c)) \/ WorkerCrash \/ BackendCrash \/ Restart
    PROVE  QuietInv'
<1> USE StepNames
<1>1. CASE \E c \in Calls : RerunEnd(c)
  <2>1. PICK c \in Calls : RerunEnd(c)
    BY <1>1
  <2>2. \A d \in Calls : phase'[d] = phase[d] \/ phase'[d] = "over"
    BY <2>1 DEF RerunEnd, PipelineInv, TypeOK
  <2>3. UNCHANGED <<asset, steps, todo, stage, signals, pend, owner, library>>
    BY <2>1 DEF RerunEnd
  <2>4. Onward
    BY <2>2, <2>3 DEF Onward
  <2> QED BY <2>4, OnwardKeeps
<1>2. CASE WorkerCrash
  <2>1. \A d \in Calls : phase'[d] = phase[d] \/ phase'[d] = "lost"
    BY <1>2 DEF WorkerCrash
  <2>2. \A c \in Calls, k \in Steps : stage'[c][k] = stage[c][k] \/
            (stage[c][k] \notin Ended \cup {"none"} /\ stage'[c][k] = "lost")
    BY <1>2 DEF WorkerCrash, Ended
  <2>3. UNCHANGED <<asset, steps, todo, pend, owner, library>> /\ signals' \subseteq signals
    BY <1>2 DEF WorkerCrash
  <2>4. Onward
    BY <2>1, <2>2, <2>3 DEF Onward
  <2> QED BY <2>4, OnwardKeeps
<1>3. CASE BackendCrash \/ Restart
  <2>1. \A d \in Calls : phase'[d] = phase[d] \/ phase'[d] = "lost"
    BY <1>3 DEF BackendCrash, Restart, Fresh
  <2>2. \A c \in Calls, k \in Steps : stage'[c][k] = stage[c][k] \/
            (stage[c][k] \notin Ended \cup {"none"} /\ stage'[c][k] = "lost")
    BY <1>3 DEF BackendCrash, Restart, Fresh, Ended
  <2>3. UNCHANGED <<asset, steps, todo, library>> /\ signals' = {}
    BY <1>3 DEF BackendCrash, Restart, Fresh
  <2>4. \A p \in Pipes, a \in Assets : pend'[p][a] = 0
    BY <1>3 DEF BackendCrash, Restart, Fresh
  <2>5. Onward
    BY <2>1, <2>2, <2>3, <2>4 DEF Onward
  <2> QED BY <2>5, OnwardKeeps
<1> QED BY <1>1, <1>2, <1>3

\* A signal from the worker process counts once, for a step that is over.
LEMMA QuietForward ==
    ASSUME PipelineInv, QuietInv, TypeOK', NEW m \in signals, Forward(m)
    PROVE  QuietInv'
<1> USE StepNames
<1>1. m.call \in Calls /\ m.step \in Early /\ m.pipe \in Pipes /\ asset[m.call] \in Assets
  BY SignalParts DEF PipelineInv, CallsNamed
<1>2. m = [call |-> m.call, step |-> m.step, pipe |-> m.pipe]
  BY DEF PipelineInv, TypeOK, Signal
<1>3. stage[m.call][m.step] \in Ended /\ m.step \in Prereqs[m.pipe]
  BY DEF QuietInv, SignalsOver
<1>4. /\ signals' = signals \ {m} /\ stage' = Scheduled(m.pipe, asset[m.call], stage)
      /\ pend' = CountDown(m.pipe, asset[m.call]) /\ UNCHANGED <<callVars, owner, library>>
  BY DEF Forward
<1>5. stage \in [Calls -> [Steps -> Stages]]
  BY DEF PipelineInv, TypeOK
<1> QED BY <1>1, <1>2, <1>3, <1>4, <1>5, DeliveredKeeps

\* The end of an embedding counts at once.
LEMMA QuietEmbeddingEnd ==
    ASSUME PipelineInv, QuietInv, TypeOK', NEW c \in Calls, LocalEnd(c, "embedding")
    PROVE  QuietInv'
<1> USE StepNames
<1>1. PICK o \in Outcomes : stage' = Scheduled("classification", asset[c], [stage EXCEPT ![c]["embedding"] = EndStage(o)])
  BY DEF LocalEnd
<1> DEFINE st == [stage EXCEPT ![c]["embedding"] = EndStage(o)]
<1>2. st \in [Calls -> [Steps -> Stages]] /\ "embedding" \in Steps
  BY DEF PipelineInv, TypeOK, EndStage, Stages, Steps, Local
<1>3. /\ \A d \in Calls, j \in Steps : d # c \/ j # "embedding" => st[d][j] = stage[d][j]
      /\ st[c]["embedding"] \in Ended
  BY <1>2 DEF PipelineInv, TypeOK, EndStage, Ended
<1>4. /\ stage[c]["embedding"] = "running" /\ pend' = CountDown("classification", asset[c])
      /\ UNCHANGED <<callVars, owner, library, signals>>
  BY DEF LocalEnd
<1>5. "classification" \in Pipes /\ "embedding" \in Prereqs["classification"]
  BY DEF Pipes, Prereqs
<1>6. asset[c] \in Assets
  <2>1. phase[c] # "idle"
    BY <1>2, <1>4 DEF PipelineInv, UnstartedCalls
  <2> QED BY <2>1 DEF PipelineInv, CallsNamed
<1>7. [call |-> c, step |-> "embedding", pipe |-> "classification"] \notin signals
  BY SignalParts DEF Early, Remote, PipelineInv
<1>8. signals' = signals \ {[call |-> c, step |-> "embedding", pipe |-> "classification"]}
  BY <1>4, <1>7
<1>9. stage[c]["embedding"] \notin Ended \cup {"none"}
  BY <1>4 DEF Ended
<1>10. stage' = Scheduled("classification", asset[c], st)
  BY <1>1
<1> HIDE DEF st
<1> QED BY <1>2, <1>3, <1>4, <1>5, <1>6, <1>8, <1>9, <1>10, DeliveredKeeps

\* Every step keeps the invariant, if catch-ups and reruns wait for quiet photos.
LEMMA QuietNext == PipelineInv /\ QuietInv /\ [Next]_vars /\ Overlapping = {} => QuietInv'
<1> SUFFICES ASSUME PipelineInv, QuietInv, [Next]_vars, Overlapping = {} PROVE QuietInv'
  OBVIOUS
<1>0. TypeOK'
  BY InvNext DEF PipelineInv
<1>1. CASE \E c \in Calls, a \in Assets : Import(c, a) \/ Rerun(c, a)
  BY <1>1, QuietRequests
<1>2. CASE CatchUps
  BY <1>2, QuietRequests DEF CatchUps
<1>3. CASE Callers
  BY <1>0, <1>3, QuietBegin, QuietPutRemote, QuietFinish, QuietRerunStep, QuietEnds DEF Callers, Pipelined, Rerunning
<1>4. CASE Lanes
  BY <1>0, <1>4, QuietWorkers DEF Lanes, Steps
<1>5. CASE Forwarder
  BY <1>0, <1>5, QuietForward DEF Forwarder
<1>6. CASE LocalWork
  <2>1. CASE \E c \in Calls, k \in Local : BackgroundStart(c, k) \/ LocalEnd(c, k)
    <3>1. PICK c \in Calls, k \in Local : BackgroundStart(c, k) \/ LocalEnd(c, k)
      BY <2>1
    <3>2. k \in Steps /\ (LocalEnd(c, k) => k # "faces")
      BY DEF Steps, LocalEnd
    <3> QED  BY <1>0, <3>1, <3>2, QuietWorkers, QuietEmbeddingEnd
  <2>2. CASE \E c \in Calls : FaceSave(c) \/ FaceEnd(c)
    BY <1>0, <2>2, QuietWorkers, "faces" \in Steps DEF Steps, Local
  <2> QED  BY <1>6, <2>1, <2>2 DEF LocalWork
<1>7. CASE WorkerCrash \/ BackendCrash \/ Restart
  BY <1>0, <1>7, QuietEnds
<1>8. CASE UNCHANGED vars
  <2>1. Onward
    BY <1>8 DEF vars, callVars, Onward
  <2> QED BY <1>0, <2>1, OnwardKeeps
<1> QED  BY <1>1, <1>2, <1>3, <1>4, <1>5, <1>6, <1>7, <1>8 DEF Next

\* The empty backend satisfies it.
LEMMA QuietInit == Init => QuietInv
<1> SUFFICES ASSUME Init PROVE QuietInv
  OBVIOUS
<1>1. \A c \in Calls, k \in Steps : stage[c][k] = "none"
  BY DEF Init, NoStages
<1>2. \A c \in Calls : ~Busy(c, stage, signals)
  BY <1>1, StepNames DEF Init, Busy
<1>3. OneAtATime(stage, signals) /\ SignalsOver(stage, signals) /\ Imported
  BY <1>2, NoneAssumption DEF Init, OneAtATime, SignalsOver, Imported
<1>4. JobsWanted(stage) /\ PutOnce(stage) /\ PrereqsDone
  BY <1>1, StepNames DEF Init, JobsWanted, PutOnce, PrereqsDone
<1>5. Counted(stage, signals)
  BY DEF Init, Counted
<1> QED BY <1>3, <1>4, <1>5 DEF QuietInv

\* FACE and CLASSIFICATION start after the steps they wait for, whatever fails or crashes, in any
\* number of photos and calls, as long as a photo is worked on by one call at a time.
THEOREM PrerequisitesFirst == Overlapping = {} => (Spec => []PrereqsOver)
<1> SUFFICES ASSUME Overlapping = {} PROVE Spec => []PrereqsOver
  OBVIOUS
<1>1. Init => PipelineInv /\ QuietInv
  BY InvInit, QuietInit
<1>2. (PipelineInv /\ QuietInv) /\ [Next]_vars => (PipelineInv /\ QuietInv)'
  BY InvNext, QuietNext
<1>3. QuietInv => PrereqsOver
  BY DEF QuietInv, PrereqsDone, PrereqsOver
<1> QED  BY <1>1, <1>2, <1>3, PTL DEF Spec
=============================================================================
