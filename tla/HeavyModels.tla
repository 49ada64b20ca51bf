---------------------------- MODULE HeavyModels ----------------------------
(***************************************************************************)
(* The two runtimes of the language models and heavy captioners             *)
(* (GenerativeEngine for torch, GgufEngine for llama.cpp), each with one    *)
(* slot, a copy of both in the API process and in the worker process. A     *)
(* load looks at its slot, has the other runtime unload, empties its own    *)
(* slot, loads outside the lock and fills the slot: each lock region of the *)
(* code is one action.                                                      *)
(***************************************************************************)
EXTENDS Integers, FiniteSets

CONSTANTS
    Callers,       \* threads that generate a text or a caption
    ProcessOf,     \* [Callers -> the process the thread is in]
    Heavy,         \* the models
    EngineOf,      \* [Heavy -> Engines], by the format in the manifest
    MayAsk,        \* [Callers -> the models its jobs may be set to]
    Nothing,
    MaxAsks        \* bound: calls

Engines   == {"torch", "gguf"}
Processes == {ProcessOf[c] : c \in Callers}

CallersIn(p) == {c \in Callers : ProcessOf[c] = p}

\* The calls of a process with several threads all go to one runtime: only the API process
\* has models of both, and its knowledge jobs run one after the other.
OneCaller(p)  == \A c, d \in CallersIn(p) : c = d
OneRuntime(p) == \E e \in Engines : \A c \in CallersIn(p) : \A m \in MayAsk[c] : EngineOf[m] = e

ASSUME CallerAssumption  == IsFiniteSet(Callers)
ASSUME HeavyAssumption   == /\ EngineOf \in [Heavy -> Engines]
                            /\ MayAsk \in [Callers -> SUBSET Heavy]
                            /\ Nothing \notin Heavy
                            /\ MaxAsks \in Nat
ASSUME RuntimeAssumption == \A p \in Processes : OneCaller(p) \/ OneRuntime(p)

VARIABLES
    slot,          \* _current: [Processes -> [Engines -> copy of a model, or Nothing]]
    at,            \* [Callers -> how far its call has come]
    copy,          \* [Callers -> the copy it loads or uses, or Nothing]
    wanted,        \* [Callers -> the model of its call, or Nothing]
    asks           \* calls that may still come

hvars == <<slot, at, copy, wanted, asks>>

\* Both engines start empty; with no calls to come nothing is ever loaded.
HInit ==
    /\ slot = [p \in Processes |-> [e \in Engines |-> Nothing]]
    /\ at = [c \in Callers |-> "idle"]
    /\ copy = [c \in Callers |-> Nothing]
    /\ wanted = [c \in Callers |-> Nothing]
    /\ asks \in {0, MaxAsks}

\* What takes memory in a process: what is in a slot, is loaded, or is still used by a thread.
InMemory(p) == ({slot[p][e] : e \in Engines} \cup {copy[c] : c \in CallersIn(p)}) \ {Nothing}

Own(c)   == slot[ProcessOf[c]][EngineOf[wanted[c]]]
Other(e) == CHOOSE f \in Engines : f # e

\* A number no copy of the process has.
NewCopy(c) ==
    LET taken == {x.n : x \in InMemory(ProcessOf[c])}
    IN  [model |-> wanted[c], n |-> CHOOSE n \in 1..Cardinality(taken) + 1 : n \notin taken]

-----------------------------------------------------------------------------
\* A job resolves its model and asks the engine of the model's format for it.
Ask(c, m) ==
    /\ at[c] = "idle"
    /\ asks > 0
    /\ asks' = asks - 1
    /\ wanted' = [wanted EXCEPT ![c] = m]
    /\ at' = [at EXCEPT ![c] = "asking"]
    /\ UNCHANGED <<slot, copy>>

\* The model is in the slot and is used as it is ...
Reuse(c) ==
    /\ at[c] = "asking"
    /\ Own(c) # Nothing
    /\ Own(c).model = wanted[c]
    /\ copy' = [copy EXCEPT ![c] = Own(c)]
    /\ at' = [at EXCEPT ![c] = "using"]
    /\ UNCHANGED <<slot, wanted, asks>>

Missing(c) ==
    /\ at[c] = "asking"
    /\ Own(c) # Nothing => Own(c).model # wanted[c]
    /\ at' = [at EXCEPT ![c] = "missing"]
    /\ UNCHANGED <<slot, copy, wanted, asks>>

\* Mutant: the other runtime keeps what it has.
CrossUnloadLater(c) ==
    /\ at[c] = "missing"
    /\ at' = [at EXCEPT ![c] = "crossed"]
    /\ UNCHANGED <<slot, copy, wanted, asks>>

\* ... or the other runtime is told to unload first ...
CrossUnload(c) ==
    /\ at[c] = "missing"
    /\ slot' = [slot EXCEPT ![ProcessOf[c]][Other(EngineOf[wanted[c]])] = Nothing]
    /\ at' = [at EXCEPT ![c] = "crossed"]
    /\ UNCHANGED <<copy, wanted, asks>>

\* Mutant: the slot keeps its model until the new one is there.
EvictOwnLater(c) ==
    /\ at[c] = "crossed"
    /\ copy' = [copy EXCEPT ![c] = NewCopy(c)]
    /\ at' = [at EXCEPT ![c] = "loading"]
    /\ UNCHANGED <<slot, wanted, asks>>

\* ... then the own slot is emptied, and the model loaded outside the lock.
EvictOwn(c) ==
    /\ at[c] = "crossed"
    /\ slot' = [slot EXCEPT ![ProcessOf[c]][EngineOf[wanted[c]]] = Nothing]
    /\ copy' = [copy EXCEPT ![c] = NewCopy(c)]
    /\ at' = [at EXCEPT ![c] = "loading"]
    /\ UNCHANGED <<wanted, asks>>

\* The slot takes what was loaded, whatever another thread has put there meanwhile.
Loaded(c) ==
    /\ at[c] = "loading"
    /\ slot' = [slot EXCEPT ![ProcessOf[c]][EngineOf[wanted[c]]] = copy[c]]
    /\ at' = [at EXCEPT ![c] = "using"]
    /\ UNCHANGED <<copy, wanted, asks>>

\* The answer is there, or loading or generating raised: the thread keeps no reference.
Over(c) ==
    /\ at[c] \in {"loading", "using"}
    /\ copy' = [copy EXCEPT ![c] = Nothing]
    /\ wanted' = [wanted EXCEPT ![c] = Nothing]
    /\ at' = [at EXCEPT ![c] = "idle"]
    /\ UNCHANGED <<slot, asks>>

\* evict_idle of a process. The time is set when a model is loaded or asked for, so a long
\* answer may be under way; its thread keeps the memory.
EvictHeavyIdle(p, e) ==
    /\ slot[p][e] # Nothing
    /\ slot' = [slot EXCEPT ![p][e] = Nothing]
    /\ UNCHANGED <<at, copy, wanted, asks>>

HNext ==
    \/ \E c \in Callers :
          \/ \E m \in MayAsk[c] : Ask(c, m)
          \/ Reuse(c) \/ Missing(c) \/ CrossUnload(c) \/ EvictOwn(c) \/ Loaded(c) \/ Over(c)
    \/ \E p \in Processes, e \in Engines : EvictHeavyIdle(p, e)

HSpec == HInit /\ [][HNext]_hvars

-----------------------------------------------------------------------------
\* The two engines together keep to one model where a process has one thread that asks, as
\* the API process with its knowledge jobs: loads, idle evictions and answers under way
\* included.  Where it has more, one is left when all of them are idle.
HeavyModelsFit ==
    \A p \in Processes :
        OneCaller(p) \/ (\A c \in CallersIn(p) : at[c] = "idle") => Cardinality(InMemory(p)) <= 1

\* A process comes to hold another model beside one in memory in one way only: a call loads
\* while another call of the process has a model of its own.
SecondBesideCall ==
    [][\A p \in Processes :
          \/ Cardinality(InMemory(p)') <= 1
          \/ InMemory(p)' \subseteq InMemory(p)
          \/ \E c, d \in CallersIn(p) : c # d /\ EvictOwn(c) /\ copy[d] # Nothing]_hvars

\* "genau ein Heavy-Modell resident über beide Runtimes" (gguf_engine.py, ADR-028): a process
\* never has two heavy models in memory.
OneHeavyModel == \A p \in Processes : Cardinality(InMemory(p)) <= 1

\* Nothing is asked for or in memory any more.
NoHeavyModel == asks = 0 /\ \A p \in Processes : InMemory(p) = {} /\ \A c \in CallersIn(p) : at[c] = "idle"
=============================================================================
