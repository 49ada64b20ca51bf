--------------------------- MODULE MCSessionPool ---------------------------
(* An instance of SessionPool for TLC.                                      *)
EXTENDS SessionPool, HeavyModels, TLC

CONSTANTS rec, age, embed, decoder, t1, t2, t3, gemma, gguf, qwen, joy

\* buffalo_l borrows its recognition model before the age model, Florence-2 the
\* embedder before the decoder.
AdapterOrder == [m \in Models |-> IF m \in {rec, embed} THEN 1 ELSE 2]

\* The adapter of the captions beside the face analysis.
CaptionsAndFaces == {{embed, decoder}, {rec, age}}

OneWorker == {1}

\* Heavy models: the knowledge jobs of the API process run one after the other, the worker
\* process has two captioning workers.
Where     == ("job" :> "api") @@ ("caption1" :> "worker") @@ ("caption2" :> "worker")
Asks      == [c \in DOMAIN Where |-> IF c = "job" THEN {gemma, gguf} ELSE {qwen, joy}]
Runtimes  == [m \in {gemma, gguf, qwen, joy} |-> IF m = gguf THEN "gguf" ELSE "torch"]

\* Sessions and heavy models have nothing in common; the sessions are used when no heavy
\* model is there.
NextBoth ==
    \/ NoHeavyModel /\ Next /\ UNCHANGED hvars
    \/ HNext /\ UNCHANGED vars

InitBoth == Init /\ HInit

SpecBoth ==
    /\ InitBoth /\ [][NextBoth]_<<vars, hvars>>
    /\ \A t \in Threads : WF_vars(Borrow(t) \/ Work(t) \/ GiveBack(t))
=============================================================================
