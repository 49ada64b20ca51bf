----------------------------- MODULE MCWorkers -----------------------------
(* An instance of Workers for TLC.                                          *)
EXTENDS Workers

CONSTANTS j1, j2, j3

Reruns == j1 :> j2

Uses(names) == [name \in {"resizes", "reconnects", "clears", "deaths", "restarts"} |->
                   IF name \in names THEN 1 ELSE 0]

\* A rerun and a job behind it, beside a reconnect or a dead worker; two jobs in one lane of
\* the worker process; jobs of the background lane beside a download; a pool that is resized.
SomePlans ==
    [kind : {(j1 :> "rerun" @@ j2 :> "captioning" @@ j3 :> "none"),
             (j1 :> "tagging" @@ j2 :> "tagging" @@ j3 :> "none")},
     left : {Uses({"reconnects", "clears"}), Uses({"deaths", "restarts"})}]
    \cup [kind : {(j1 :> "rerun" @@ j2 :> "captioning" @@ j3 :> "import")}, left : {Uses({})}]
    \cup [kind : {(j1 :> "comfyui_run" @@ j2 :> "face" @@ j3 :> "download")}, left : {Uses({})}]
    \cup [kind : {(j1 :> "import" @@ j2 :> "import" @@ j3 :> "none")},
          left : {[Uses({"reconnects"}) EXCEPT !["resizes"] = 3]}]
=============================================================================
