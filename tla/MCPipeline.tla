----------------------------- MODULE MCPipeline -----------------------------
(* Instances of Pipeline for TLC.                                           *)
EXTENDS Pipeline

CONSTANTS a1, a2

AllSteps      == Steps
AllScopes     == {Steps}
NoReruns      == {}
TagRerun      == {{"tags", "caption"}, {"faces"}}
OneWorkerEach == [k \in Remote |-> 1]

\* One photo at a time: two calls that overlap freely, or three calls one after the other, with
\* a failed job and a crash.
OnePhoto ==
    \/ /\ library \subseteq Overlapping
       /\ failures = 0 /\ crashes = 0 /\ \A c \in Calls : c > 2 => phase[c] = "idle"
    \/ library \subseteq Assets \ Overlapping
=============================================================================
