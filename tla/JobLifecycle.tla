---------------------------- MODULE JobLifecycle ----------------------------
(***************************************************************************)
(* What the job queue promises to whoever watches it: a job is run once, it *)
(* ends once, and the page shows the states a job has been in, in order.    *)
(***************************************************************************)
EXTENDS Naturals

CONSTANT Job

VARIABLES
    phase,     \* what a job has come to
    shown      \* what the page shows of it

Ended == {"done", "error"}

Rank(p) == CASE p = "none" -> 0 [] p = "queued" -> 1 [] p = "running" -> 2 [] OTHER -> 3

Init == phase = [j \in Job |-> "none"] /\ shown = [j \in Job |-> "none"]

Goes(j, from, to) == phase[j] = from /\ phase' = [phase EXCEPT ![j] = to] /\ UNCHANGED shown

Enqueue(j) == Goes(j, "none", "queued")
Start(j)   == Goes(j, "queued", "running")
End(j)     == \E p \in Ended : Goes(j, "running", p)

\* A process ends and takes with it what it had not ended.
Lose == /\ \E J \in SUBSET {j \in Job : phase[j] \in {"queued", "running"}} :
              phase' = [j \in Job |-> IF j \in J THEN "gone" ELSE phase[j]]
        /\ UNCHANGED shown

\* The page may be late and may skip states, but does not go back.
Show(j) == /\ \E p \in {"queued", "running", "done", "error"} :
                 /\ Rank(shown[j]) <= Rank(p) /\ Rank(p) <= Rank(phase[j])
                 /\ p \in Ended => phase[j] = p
                 /\ shown' = [shown EXCEPT ![j] = p]
           /\ UNCHANGED phase

\* The user clears the list of ended jobs.
Clear == /\ shown' = [j \in Job |-> IF shown[j] \in Ended THEN "none" ELSE shown[j]]
         /\ UNCHANGED phase

Next == (\E j \in Job : Enqueue(j) \/ Start(j) \/ End(j) \/ Show(j)) \/ Lose \/ Clear

Spec == Init /\ [][Next]_<<phase, shown>>
=============================================================================
