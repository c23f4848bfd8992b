------------------------------ MODULE OrderedRun ------------------------------
(***************************************************************************)
(* What the execution of a list of steps promises, whatever it retries,    *)
(* skips or repeats on the way: the steps it has to do are done one by     *)
(* one, in their order, each of them once, and the verdict is PASSED only  *)
(* when all of them are done.                                              *)
(***************************************************************************)
EXTENDS Naturals

CONSTANT Steps \* the numbers of the planned steps

VARIABLES
    status, \* of the execution
    todo,   \* the steps this run has to do
    done    \* those it has done

vars == <<status, todo, done>>

Init ==
    /\ status = "queued"
    /\ todo \subseteq Steps /\ done = {}

Start ==
    /\ status = "queued" /\ status' = "running"
    /\ todo' \subseteq Steps /\ done' = {}

\* Before anything is done, the run decides what it has to do.
Plan ==
    /\ status = "running" /\ done = {}
    /\ todo' \subseteq Steps
    /\ UNCHANGED <<status, done>>

Do(s) ==
    /\ status = "running" /\ s \in todo \ done
    /\ \A t \in todo : t < s => t \in done
    /\ done' = done \cup {s}
    /\ UNCHANGED <<status, todo>>

End(outcome) ==
    /\ status = "running" /\ status' = outcome
    /\ outcome = "passed" => done = todo
    /\ UNCHANGED <<todo, done>>

Cancel ==
    /\ status \in {"queued", "running"} /\ status' = "cancelled"
    /\ UNCHANGED <<todo, done>>

Again ==
    /\ status \in {"passed", "failed", "error", "cancelled"}
    /\ status' = "queued"
    /\ UNCHANGED <<todo, done>>

Next ==
    \/ Start \/ Plan \/ (\E s \in Steps : Do(s))
    \/ (\E outcome \in {"passed", "failed", "error"} : End(outcome))
    \/ Cancel \/ Again

Spec == Init /\ [][Next]_vars
=============================================================================
