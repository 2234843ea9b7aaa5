------------------------------ MODULE RunStages ------------------------------
(***************************************************************************)
(* The life of one generation's run goroutine, and the row it leaves, as   *)
(* whoever starts it may count on it.  GenerateVariations, which has the   *)
(* goroutine in full, IdempotentGenerate and Service, which have many of   *)
(* them by their stages, each implement it.                                *)
(***************************************************************************)
CONSTANTS
    MayFail,    \* whether a Save may fail under a context that is not done
    Crashes     \* whether the process may end under the goroutine

VARIABLES
    rec,        \* the status of the row
    run,        \* the stage of the goroutine
    ctxDone     \* the request's context is done

vars == <<rec, run, ctxDone>>

Init ==
    /\ rec = "none"
    /\ run = "none"
    /\ ctxDone = FALSE

Cancel ==
    /\ ctxDone' = TRUE
    /\ UNCHANGED <<rec, run>>

\* Execute refuses the input, or its Save returns an error, applied or not:
\* no goroutine is started.
Refuse ==
    /\ run = "none"
    /\ \/ UNCHANGED rec
       \/ (MayFail \/ ctxDone) /\ rec' = "streaming"
    /\ run' = "ended"
    /\ UNCHANGED ctxDone

\* Execute saves the row and starts the goroutine, which offers
\* generation_started.
Create ==
    /\ run = "none"
    /\ rec' = "streaming"
    /\ run' = "offering"
    /\ UNCHANGED ctxDone

Start ==
    /\ run = "offering"
    /\ run' = "working"
    /\ UNCHANGED <<rec, ctxDone>>

Abandon ==
    /\ run = "offering"
    /\ ctxDone
    /\ run' = "ended"
    /\ UNCHANGED <<rec, ctxDone>>

\* A context that is done leaves no choice.
Decide ==
    /\ run = "working"
    /\ run' \in IF ctxDone THEN {"failing"} ELSE {"completing", "failing"}
    /\ UNCHANGED <<rec, ctxDone>>

Verdict == IF run = "completing" THEN "completed" ELSE "failed"

\* The terminal Save, and the end of the goroutine's writing.
Settle ==
    /\ run \in {"completing", "failing"}
    /\ \/ rec' = Verdict
       \/ MayFail /\ UNCHANGED rec
    /\ run' = "ended"
    /\ UNCHANGED ctxDone

\* The process ends, with a Save that was under way applied or not.
Crash ==
    /\ Crashes
    /\ \/ UNCHANGED rec
       \/ run = "none" /\ rec' = "streaming"
       \/ run \in {"completing", "failing"} /\ rec' = Verdict
    /\ run' = "ended"
    /\ ctxDone' \in {ctxDone, TRUE}

Next ==
    \/ Cancel \/ Refuse \/ Create \/ Start \/ Abandon \/ Decide \/ Settle
    \/ Crash

Spec == Init /\ [][Next]_vars
=============================================================================
