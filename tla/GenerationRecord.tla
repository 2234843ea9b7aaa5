-------------------------- MODULE GenerationRecord --------------------------
(***************************************************************************)
(* What POST /v1/generate promises about one generation, seen from outside *)
(* the process: the row in the generations table, and the outcome the      *)
(* client reads at the end of the event stream.  It says nothing of        *)
(* goroutines, channels or contexts; GenerateVariations implements it.     *)
(***************************************************************************)
CONSTANTS
    Strategies      \* the pricing strategies the request asks for

VARIABLES
    record,         \* the persisted generation: its status and variations
    outcome         \* the terminal event the client has read, if any

vars == <<record, outcome>>

\* domain.GenerationStatus, with "none" for a generation that has no row.
\* "pending" is declared by the code and never assigned.
Statuses == {"none", "streaming", "completed", "failed"}

Terminal == {"completed", "failed"}

Outcomes == {"none", "done", "error"}

NoRecord == [status |-> "none", variations |-> {}]

Streaming == [status |-> "streaming", variations |-> {}]

\* The only two states a finished generation is saved in: all of the
\* requested variations, or none of them.
Completed == [status |-> "completed", variations |-> Strategies]

Failed == [status |-> "failed", variations |-> {}]

Init ==
    /\ record = NoRecord
    /\ outcome = "none"

\* Execute saves the new generation.
Create ==
    /\ record = NoRecord
    /\ record' = Streaming
    /\ UNCHANGED outcome

\* run saves the generation a second and last time.
Settle ==
    /\ record = Streaming
    /\ outcome = "none"
    /\ record' \in {Completed, Failed}
    /\ UNCHANGED outcome

\* The client is told of success only after the success is persisted.
TellDone ==
    /\ record = Completed
    /\ outcome = "none"
    /\ outcome' = "done"
    /\ UNCHANGED record

\* An error is told of a failed generation, and also when the terminal save
\* reported an error, whether or not it was applied.
TellError ==
    /\ record # NoRecord
    /\ outcome = "none"
    /\ outcome' = "error"
    /\ UNCHANGED record

Next == Create \/ Settle \/ TellDone \/ TellError

Spec == Init /\ [][Next]_vars
=============================================================================
