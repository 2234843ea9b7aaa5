--------------------------- MODULE ReadGeneration ---------------------------
(***************************************************************************)
(* The readers of one generation, GET /v1/generations/{id} and             *)
(* POST /v1/export/{id}, while POST /v1/generate writes its row: the two   *)
(* handlers (internal/adapter/httpapi/get_generation.go, export.go), the   *)
(* use case (internal/usecase/export_variation.go) and the repository      *)
(* between them and the row (internal/adapter/repository/postgres.go).     *)
(*                                                                         *)
(* The writer is Execute and run (internal/usecase/generate_variations.go) *)
(* with their two Saves and the events that carry a generation; what its   *)
(* strategies do is in GenerateVariations, and that its own client leaves  *)
(* is a choice open at every step that asks.  A variation goes by the      *)
(* strategy it was generated for, as its id does not change.               *)
(***************************************************************************)
EXTENDS Naturals

CONSTANTS
    Strategies,     \* the strategies of the generation
    Clients,        \* the clients that read it, one request at a time each
    FallibleRepo,   \* whether GenerationRepo's calls may return an error
    MaxAsks         \* bound: requests a client sends

ASSUME FallibleRepoAssumption == FallibleRepo \in BOOLEAN
ASSUME MaxAsksAssumption == MaxAsks \in Nat

VARIABLES
    row,            \* the generation's row: its status and variations columns
    run,            \* program counter of Execute and run
    report,         \* status of the generation in run's last event, if any
    told,           \* status of the last generation the stream has shown
    stage,          \* where the handler of each client's request is
    request,        \* the request
    ctxDone,        \* its context is done
    loaded,         \* the Generation its repo.Get returned
    answer,         \* the answer to it
    asks,           \* requests each client has sent
    knows           \* history: what each client knew when it asked

writerVars == <<row, run, report, told>>
handlerVars == <<stage, request, loaded, answer>>
vars == <<writerVars, handlerVars, ctxDone, asks, knows>>

----------------------------------------------------------------------------
(* The row and its conversions.                                            *)

\* JSON's null and Go's nil slice, as the empty set; an array is a singleton.
Null == {}

NoRow == [status |-> "none", variations |-> Null]

\* json.Marshal of a Generation's Variations: a nil slice, which is what one
\* that is not completed holds, becomes null.
Column(variations) == IF variations = {} THEN Null ELSE {variations}

\* UpsertGeneration: creates the row or overwrites it, created_at apart.
Upsert(status, variations) ==
    row' = [status |-> status, variations |-> Column(variations)]

\* What toAPIGeneration lists: an array, empty for a nil slice.
Listed(column) == UNION column

----------------------------------------------------------------------------
(* Requests and answers.                                                   *)

Formats == {"jsx", "html", "stripe"}

\* The id in the path: not a UUID, one without a row, or the generation's.
Ids == {"malformed", "other", "ours"}

\* A body without a variationId decodes to the nil UUID.
NilUUID == "00000000-0000-0000-0000-000000000000"

Gets == [kind : {"get"}, id : Ids]

Exports == [kind : {"export"}, id : Ids, decodes : BOOLEAN,
            variation : Strategies \cup {NilUUID},
            format : Formats \cup {"unknown"}]

Requests == Gets \cup Exports

Generations == [status : {"streaming", "completed", "failed"},
                variations : {Null} \cup {{v} : v \in SUBSET Strategies}]

NoGeneration == [status |-> "none", variations |-> Null]

\* A body is a generation as it is listed, or the artifact of a variation.
Bodies == [status : {"streaming", "completed", "failed"},
           variations : SUBSET Strategies]
              \cup [artifact : Strategies, format : Formats]

Answers == [code : {0, 400, 404, 500}] \cup [code : {200}, body : Bodies]

Code(n) == [code |-> n]

NoAnswer == Code(0)

Init ==
    /\ row = NoRow
    /\ run = "execute"
    /\ report = "none"
    /\ told = "none"
    /\ stage = [c \in Clients |-> "idle"]
    /\ request = [c \in Clients |-> [kind |-> "get", id |-> "ours"]]
    /\ ctxDone = [c \in Clients |-> FALSE]
    /\ loaded = [c \in Clients |-> NoGeneration]
    /\ answer = [c \in Clients |-> NoAnswer]
    /\ asks = [c \in Clients |-> 0]
    /\ knows = [c \in Clients |-> "none"]

----------------------------------------------------------------------------
(* The writer.                                                             *)

\* Execute saves the generation and starts run.
SaveNew ==
    /\ run = "execute"
    /\ Upsert("streaming", {})
    /\ run' = "started"
    /\ UNCHANGED <<report, told, handlerVars, ctxDone, asks, knows>>

\* The first Save returns an error, applied or not: the repository failed, or
\* the client had left.
SaveNewFails ==
    /\ run = "execute"
    /\ Upsert("streaming", {}) \/ UNCHANGED row
    /\ run' = "returned"
    /\ UNCHANGED <<report, told, handlerVars, ctxDone, asks, knows>>

\* generation_started shows the generation, and the strategies start.
Start ==
    /\ run = "started"
    /\ run' = "working"
    /\ told' = "streaming"
    /\ UNCHANGED <<row, report, handlerVars, ctxDone, asks, knows>>

\* The client has left: run gives up the event it offers and returns, from
\* its first event as from its last.
GiveUp ==
    /\ run \in {"started", "report"}
    /\ run' = "returned"
    /\ UNCHANGED <<row, report, told, handlerVars, ctxDone, asks, knows>>

\* run has decided, saves what the generation has become, and its last event
\* shows it.
SaveTerminal ==
    /\ run = "working"
    /\ \E status \in {"completed", "failed"} :
          /\ Upsert(status, IF status = "completed" THEN Strategies ELSE {})
          /\ report' = status
    /\ run' = "report"
    /\ UNCHANGED <<told, handlerVars, ctxDone, asks, knows>>

\* As if the error after a failed terminal Save showed the generation as
\* failed.
SaveTerminalFailsShown ==
    /\ run = "working"
    /\ FallibleRepo
    /\ Upsert("completed", Strategies) \/ Upsert("failed", {}) \/ UNCHANGED row
    /\ report' = "failed"
    /\ run' = "report"
    /\ UNCHANGED <<told, handlerVars, ctxDone, asks, knows>>

\* The terminal Save returns an error, applied or not, and the event that
\* says so shows no generation.
SaveTerminalFails ==
    /\ run = "working"
    /\ FallibleRepo
    /\ Upsert("completed", Strategies) \/ Upsert("failed", {}) \/ UNCHANGED row
    /\ report' = "none"
    /\ run' = "report"
    /\ UNCHANGED <<told, handlerVars, ctxDone, asks, knows>>

\* done, or an error, reaches the stream's client.
Tell ==
    /\ run = "report"
    /\ run' = "returned"
    /\ told' = IF report = "none" THEN told ELSE report
    /\ UNCHANGED <<row, report, handlerVars, ctxDone, asks, knows>>

Write == \/ SaveNew \/ SaveNewFails \/ Start \/ GiveUp
         \/ SaveTerminal \/ SaveTerminalFails \/ Tell

----------------------------------------------------------------------------
(* The readers.                                                            *)

\* What a client knows of the generation when it asks: what the last event of
\* the stream showed, what its last answer told it, or what it knew before.
Knowledge(c) ==
    IF told \in {"completed", "failed"} THEN told
    ELSE IF answer[c].code = 200
      THEN IF request[c].kind = "get" THEN answer[c].body.status ELSE "completed"
    ELSE IF knows[c] = "none" THEN told ELSE knows[c]

\* A client sends its next request, having read what the stream has shown.
Ask(c) ==
    /\ stage[c] = "idle"
    /\ ~ctxDone[c]
    /\ asks[c] < MaxAsks
    /\ asks' = [asks EXCEPT ![c] = @ + 1]
    /\ \E r \in Requests : request' = [request EXCEPT ![c] = r]
    /\ stage' = [stage EXCEPT ![c] = "received"]
    /\ answer' = [answer EXCEPT ![c] = NoAnswer]
    /\ knows' = [knows EXCEPT ![c] = Knowledge(c)]
    /\ UNCHANGED <<writerVars, ctxDone, loaded>>

Disconnect(c) ==
    /\ ~ctxDone[c]
    /\ stage[c] # "idle"
    /\ ctxDone' = [ctxDone EXCEPT ![c] = TRUE]
    /\ UNCHANGED <<writerVars, handlerVars, asks, knows>>

Answer(c, a) ==
    /\ answer' = [answer EXCEPT ![c] = a]
    /\ stage' = [stage EXCEPT ![c] = "idle"]
    /\ UNCHANGED <<writerVars, request, loaded, ctxDone, asks, knows>>

\* What is refused before anything is looked up: a path that is no UUID, by
\* the generated wrapper; a body that does not decode; an unknown format.
Malformed(r) ==
    \/ r.id = "malformed"
    \/ r.kind = "export" /\ (~r.decodes \/ r.format \notin Formats)

Refuse(c) ==
    /\ stage[c] = "received"
    /\ Malformed(request[c])
    /\ Answer(c, Code(400))

\* repo.Get runs under the request's context and has no timeout of its own.
GetFails(c) ==
    /\ stage[c] = "received"
    /\ ~Malformed(request[c])
    /\ FallibleRepo \/ ctxDone[c]
    /\ Answer(c, Code(500))

\* It finds no row: ErrGenerationNotFound.
GetMisses(c) ==
    /\ stage[c] = "received"
    /\ ~Malformed(request[c])
    /\ ~ctxDone[c]
    /\ request[c].id = "other" \/ row = NoRow
    /\ Answer(c, Code(404))

\* It finds the row: rowToGeneration, in which null is a nil slice again.
GetFinds(c) ==
    /\ stage[c] = "received"
    /\ ~Malformed(request[c])
    /\ ~ctxDone[c]
    /\ request[c].id = "ours"
    /\ row # NoRow
    /\ loaded' = [loaded EXCEPT ![c] = row]
    /\ stage' = [stage EXCEPT ![c] = "found"]
    /\ UNCHANGED <<writerVars, request, answer, ctxDone, asks, knows>>

\* GetGeneration answers the generation.
AnswerGet(c) ==
    /\ stage[c] = "found"
    /\ request[c].kind = "get"
    /\ Answer(c, [code |-> 200,
                  body |-> [status |-> loaded[c].status,
                            variations |-> Listed(loaded[c].variations)]])

\* As if the id of the variation were not looked for in the generation.
AnswerAnyExport(c) ==
    /\ stage[c] = "found"
    /\ request[c].kind = "export"
    /\ request[c].variation \in Strategies
    /\ Answer(c, [code |-> 200,
                  body |-> [artifact |-> request[c].variation,
                            format |-> request[c].format]])

\* findVariation finds it, and it is rendered in the format asked for.
AnswerExport(c) ==
    /\ stage[c] = "found"
    /\ request[c].kind = "export"
    /\ request[c].variation \in Listed(loaded[c].variations)
    /\ Answer(c, [code |-> 200,
                  body |-> [artifact |-> request[c].variation,
                            format |-> request[c].format]])

\* It does not: ErrVariationNotFound.
ExportMisses(c) ==
    /\ stage[c] = "found"
    /\ request[c].kind = "export"
    /\ request[c].variation \notin Listed(loaded[c].variations)
    /\ Answer(c, Code(404))

Handle(c) == \/ Refuse(c) \/ GetFails(c) \/ GetMisses(c) \/ GetFinds(c)
             \/ AnswerGet(c) \/ AnswerExport(c) \/ ExportMisses(c)

\* The generation is over and no client asks again.
Rest ==
    /\ run = "returned"
    /\ \A c \in Clients :
          stage[c] = "idle" /\ (asks[c] = MaxAsks \/ ctxDone[c])
    /\ UNCHANGED vars

Next ==
    \/ Write
    \/ \E c \in Clients : Ask(c) \/ Disconnect(c) \/ Handle(c)
    \/ Rest

Spec == Init /\ [][Next]_vars

----------------------------------------------------------------------------
(* Properties.                                                             *)

TypeOK ==
    /\ row \in Generations \cup {NoRow}
    /\ run \in {"execute", "started", "working", "report", "returned"}
    /\ report \in {"none", "completed", "failed"}
    /\ told \in {"none", "streaming", "completed", "failed"}
    /\ stage \in [Clients -> {"idle", "received", "found"}]
    /\ request \in [Clients -> Requests]
    /\ ctxDone \in [Clients -> BOOLEAN]
    /\ loaded \in [Clients -> Generations \cup {NoGeneration}]
    /\ answer \in [Clients -> Answers]
    /\ asks \in [Clients -> 0..MaxAsks]
    /\ knows \in [Clients -> {"none", "streaming", "completed", "failed"}]

Fetched(c) == answer[c].code = 200 /\ request[c].kind = "get"

\* rowToGeneration and toAPIGeneration: whichever Save a GET comes between, it
\* lists every variation of a completed generation, and none of another.
ReadIsWhole ==
    \A c \in Clients : Fetched(c) =>
        answer[c].body.variations =
            IF answer[c].body.status = "completed" THEN Strategies ELSE {}

\* ExportVariation: an artifact that was handed out is of a generation that
\* is completed then, and for as long as the client may look.
ExportIsBacked ==
    \A c \in Clients : answer[c].code = 200 /\ request[c].kind = "export" =>
        /\ row.status = "completed"
        /\ answer[c].body.artifact \in Listed(row.variations)

\* About the generation, and well formed.
Proper(c) == request[c].id = "ours" /\ ~Malformed(request[c])

\* A settled generation is fetched as the client knows it, and exported if it
\* is completed.
Told(c) ==
    Proper(c) /\ answer[c].code \notin {0, 500} =>
        /\ knows[c] # "none" /\ request[c].kind = "get" => Fetched(c)
        /\ knows[c] \in {"completed", "failed"} /\ request[c].kind = "get" =>
              answer[c].body.status = knows[c]
        /\ request[c].kind = "export" /\ request[c].variation \in Strategies =>
              /\ knows[c] = "completed" => answer[c].code = 200
              /\ knows[c] = "failed" => answer[c].code = 404

\* GetGeneration and ExportVariation never take back what was said: a client
\* that has seen the generation completed, by the stream, a GET or an export,
\* fetches it completed and exports any of its variations; one that has seen
\* it failed fetches it failed and exports none; and one that has seen it at
\* all is not told that it is not there, unless the repository fails.  So
\* generation_started follows the first Save, and an event that shows a
\* settled generation a terminal Save that returned.
ToldStaysTrue == \A c \in Clients : Told(c)

\* writeExportError, "an invalid request (bad format enum, missing ids) is a
\* 400 here".
MissingIdIsRefused ==
    \A c \in Clients :
        /\ answer[c] # NoAnswer
        /\ request[c].kind = "export"
        /\ request[c].variation = NilUUID
        => answer[c].code = 400
=============================================================================
