------------------------- MODULE GenerateVariations -------------------------
(***************************************************************************)
(* One POST /v1/generate from the moment the handler calls Execute to the  *)
(* end of its last goroutine (internal/usecase/generate_variations.go,     *)
(* StreamStructured of the two LLM adapters, streamSSE of the handler).    *)
(*                                                                         *)
(* The processes are the run goroutine, one streamStrategy goroutine per   *)
(* requested strategy ("worker"), the goroutine its LLM adapter starts     *)
(* ("adapter"), and the HTTP handler that reads the events.  They meet on  *)
(* two kinds of unbuffered channels, so a send and its receive are one     *)
(* step, and they share the request's context, which is done once the      *)
(* client has disconnected or the handler has returned.                    *)
(***************************************************************************)
EXTENDS Naturals, Sequences

CONSTANTS
    Strategies,     \* the requested strategies, one goroutine each
    Aggregate,      \* the source of an event whose Strategy is ""
    MaxTokens,      \* bound: deltas one LLM stream may deliver
    FallibleRepo    \* whether GenerationRepo.Save may return an error

ASSUME AggregateAssumption == Aggregate \notin Strategies
ASSUME MaxTokensAssumption == MaxTokens \in Nat
ASSUME FallibleRepoAssumption == FallibleRepo \in BOOLEAN

VARIABLES
    input,          \* what the request and its connection are like
    db,             \* the row of the generations table
    ctxDone,        \* the request's context is done
    run,            \* program counter of Execute and run
    gen,            \* run's local Generation: its status and variations
    report,         \* the terminal event run offers
    firstErr,       \* the first error recorded by recordErr or run
    variations,     \* the slots setVariation has filled
    worker,         \* program counter of each streamStrategy goroutine
    pending,        \* the event each worker offers
    adapter,        \* program counter of each adapter goroutine
    chunk,          \* the chunk each adapter offers
    tokens,         \* deltas each LLM stream has delivered
    handler,        \* program counter of the HTTP handler
    frame,          \* the event the handler took and is writing
    frames,         \* SSE frames written, by source, in order
    sentry          \* exceptions reported to Sentry

runVars == <<run, gen, report>>
workerVars == <<worker, pending, variations, firstErr>>
adapterVars == <<adapter, chunk, tokens>>
handlerVars == <<handler, frame, frames, sentry>>
vars == <<input, db, ctxDone, runVars, workerVars, adapterVars, handlerVars>>

----------------------------------------------------------------------------
Sources == Strategies \cup {Aggregate}

\* An error is nil, the cancellation of the context, or any other failure:
\* reportStreamErrorToSentry and mapGroqError tell no more of them apart.
Errors == {"nil", "canceled", "failure"}

EventTypes == {"generation_started", "variation_started", "token",
               "variation_completed", "done", "error"}

Events == [type : EventTypes, source : Sources, err : Errors]

Event(type, source) == [type |-> type, source |-> source, err |-> "nil"]

ErrorEvent(source, err) == [type |-> "error", source |-> source, err |-> err]

Chunks == [type : {"token", "variation_completed", "error"}, err : Errors]

Statuses == {"none", "streaming", "completed", "failed"}

Generations == [status : Statuses, variations : SUBSET Strategies]

NewGeneration == [status |-> "streaming", variations |-> {}]

NoRow == [status |-> "none", variations |-> {}]

\* valid: GenerateVariationsInput.Validate accepts the request.
\* currency: GenerationInput.Validate accepts its currency, which only the
\* adapters ask.  flusher: the ResponseWriter can flush.  stays: a prophecy,
\* that the connection lasts until the handler returns; only the environment
\* knows it.
Inputs == [valid : BOOLEAN, currency : BOOLEAN, flusher : BOOLEAN,
           stays : BOOLEAN]

----------------------------------------------------------------------------
Init ==
    /\ input \in Inputs
    /\ db = NoRow
    /\ ctxDone = FALSE
    /\ run = "execute"
    /\ gen = NewGeneration
    /\ report = Event("done", Aggregate)
    /\ firstErr = "nil"
    /\ variations = {}
    /\ worker = [s \in Strategies |-> "idle"]
    /\ pending = [s \in Strategies |-> Event("variation_started", s)]
    /\ adapter = [s \in Strategies |-> "idle"]
    /\ chunk = [s \in Strategies |-> [type |-> "token", err |-> "nil"]]
    /\ tokens = [s \in Strategies |-> 0]
    /\ handler = "execute"
    /\ frame = Event("generation_started", Aggregate)
    /\ frames = [s \in Sources |-> <<>>]
    /\ sentry = 0

----------------------------------------------------------------------------
(* The request's context and the client behind it.                         *)

\* The client goes away: net/http cancels the request's context.
Disconnect ==
    /\ ~input.stays
    /\ ~ctxDone
    /\ handler # "returned"
    /\ ctxDone' = TRUE
    /\ UNCHANGED <<input, db, runVars, workerVars, adapterVars, handlerVars>>

\* net/http also cancels it once the handler has returned.
ServerCancels ==
    /\ ~ctxDone
    /\ handler = "returned"
    /\ ctxDone' = TRUE
    /\ UNCHANGED <<input, db, runVars, workerVars, adapterVars, handlerVars>>

----------------------------------------------------------------------------
(* The handler: streamSSE's loop.                                          *)

\* As if every error event were reported, a strategy's own included.
IsReportedPerStrategy(ev) == ev.type = "error" /\ ev.err # "canceled"

\* As if a cancellation were a failure like any other.
IsReportedCancellation(ev) == ev.type = "error" /\ ev.source = Aggregate

\* reportStreamErrorToSentry: the aggregate error only, and never a
\* cancellation.
IsReported(ev) ==
    /\ ev.type = "error"
    /\ ev.source = Aggregate
    /\ ev.err # "canceled"

\* The receive side of a send on out: the loop takes the event, and reports
\* it before it writes it.
Receive(ev) ==
    /\ handler = "select"
    /\ handler' = "write"
    /\ frame' = ev
    /\ sentry' = IF IsReported(ev) THEN sentry + 1 ELSE sentry
    /\ UNCHANGED frames

WriteFrame ==
    /\ handler = "write"
    /\ handler' = "select"
    /\ frames' = [frames EXCEPT ![frame.source] = Append(@, frame.type)]
    /\ UNCHANGED <<input, db, ctxDone, runVars, workerVars, adapterVars,
                   frame, sentry>>

\* The connection is broken: writeSSEFrame returns an error.
WriteFails ==
    /\ ~input.stays
    /\ handler = "write"
    /\ handler' = "returned"
    /\ UNCHANGED <<input, db, ctxDone, runVars, workerVars, adapterVars,
                   frame, frames, sentry>>

\* out is closed, or the select picks the context.
HandlerReturns ==
    /\ handler = "select"
    /\ run = "returned" \/ ctxDone
    /\ handler' = "returned"
    /\ UNCHANGED <<input, db, ctxDone, runVars, workerVars, adapterVars,
                   frame, frames, sentry>>

----------------------------------------------------------------------------
(* Execute.                                                                *)

\* Validate refuses the input, and the handler answers 422.
RefuseInput ==
    /\ run = "execute"
    /\ ~input.valid
    /\ run' = "returned"
    /\ handler' = "returned"
    /\ UNCHANGED <<input, db, ctxDone, gen, report, workerVars, adapterVars,
                   frame, frames, sentry>>

\* The first Save returns an error, applied or not, and the handler answers
\* 500, which writeProblem reports.  It runs under the request's context, so
\* a disconnect before it or during it fails it too.
CreateFails ==
    /\ run = "execute"
    /\ input.valid
    /\ FallibleRepo \/ ctxDone
    /\ db' \in {db, gen}
    /\ run' = "returned"
    /\ handler' = "returned"
    /\ sentry' = sentry + 1
    /\ UNCHANGED <<input, ctxDone, gen, report, workerVars, adapterVars,
                   frame, frames>>

\* The generation is saved and the run goroutine starts.  streamSSE answers
\* 500, reported too, when the response cannot be flushed.
Create ==
    /\ run = "execute"
    /\ input.valid
    /\ ~ctxDone
    /\ db' = gen
    /\ run' = "started"
    /\ handler' = IF input.flusher THEN "select" ELSE "returned"
    /\ sentry' = IF input.flusher THEN sentry ELSE sentry + 1
    /\ UNCHANGED <<input, ctxDone, gen, report, workerVars, adapterVars,
                   frame, frames>>

----------------------------------------------------------------------------
(* run.                                                                    *)

\* generation_started is delivered and one goroutine per strategy starts.
FanOut ==
    /\ run = "started"
    /\ Receive(Event("generation_started", Aggregate))
    /\ run' = "wait"
    /\ worker' = [s \in Strategies |-> "announce"]
    /\ UNCHANGED <<input, db, ctxDone, gen, report, pending, variations,
                   firstErr, adapterVars>>

\* The context is done before anyone takes generation_started: run returns
\* without a second Save.
AbandonStart ==
    /\ run = "started"
    /\ ctxDone
    /\ run' = "returned"
    /\ UNCHANGED <<input, db, ctxDone, gen, report, workerVars, adapterVars,
                   handlerVars>>

\* As if wg.Add(1) ran once, outside the loop.
OneExited == \E s \in Strategies : worker[s] = "exited"

AllExited == \A s \in Strategies : worker[s] = "exited"

\* As if firstErr alone decided, without ctx.Err().
FailingByFirstErr == firstErr # "nil"

\* The switch: a context that is done counts as a failure even if no strategy
\* has recorded one.
Failing == ctxDone \/ firstErr # "nil"

\* wg.Wait returns and the switch decides what the generation has become.
Decide ==
    /\ run = "wait"
    /\ AllExited
    /\ firstErr' = IF ctxDone /\ firstErr = "nil" THEN "canceled" ELSE firstErr
    /\ gen' = IF Failing
                THEN [gen EXCEPT !.status = "failed"]
                ELSE [status |-> "completed", variations |-> variations]
    /\ run' = "save"
    /\ UNCHANGED <<input, db, ctxDone, report, worker, pending, variations,
                   adapterVars, handlerVars>>

\* The terminal event of a generation whose terminal Save succeeded.
TerminalEvent ==
    IF firstErr # "nil" THEN ErrorEvent(Aggregate, firstErr)
                        ELSE Event("done", Aggregate)

\* As if the terminal Save ran under the request's context.
SaveTerminalUnderRequest ==
    /\ run = "save"
    /\ db' = IF ctxDone THEN db ELSE gen
    /\ report' = TerminalEvent
    /\ run' = "report"
    /\ UNCHANGED <<input, ctxDone, gen, workerVars, adapterVars, handlerVars>>

\* As if a failed generation were saved and the channel closed behind it, its
\* strategies having sent errors of their own.
SaveTerminalSilent ==
    /\ run = "save"
    /\ db' = gen
    /\ report' = TerminalEvent
    /\ run' = IF firstErr # "nil" THEN "returned" ELSE "report"
    /\ UNCHANGED <<input, ctxDone, gen, workerVars, adapterVars, handlerVars>>

\* The terminal Save, under a context that outlives the request's.
SaveTerminal ==
    /\ run = "save"
    /\ db' = gen
    /\ report' = TerminalEvent
    /\ run' = "report"
    /\ UNCHANGED <<input, ctxDone, gen, workerVars, adapterVars, handlerVars>>

\* As if a failed terminal Save were only logged.
SaveTerminalIgnored ==
    /\ run = "save"
    /\ FallibleRepo
    /\ db' \in {db, gen}
    /\ report' = TerminalEvent
    /\ run' = "report"
    /\ UNCHANGED <<input, ctxDone, gen, workerVars, adapterVars, handlerVars>>

\* The terminal Save returns an error, applied or not.
SaveTerminalFails ==
    /\ run = "save"
    /\ FallibleRepo
    /\ db' \in {db, gen}
    /\ report' = ErrorEvent(Aggregate, "failure")
    /\ run' = "report"
    /\ UNCHANGED <<input, ctxDone, gen, workerVars, adapterVars, handlerVars>>

Report ==
    /\ run = "report"
    /\ Receive(report)
    /\ run' = "returned"
    /\ UNCHANGED <<input, db, ctxDone, gen, report, workerVars, adapterVars>>

DropReport ==
    /\ run = "report"
    /\ ctxDone
    /\ run' = "returned"
    /\ UNCHANGED <<input, db, ctxDone, gen, report, workerVars, adapterVars,
                   handlerVars>>

----------------------------------------------------------------------------
(* streamStrategy, one goroutine per strategy.                             *)

RecordErr(err) == firstErr' = IF firstErr = "nil" THEN err ELSE firstErr

\* What follows each of its three sends: opening the stream, the next chunk,
\* or the end after StreamStructured returned an error.
AfterSend(pc) == CASE pc = "announce" -> "open"
                   [] pc = "relay" -> "range"
                   [] pc = "fail" -> "exited"

Offers(s) == worker[s] \in {"announce", "relay", "fail"}

Send(s) ==
    /\ Offers(s)
    /\ Receive(pending[s])
    /\ worker' = [worker EXCEPT ![s] = AfterSend(worker[s])]
    /\ UNCHANGED <<input, db, ctxDone, runVars, pending, variations, firstErr,
                   adapterVars>>

\* The send gives way to the context: the goroutine returns, whatever its
\* adapter is doing.
GiveUp(s) ==
    /\ Offers(s)
    /\ ctxDone
    /\ worker' = [worker EXCEPT ![s] = "exited"]
    /\ UNCHANGED <<input, db, ctxDone, runVars, pending, variations, firstErr,
                   adapterVars, handlerVars>>

\* StreamStructured refuses the input: only its currency is still unchecked.
OpenFails(s) ==
    /\ worker[s] = "open"
    /\ ~input.currency
    /\ RecordErr("failure")
    /\ pending' = [pending EXCEPT ![s] = ErrorEvent(s, "failure")]
    /\ worker' = [worker EXCEPT ![s] = "fail"]
    /\ UNCHANGED <<input, db, ctxDone, runVars, variations, adapterVars,
                   handlerVars>>

Open(s) ==
    /\ worker[s] = "open"
    /\ input.currency
    /\ worker' = [worker EXCEPT ![s] = "range"]
    /\ adapter' = [adapter EXCEPT ![s] = "reading"]
    /\ UNCHANGED <<input, db, ctxDone, runVars, pending, variations, firstErr,
                   chunk, tokens, handlerVars>>

\* As if the adapter did not return after offering its error chunk.
AfterChunkReadsOn(c) ==
    IF c.type = "variation_completed" THEN "closed" ELSE "reading"

\* After its one terminal chunk the adapter closes its channel.
AfterChunk(c) == IF c.type = "token" THEN "reading" ELSE "closed"

\* The adapter's chunk is taken and turned into an event.
TakeChunk(s) ==
    LET c == chunk[s] IN
    /\ worker[s] = "range"
    /\ adapter[s] = "sending"
    /\ variations' = IF c.type = "variation_completed"
                       THEN variations \cup {s}
                       ELSE variations
    /\ IF c.type = "error" THEN RecordErr(c.err) ELSE UNCHANGED firstErr
    /\ pending' = [pending EXCEPT
                     ![s] = [type |-> c.type, source |-> s, err |-> c.err]]
    /\ worker' = [worker EXCEPT ![s] = "relay"]
    /\ adapter' = [adapter EXCEPT ![s] = AfterChunk(c)]
    /\ UNCHANGED <<input, db, ctxDone, runVars, chunk, tokens, handlerVars>>

\* The range loop ends with the channel.
StreamEnds(s) ==
    /\ worker[s] = "range"
    /\ adapter[s] = "closed"
    /\ worker' = [worker EXCEPT ![s] = "exited"]
    /\ UNCHANGED <<input, db, ctxDone, runVars, pending, variations, firstErr,
                   adapterVars, handlerVars>>

----------------------------------------------------------------------------
(* The goroutine StreamStructured starts, in either adapter.               *)

Offer(s, c) ==
    /\ adapter[s] = "reading"
    /\ adapter' = [adapter EXCEPT ![s] = "sending"]
    /\ chunk' = [chunk EXCEPT ![s] = c]
    /\ UNCHANGED <<input, db, ctxDone, runVars, workerVars, handlerVars>>

\* The model sends a delta (at most MaxTokens of them).
ReadDelta(s) ==
    /\ tokens[s] < MaxTokens
    /\ tokens' = [tokens EXCEPT ![s] = @ + 1]
    /\ Offer(s, [type |-> "token", err |-> "nil"])

\* The stream ends and its arguments decode into a valid variation.
ReadEnd(s) ==
    /\ Offer(s, [type |-> "variation_completed", err |-> "nil"])
    /\ UNCHANGED tokens

\* The stream breaks, or ends with arguments that do not decode.
ReadFails(s) ==
    /\ Offer(s, [type |-> "error", err |-> "failure"])
    /\ UNCHANGED tokens

\* The SDK sees the context done: its error is passed on as it is.
ReadCanceled(s) ==
    /\ ctxDone
    /\ Offer(s, [type |-> "error", err |-> "canceled"])
    /\ UNCHANGED tokens

\* As if sendChunk were a plain send: it waits for the receiver alone.
StopNever(s) == FALSE

\* sendChunk gives way to the context: the channel closes with no terminal
\* chunk.
StopSilently(s) ==
    /\ adapter[s] = "sending"
    /\ ctxDone
    /\ adapter' = [adapter EXCEPT ![s] = "closed"]
    /\ UNCHANGED <<input, db, ctxDone, runVars, workerVars, chunk, tokens,
                   handlerVars>>

----------------------------------------------------------------------------
\* Every goroutine of the request has ended.
Ended ==
    /\ run = "returned"
    /\ handler = "returned"
    /\ \A s \in Strategies : worker[s] \in {"idle", "exited"}
    /\ \A s \in Strategies : adapter[s] \in {"idle", "closed"}

\* Nothing is left to do; any other state without a step is a deadlock.
Rest ==
    /\ Ended
    /\ ctxDone
    /\ UNCHANGED vars

RunStep ==
    \/ RefuseInput \/ CreateFails \/ Create
    \/ FanOut \/ AbandonStart
    \/ Decide \/ SaveTerminal \/ SaveTerminalFails
    \/ Report \/ DropReport

WorkerStep(s) ==
    \/ Send(s) \/ GiveUp(s) \/ OpenFails(s) \/ Open(s)
    \/ TakeChunk(s) \/ StreamEnds(s)

AdapterStep(s) ==
    \/ ReadDelta(s) \/ ReadEnd(s) \/ ReadFails(s) \/ ReadCanceled(s)
    \/ StopSilently(s)

HandlerStep == WriteFrame \/ WriteFails \/ HandlerReturns

Next ==
    \/ Disconnect
    \/ ServerCancels
    \/ RunStep
    \/ \E s \in Strategies : WorkerStep(s)
    \/ \E s \in Strategies : AdapterStep(s)
    \/ HandlerStep
    \/ Rest

Spec == Init /\ [][Next]_vars

(***************************************************************************)
(* Fairness.  The Go scheduler runs a goroutine that can proceed: each one *)
(* is one weakly fair action, its selects included.  Nothing makes a model *)
(* answer or a client read, but once the context is done both the SDK's    *)
(* read and the write to the connection return.                            *)
(***************************************************************************)
Scheduling ==
    /\ WF_vars(ServerCancels)
    /\ WF_vars(RunStep)
    /\ \A s \in Strategies : WF_vars(WorkerStep(s))
    /\ \A s \in Strategies : WF_vars(ctxDone /\ AdapterStep(s))
    /\ WF_vars(ctxDone /\ HandlerStep)

FairSpec == Spec /\ Scheduling

\* Cloud Run as deploy.yml configures it, without CPU always allocated: once
\* the handler has returned nothing says that a goroutine will run again.
Throttled ==
    LET inFlight == handler # "returned" IN
    /\ WF_vars(inFlight /\ RunStep)
    /\ \A s \in Strategies : WF_vars(inFlight /\ WorkerStep(s))
    /\ \A s \in Strategies : WF_vars(inFlight /\ ctxDone /\ AdapterStep(s))
    /\ WF_vars(ctxDone /\ HandlerStep)

ThrottledSpec == Spec /\ Throttled

\* A model that answers (in at most MaxTokens deltas) and a client that
\* reads, for what is promised of an undisturbed request.
Responsive ==
    /\ \A s \in Strategies : WF_vars(AdapterStep(s))
    /\ WF_vars(HandlerStep)

----------------------------------------------------------------------------
(* Properties.                                                             *)

Runs == {"execute", "started", "wait", "save", "report", "returned"}

Workers == {"idle", "announce", "open", "range", "relay", "fail", "exited"}

Adapters == {"idle", "reading", "sending", "closed"}

Handlers == {"execute", "select", "write", "returned"}

\* Every variable has its type.
TypeOK ==
    /\ input \in Inputs
    /\ db \in Generations
    /\ ctxDone \in BOOLEAN
    /\ run \in Runs
    /\ gen \in Generations
    /\ report \in Events
    /\ firstErr \in Errors
    /\ variations \in SUBSET Strategies
    /\ worker \in [Strategies -> Workers]
    /\ pending \in [Strategies -> Events]
    /\ adapter \in [Strategies -> Adapters]
    /\ chunk \in [Strategies -> Chunks]
    /\ tokens \in [Strategies -> 0..MaxTokens]
    /\ handler \in Handlers
    /\ frame \in Events
    /\ frames \in [Sources -> Seq(EventTypes)]
    /\ sentry \in Nat

\* Whether a frame of this type has been written for the source.
Wrote(source, type) ==
    \E n \in 1..Len(frames[source]) : frames[source][n] = type

\* The client has read the aggregate done or error.
Verdict == Wrote(Aggregate, "done") \/ Wrote(Aggregate, "error")

\* A generation is never persisted as completed with partial variations, nor
\* after the client was shown the failure of one of its strategies: wg.Wait,
\* firstErr and ctx.Err() together, against adapters that close their
\* channel without a terminal chunk once the context is done.
CompletedIsWhole ==
    db.status = "completed" =>
        /\ db.variations = Strategies
        /\ \A s \in Strategies : ~Wrote(s, "error")

\* A client that reads done has already read every variation, and the row it
\* can fetch or export next is the completed one: nothing reports success
\* before the terminal Save has returned.
DoneIsBacked ==
    Wrote(Aggregate, "done") =>
        /\ db.status = "completed"
        /\ \A s \in Strategies : Wrote(s, "variation_completed")

\* No frame follows the aggregate done or error: no strategy goroutine
\* outlives the fan-in that speaks for all of them.
NothingAfterVerdict == [][Verdict => UNCHANGED frames]_vars

\* The frames of one strategy are its announcement, deltas, and at most one
\* result, whatever the interleaving with the others; all of them come after
\* generation_started.
StrategyInOrder ==
    \A s \in Strategies :
        /\ frames[s] # <<>> => Wrote(Aggregate, "generation_started")
        /\ \A n \in 1..Len(frames[s]) :
              /\ n = 1 <=> frames[s][n] = "variation_started"
              /\ n < Len(frames[s]) =>
                    frames[s][n] \notin {"variation_completed", "error"}

\* One incident is one exception in Sentry, however many strategies fail and
\* wherever in the request they do.
SentryOnce == sentry <= 1

\* A client that goes away from its stream is not an incident: once the
\* strategies have started, an exception is reported only when a provider,
\* the currency or the repository failed.
SentryIsFailure ==
    sentry > 0 =>
        \/ \A s \in Strategies : worker[s] = "idle"
        \/ firstErr = "failure"
        \/ run \in {"report", "returned"} /\ report.err = "failure"

\* The generation's row and the client's verdict follow GenerationRecord.
Outcome == CASE Wrote(Aggregate, "done") -> "done"
             [] Wrote(Aggregate, "error") -> "error"
             [] OTHER -> "none"

Record == INSTANCE GenerationRecord WITH record <- db, outcome <- Outcome

ImplementsRecord == Record!Spec

\* run's program counter and verdict are RunStages' stages.
StageOf == [execute |-> "none", started |-> "offering", wait |-> "working",
            report |-> "ended", returned |-> "ended"]

Stage == IF run # "save" THEN StageOf[run]
         ELSE IF gen.status = "completed" THEN "completing" ELSE "failing"

Stages == INSTANCE RunStages
              WITH rec <- db.status, run <- Stage, MayFail <- FallibleRepo,
                   Crashes <- FALSE

\* A row that run leaves in streaming is one whose Save failed, or one whose
\* context was done before the fan-out: never one whose strategies have started,
\* whatever the client did since.
LeftInStreaming == run = "returned" /\ db.status = "streaming"

SaveFailed == FallibleRepo /\ report = ErrorEvent(Aggregate, "failure")

StuckHasItsCause ==
    LeftInStreaming =>
        \/ SaveFailed
        \/ /\ \A s \in Strategies : worker[s] = "idle"
           /\ FallibleRepo \/ ctxDone

\* After a disconnect, or once the handler has returned, every goroutine of
\* the request ends, even if no model ever answers: nothing stays blocked on
\* an unbuffered channel whose other side is gone.
NoGoroutineLeaks == ctxDone ~> Ended

\* Once the fan-out has begun, a disconnect leaves the row completed or
\* failed, never streaming (in runs where no Save fails).  run's comment on
\* saveCtx promises as much.
DisconnectSettles ==
    (run = "wait" /\ ctxDone) ~> (db.status \in {"completed", "failed"})

\* A client that stays and reads is told how its generation ended, if the
\* models answer: no stream that has begun hangs, nor does it end without a
\* verdict, whatever its strategies came to.
ClientIsTold ==
    Responsive => ((handler = "select" /\ input.stays) ~> Verdict)

\* Execute's comment: canceling the context stops the events, but the
\* generation is still saved as failed, so a client that disconnects early
\* does not leave the record stuck in streaming.  Stated for a client that
\* disconnects once run has a handler to send to (in runs where no Save
\* fails).
EarlyDisconnectSettles ==
    (run = "started" /\ handler = "select" /\ ctxDone)
        ~> (db.status \in {"completed", "failed"})
=============================================================================
