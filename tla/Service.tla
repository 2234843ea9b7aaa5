------------------------------ MODULE Service ------------------------------
(***************************************************************************)
(* The process: run (cmd/api/main.go) acquires its resources, serves,      *)
(* and gives them back in reverse on its way out, while the handlers and   *)
(* the run goroutines of POST /v1/generate use the Postgres pool.  The     *)
(* process is also killed, and started again over the same rows.           *)
(*                                                                         *)
(* GenerateVariations has a generation in detail; here it is its two       *)
(* Saves, each a connection that is taken from the pool and given back.    *)
(***************************************************************************)
EXTENDS Naturals, Sequences

CONSTANTS
    Generations,    \* the generations that are asked for
    FallibleRepo,   \* whether a query may return an error
    MaxBoots        \* bound: times the process is started

ASSUME FallibleRepoAssumption == FallibleRepo \in BOOLEAN
ASSUME MaxBootsAssumption == MaxBoots \in Nat \ {0}

VARIABLES
    phase,      \* where run is
    open,       \* the server may have connections
    acquired,   \* the resources whose release is deferred, the last one last
    draining,   \* pool.Close has been called: no connection is given out
    exit,       \* how the process ended last
    boots,      \* times it was started
    handler,    \* the handler of each generation's POST
    run,        \* the goroutine that Execute leaves behind it
    ctxDone,    \* the request's context is done
    conn,       \* whether a Save of the generation holds a connection
    row,        \* history: the status column, which outlives the process
    told,       \* the terminal event the client was sent
    failed      \* history: a terminal Save returned an error

processVars == <<phase, open, acquired, draining, exit, boots>>
generationVars == <<handler, run, ctxDone, conn, row, told, failed>>
vars == <<processVars, generationVars>>

\* As if the pool were created before the telemetry.
ResourcesReordered == <<"pool", "telemetry", "redis">>

\* In the order run acquires them; the rest of its steps can only fail.
Resources == <<"telemetry", "pool", "redis">>

Holds(r) == \E i \in DOMAIN acquired : acquired[i] = r

Init ==
    /\ phase = "booting"
    /\ open = FALSE
    /\ acquired = <<>>
    /\ draining = FALSE
    /\ exit = "none"
    /\ boots = 1
    /\ handler = [g \in Generations |-> "none"]
    /\ run = [g \in Generations |-> "none"]
    /\ ctxDone = [g \in Generations |-> FALSE]
    /\ conn = [g \in Generations |-> FALSE]
    /\ row = [g \in Generations |-> "none"]
    /\ told = [g \in Generations |-> "none"]
    /\ failed = [g \in Generations |-> FALSE]

----------------------------------------------------------------------------
(* The process.                                                            *)

\* telemetry.Init, pgxpool.NewWithConfig, redis.NewClient, each deferring its
\* release.
Acquire ==
    /\ phase = "booting"
    /\ Len(acquired) < Len(Resources)
    /\ acquired' = Append(acquired, Resources[Len(acquired) + 1])
    /\ UNCHANGED <<phase, open, draining, exit, boots, generationVars>>

\* config.Load or telemetry.Init returns an error: nothing is deferred yet.
ConfigFails ==
    /\ phase = "booting"
    /\ acquired = <<>>
    /\ phase' = "returning"
    /\ exit' = "error"
    /\ UNCHANGED <<open, acquired, draining, boots, generationVars>>

\* InitSentry, NewProvider or the pool's configuration does: the telemetry is
\* shut down on the way out.
WiringFails ==
    /\ phase = "booting"
    /\ Len(acquired) = 1
    /\ phase' = "returning"
    /\ exit' = "error"
    /\ UNCHANGED <<open, acquired, draining, boots, generationVars>>

Listen ==
    /\ phase = "booting"
    /\ Len(acquired) = Len(Resources)
    /\ phase' = "serving"
    /\ open' = TRUE
    /\ UNCHANGED <<acquired, draining, exit, boots, generationVars>>

\* ListenAndServe fails: run returns at once, without Shutdown, and the
\* connections that were accepted stay.
ServeFails ==
    /\ phase = "serving"
    /\ phase' = "returning"
    /\ exit' = "error"
    /\ UNCHANGED <<open, acquired, draining, boots, generationVars>>

\* SIGINT or SIGTERM.  Shutdown cancels no context.
Signal ==
    /\ phase = "serving"
    /\ phase' = "stopping"
    /\ UNCHANGED <<open, acquired, draining, exit, boots, generationVars>>

Handling(g) == handler[g] \in {"creating", "streaming"}

Running(g) == run[g] \in {"starting", "working", "saving", "failing",
                          "succeeded", "erred"}

\* As if run returned without waiting for Shutdown.
ShutdownAtOnce ==
    /\ phase = "stopping"
    /\ phase' = "returning"
    /\ exit' = "clean"
    /\ UNCHANGED <<open, acquired, draining, boots, generationVars>>

\* Shutdown returns nil: every connection was idle and is closed.
ShutdownDone ==
    /\ phase = "stopping"
    /\ \A g \in Generations : ~Handling(g)
    /\ phase' = "returning"
    /\ open' = FALSE
    /\ exit' = "clean"
    /\ UNCHANGED <<acquired, draining, boots, generationVars>>

\* As if Shutdown were given a context that has no timeout.
ShutdownWaits == phase = "stopping" /\ FALSE /\ UNCHANGED vars

\* HTTP_SHUTDOWN_TIMEOUT passes first: a handler of a generation holds
\* Shutdown up, or one of any other request.
ShutdownTimesOut ==
    /\ phase = "stopping"
    /\ phase' = "returning"
    /\ exit' = "error"
    /\ UNCHANGED <<open, acquired, draining, boots, generationVars>>

LastIs(r) == acquired # <<>> /\ acquired[Len(acquired)] = r

Release ==
    /\ acquired' = SubSeq(acquired, 1, Len(acquired) - 1)
    /\ UNCHANGED <<phase, open, exit, boots, generationVars>>

\* redisClient.Close and shutdownTelemetry wait for no one.
ReleaseOther ==
    /\ phase = "returning"
    /\ LastIs("redis") \/ LastIs("telemetry")
    /\ Release
    /\ UNCHANGED draining

\* pool.Close gives out no more connections,
PoolCloses ==
    /\ phase = "returning"
    /\ LastIs("pool")
    /\ ~draining
    /\ draining' = TRUE
    /\ UNCHANGED <<phase, open, acquired, exit, boots, generationVars>>

\* and waits for the ones it has given out.
PoolClosed ==
    /\ phase = "returning"
    /\ draining
    /\ \A g \in Generations : ~conn[g]
    /\ Release
    /\ draining' = FALSE

\* Nothing of a process outlives it but the rows; a query that was under way
\* has been applied or has not.  What was running has ended the way it did.
ProcessEnds(how) ==
    /\ phase' = "down"
    /\ open' = FALSE
    /\ acquired' = <<>>
    /\ draining' = FALSE
    /\ exit' = how
    /\ row' \in {r \in [Generations -> {"none", "streaming", "completed", "failed"}] :
                   \A g \in Generations :
                       \/ r[g] = row[g]
                       \/ conn[g] /\ row[g] = "none" /\ r[g] = "streaming"
                       \/ conn[g] /\ run[g] = "saving" /\ r[g] = "completed"
                       \/ conn[g] /\ run[g] = "failing" /\ r[g] = "failed"}
    /\ handler' = [g \in Generations |-> IF Handling(g) THEN how ELSE handler[g]]
    /\ run' = [g \in Generations |-> IF Running(g) THEN how ELSE run[g]]
    /\ conn' = [g \in Generations |-> FALSE]
    /\ UNCHANGED <<boots, ctxDone, told, failed>>

\* run has returned, and main with it.
Exit ==
    /\ phase = "returning"
    /\ acquired = <<>>
    /\ ProcessEnds(exit)

\* SIGKILL, or a panic in a goroutine that no Recoverer is above.
Kill ==
    /\ phase # "down"
    /\ ProcessEnds("killed")

Restart ==
    /\ phase = "down"
    /\ boots < MaxBoots
    /\ boots' = boots + 1
    /\ phase' = "booting"
    /\ UNCHANGED <<open, acquired, draining, exit, generationVars>>

----------------------------------------------------------------------------
(* A generation.                                                           *)

\* The request arrives, over a connection that was accepted before the stop
\* if there is one: while Shutdown waits, and after run has given it up.
Request(g) ==
    /\ open
    /\ handler[g] = "none"
    /\ handler' = [handler EXCEPT ![g] = "creating"]
    /\ UNCHANGED <<processVars, run, ctxDone, conn, row, told, failed>>

\* The client disconnects.
Leave(g) ==
    /\ Handling(g)
    /\ ~ctxDone[g]
    /\ ctxDone' = [ctxDone EXCEPT ![g] = TRUE]
    /\ UNCHANGED <<processVars, handler, run, conn, row, told, failed>>

\* The Save of the new generation, under the request's context, and the
\* terminal one, under a context that is never done.
Saving(g) ==
    \/ handler[g] = "creating" /\ run[g] = "none"
    \/ run[g] \in {"saving", "failing"}

PoolIsClosed == draining \/ ~Holds("pool")

TakeConnection(g) ==
    /\ Saving(g) /\ ~conn[g]
    /\ ~PoolIsClosed
    /\ conn' = [conn EXCEPT ![g] = TRUE]
    /\ UNCHANGED <<processVars, handler, run, ctxDone, row, told, failed>>

\* Execute returns the channel of the goroutine it has started.
Created(g) ==
    /\ handler[g] = "creating" /\ conn[g]
    /\ conn' = [conn EXCEPT ![g] = FALSE]
    /\ row' = [row EXCEPT ![g] = "streaming"]
    /\ handler' = [handler EXCEPT ![g] = "streaming"]
    /\ run' = [run EXCEPT ![g] = "starting"]
    /\ UNCHANGED <<processVars, ctxDone, told, failed>>

\* The query fails, or its context is done, or the pool is closed; the
\* handler answers 500.
CreateFails(g) ==
    /\ handler[g] = "creating"
    /\ FallibleRepo \/ ctxDone[g] \/ (~conn[g] /\ PoolIsClosed)
    /\ conn' = [conn EXCEPT ![g] = FALSE]
    /\ \/ UNCHANGED row
       \/ conn[g] /\ row' = [row EXCEPT ![g] = "streaming"]
    /\ handler' = [handler EXCEPT ![g] = "returned"]
    /\ UNCHANGED <<processVars, run, ctxDone, told, failed>>

\* The client takes the first event, or has left and run returns.
Start(g) ==
    /\ run[g] = "starting"
    /\ \/ run' = [run EXCEPT ![g] = "working"]
       \/ ctxDone[g] /\ run' = [run EXCEPT ![g] = "ended"]
    /\ UNCHANGED <<processVars, handler, ctxDone, conn, row, told, failed>>

\* As if run returned when a strategy has failed.
DecideReturns(g) ==
    /\ run[g] = "working"
    /\ \/ ~ctxDone[g] /\ run' = [run EXCEPT ![g] = "saving"]
       \/ run' = [run EXCEPT ![g] = "ended"]
    /\ UNCHANGED <<processVars, handler, ctxDone, conn, row, told, failed>>

\* Every strategy has been streamed, or one has failed.
Decide(g) ==
    /\ run[g] = "working"
    /\ \/ ~ctxDone[g] /\ run' = [run EXCEPT ![g] = "saving"]
       \/ run' = [run EXCEPT ![g] = "failing"]
    /\ UNCHANGED <<processVars, handler, ctxDone, conn, row, told, failed>>

Verdict(g) == IF run[g] = "saving" THEN "completed" ELSE "failed"

\* As if the success were told before it is saved.
SavedLater(g) ==
    /\ run[g] \in {"saving", "failing"} /\ conn[g]
    /\ run' = [run EXCEPT ![g] = IF run[g] = "saving" THEN "succeeded" ELSE "erred"]
    /\ conn' = [conn EXCEPT ![g] = FALSE]
    /\ UNCHANGED <<processVars, handler, ctxDone, row, told, failed>>

\* The terminal Save is applied and returns nil.
Saved(g) ==
    /\ run[g] \in {"saving", "failing"} /\ conn[g]
    /\ row' = [row EXCEPT ![g] = Verdict(g)]
    /\ run' = [run EXCEPT ![g] = IF run[g] = "saving" THEN "succeeded" ELSE "erred"]
    /\ conn' = [conn EXCEPT ![g] = FALSE]
    /\ UNCHANGED <<processVars, handler, ctxDone, told, failed>>

\* The query fails, applied or not, or the pool gives out no connection.
SaveFails(g) ==
    /\ run[g] \in {"saving", "failing"}
    /\ FallibleRepo \/ (~conn[g] /\ PoolIsClosed)
    /\ \/ UNCHANGED row
       \/ conn[g] /\ row' = [row EXCEPT ![g] = Verdict(g)]
    /\ run' = [run EXCEPT ![g] = "erred"]
    /\ conn' = [conn EXCEPT ![g] = FALSE]
    /\ failed' = [failed EXCEPT ![g] = TRUE]
    /\ UNCHANGED <<processVars, handler, ctxDone, told>>

\* The terminal event reaches the handler, which writes it, or is dropped.
Tell(g) ==
    /\ run[g] \in {"succeeded", "erred"}
    /\ \/ /\ handler[g] = "streaming"
          /\ told' = [told EXCEPT ![g] =
                         IF run[g] = "succeeded" THEN "done" ELSE "error"]
       \/ ctxDone[g] /\ UNCHANGED told
    /\ run' = [run EXCEPT ![g] = "ended"]
    /\ UNCHANGED <<processVars, handler, ctxDone, conn, row, failed>>

\* streamSSE returns once the channel is closed or the client has left,
HandlerReturns(g) ==
    /\ handler[g] = "streaming"
    /\ run[g] = "ended" \/ ctxDone[g]
    /\ handler' = [handler EXCEPT ![g] = "returned"]
    /\ UNCHANGED <<processVars, run, ctxDone, conn, row, told, failed>>

\* or when a write fails or cannot be flushed; the server then cancels the
\* request's context.
HandlerGivesUp(g) ==
    /\ handler[g] = "streaming"
    /\ handler' = [handler EXCEPT ![g] = "returned"]
    /\ ctxDone' = [ctxDone EXCEPT ![g] = TRUE]
    /\ UNCHANGED <<processVars, run, conn, row, told, failed>>

Generate(g) ==
    \/ Request(g) \/ Leave(g) \/ TakeConnection(g) \/ Created(g)
    \/ CreateFails(g) \/ Start(g) \/ Decide(g) \/ Saved(g) \/ SaveFails(g)
    \/ Tell(g) \/ HandlerReturns(g) \/ HandlerGivesUp(g)

\* The process is not started again.
Rest ==
    /\ phase = "down"
    /\ boots = MaxBoots
    /\ UNCHANGED vars

Next ==
    \/ Acquire \/ ConfigFails \/ WiringFails \/ Listen \/ ServeFails
    \/ Signal \/ ShutdownDone \/ ShutdownTimesOut
    \/ ReleaseOther \/ PoolCloses \/ PoolClosed \/ Exit
    \/ Kill \/ Restart
    \/ \E g \in Generations : Generate(g)
    \/ Rest

Spec == Init /\ [][Next]_vars

\* run goes on, the timer of Shutdown fires, and a query that was sent
\* returns: nothing in the code bounds the terminal Save's.
Fairness ==
    /\ WF_vars(ShutdownDone \/ ShutdownTimesOut)
    /\ WF_vars(ReleaseOther \/ PoolCloses \/ PoolClosed \/ Exit)
    /\ \A g \in Generations :
          WF_vars(conn[g] /\ (Created(g) \/ CreateFails(g) \/ Saved(g)
                              \/ SaveFails(g)))

FairSpec == Spec /\ Fairness

----------------------------------------------------------------------------
(* Properties.                                                             *)

Exits == {"clean", "error", "killed"}

TypeOK ==
    /\ phase \in {"booting", "serving", "stopping", "returning", "down"}
    /\ open \in BOOLEAN
    /\ \E n \in 0..Len(Resources) : acquired = SubSeq(Resources, 1, n)
    /\ draining \in BOOLEAN
    /\ exit \in Exits \cup {"none"}
    /\ boots \in 1..MaxBoots
    /\ handler \in [Generations -> {"none", "creating", "streaming", "returned"}
                                       \cup Exits]
    /\ run \in [Generations -> {"none", "starting", "working", "saving",
                                "failing", "succeeded", "erred", "ended"}
                                   \cup Exits]
    /\ ctxDone \in [Generations -> BOOLEAN]
    /\ conn \in [Generations -> BOOLEAN]
    /\ row \in [Generations -> {"none", "streaming", "completed", "failed"}]
    /\ told \in [Generations -> {"none", "done", "error"}]
    /\ failed \in [Generations -> BOOLEAN]

\* run returns an error with the server's handlers under way.
CutOff == phase = "returning" /\ exit = "error"

\* run's order of Shutdown and of its defers: until it gives up on its
\* handlers, a handler has Redis and a Save the pool, the terminal Save of a
\* client that stayed too; and a query that is under way, even then or under
\* a clean stop, has the telemetry its tracer reports to.
ResourcesOutlastTheirUsers ==
    \A g \in Generations :
        /\ Handling(g) => Holds("redis") \/ CutOff
        /\ Saving(g) => ~PoolIsClosed \/ CutOff \/ ctxDone[g]
        /\ conn[g] => Holds("telemetry")

\* Shutdown, then the defers: a stop that run reports as clean cuts off no
\* handler, and the goroutine of no client that stayed.
CleanStopSparesWhoStayed ==
    \A g \in Generations :
        /\ handler[g] # "clean"
        /\ run[g] = "clean" => ctxDone[g]

\* run's Saves and its events across stops, kills and restarts: a client that
\* was told of success finds its generation completed ever after.
DoneIsDurable ==
    \A g \in Generations : told[g] = "done" => row[g] = "completed"

\* GenerateVariations.Execute and run: a row that is neither settled nor about
\* to be is one whose process ended under it, whose client had left, or whose
\* Save failed.
StuckHasItsCause ==
    \A g \in Generations :
        row[g] = "streaming" =>
            \/ Running(g)
            \/ handler[g] = "returned" /\ run[g] = "none"
            \/ handler[g] \in Exits \/ run[g] \in Exits
            \/ ctxDone[g]
            \/ failed[g]

\* A stop ends: Shutdown has a timeout and the defers wait for queries only.
StopEnds == phase = "stopping" ~> phase = "down"

\* A generation's row and its client's verdict follow GenerationRecord over
\* all the boots, whatever the strategies S of the generation are.
Row(g, S) == [status |-> row[g],
              variations |-> IF row[g] = "completed" THEN S ELSE {}]

Record(g, S) == INSTANCE GenerationRecord
                    WITH Strategies <- S, record <- Row(g, S),
                         outcome <- told[g]

\* Each goroutine goes through RunStages' stages, every end of the process being
\* a crash to it.  The pool may close before any Save.
StageOf == [none |-> "ended", starting |-> "offering", working |-> "working",
            saving |-> "completing", failing |-> "failing",
            succeeded |-> "ended", erred |-> "ended", ended |-> "ended",
            clean |-> "ended", error |-> "ended", killed |-> "ended"]

Stage(g) == IF handler[g] \in {"none", "creating"} THEN "none"
                                                  ELSE StageOf[run[g]]

Run(g) == INSTANCE RunStages
              WITH rec <- row[g], run <- Stage(g), ctxDone <- ctxDone[g],
                   MayFail <- TRUE, Crashes <- TRUE

\* run's comment on the terminal Save: "a disconnected client must not prevent
\* the correct failed/completed status from being saved, or the record is left
\* stuck in "streaming" forever".
CleanStopSettles ==
    \A g \in Generations : run[g] = "clean" => row[g] # "streaming"
=============================================================================
