------------------------- MODULE IdempotentGenerate -------------------------
(***************************************************************************)
(* Requests to POST /v1/generate that share one idempotency key, explicit  *)
(* or derived from their content: the handler's checkIdempotency and       *)
(* resolveIdempotencyConflict, the reservation and mapping that streamSSE  *)
(* keeps in Redis, and the generations table it is read against            *)
(* (internal/adapter/httpapi/idempotency.go and generate.go,               *)
(* internal/adapter/cache/redis_idempotency_store.go).                     *)
(*                                                                         *)
(* A request's generation is named by the request.  Its run goroutine,     *)
(* which GenerateVariations models in full, keeps only its stages here:    *)
(* offering generation_started, working, saving its verdict, ended.        *)
(***************************************************************************)
EXTENDS Naturals

CONSTANTS
    Requests,       \* the requests that share the key
    Free,           \* the key is not in the store
    StoreFaults,    \* the Redis calls that may return an error, by their step
    FallibleRepo,   \* whether a Postgres call may return an error
    Crashes,        \* whether the process serving a request may die
    Expires         \* whether the store's TTL may run out

Pending == "pending"

ASSUME FreeAssumption == Free \notin Requests \cup {Pending}
ASSUME PendingAssumption == Pending \notin Requests
ASSUME FaultsAssumption ==
    /\ StoreFaults \subseteq {"reserve", "resolve", "map", "release"}
    /\ {FallibleRepo, Crashes, Expires} \subseteq BOOLEAN

VARIABLES
    key,            \* the value of the key in Redis
    writer,         \* the request that wrote that value (not in Redis)
    rec,            \* status of each generation's row
    pc,             \* program counter of each handler
    ctxDone,        \* each request's context is done
    claim,          \* what each handler's checkIdempotency found
    found,          \* the generation id each handler got from the store
    run             \* stage of each generation's run goroutine

storeVars == <<key, writer>>
handlerVars == <<pc, claim, found>>
vars == <<storeVars, rec, handlerVars, ctxDone, run>>

----------------------------------------------------------------------------
Values == {Free, Pending} \cup Requests

Statuses == {"none", "streaming", "completed", "failed"}

\* How a handler ends: it answers 409, replays a generation, or is done with
\* its own (streamed, cut short, or refused).
Over == {"conflict", "replayed", "done"}

\* A handler before its first store call, in each of the calls it makes
\* (relay and unmapped: the rest of the stream, with idempotencySaved set and
\* not), and after its last one.
Steps == {"reserve", "resolve", "lookup", "execute", "first", "map", "relay",
          "unmapped", "release"} \cup Over

\* won: this handler's SETNX stored the sentinel.  bypass: the handler goes
\* on to Execute without having won the key.
Claims == {"none", "won", "bypass"}

Stages == {"none", "offering", "working", "completing", "failing", "ended"}

Init ==
    /\ key = Free
    /\ writer = Free
    /\ rec = [r \in Requests |-> "none"]
    /\ pc = [r \in Requests |-> "reserve"]
    /\ ctxDone = [r \in Requests |-> FALSE]
    /\ claim = [r \in Requests |-> "none"]
    /\ found = [r \in Requests |-> Free]
    /\ run = [r \in Requests |-> "none"]

Goto(r, step) == pc' = [pc EXCEPT ![r] = step]

Claim(r, c) == claim' = [claim EXCEPT ![r] = c]

Put(r, value) == key' = value /\ writer' = r

\* A call under the request's context fails once that context is done: at
\* once if it was done before, or after Redis or Postgres has run it.
StoreMayFail(r) == pc[r] \in StoreFaults \/ ctxDone[r]
RepoMayFail(r) == FallibleRepo \/ ctxDone[r]

----------------------------------------------------------------------------
(* checkIdempotency.                                                       *)

\* As if the sentinel were SET over another reservation.
ReserveOverwrites(r) ==
    /\ pc[r] = "reserve"
    /\ ~ctxDone[r]
    /\ key \in {Free, Pending}
    /\ Put(r, Pending)
    /\ Claim(r, "won")
    /\ Goto(r, "execute")
    /\ UNCHANGED <<rec, ctxDone, found, run>>

\* SETNX finds no value and stores the pending sentinel.
ReserveWins(r) ==
    /\ pc[r] = "reserve"
    /\ ~ctxDone[r]
    /\ key = Free
    /\ Put(r, Pending)
    /\ Claim(r, "won")
    /\ Goto(r, "execute")
    /\ UNCHANGED <<rec, ctxDone, found, run>>

\* SETNX finds a value.
ReserveLoses(r) ==
    /\ pc[r] = "reserve"
    /\ ~ctxDone[r]
    /\ key # Free
    /\ Goto(r, "resolve")
    /\ UNCHANGED <<storeVars, rec, ctxDone, claim, found, run>>

\* Reserve returns an error, whether or not Redis ran it: the handler goes on
\* without the reservation, and with the key.
ReserveErrs(r) ==
    /\ pc[r] = "reserve"
    /\ StoreMayFail(r)
    /\ \/ UNCHANGED storeVars
       \/ key = Free /\ Put(r, Pending)
    /\ Claim(r, "bypass")
    /\ Goto(r, "execute")
    /\ UNCHANGED <<rec, ctxDone, found, run>>

\* Get returns ErrIdempotencyKeyPending: 409.
ResolvePending(r) ==
    /\ pc[r] = "resolve"
    /\ ~ctxDone[r]
    /\ key = Pending
    /\ Goto(r, "conflict")
    /\ UNCHANGED <<storeVars, rec, ctxDone, claim, found, run>>

\* Get returns a generation id.
ResolveMapped(r) ==
    /\ pc[r] = "resolve"
    /\ ~ctxDone[r]
    /\ key \in Requests
    /\ found' = [found EXCEPT ![r] = key]
    /\ Goto(r, "lookup")
    /\ UNCHANGED <<storeVars, rec, ctxDone, claim, run>>

\* Get finds nothing (the key was released or has expired since Reserve), or
\* returns another error: the handler goes on without the key.
ResolveMisses(r) ==
    /\ pc[r] = "resolve"
    /\ StoreMayFail(r) \/ key = Free
    /\ Claim(r, "bypass")
    /\ Goto(r, "execute")
    /\ UNCHANGED <<storeVars, rec, ctxDone, found, run>>

\* As if a generation still streaming could be replayed.
LookupReplaysUnfailed(r) ==
    /\ pc[r] = "lookup"
    /\ ~ctxDone[r]
    /\ rec[found[r]] \in {"streaming", "completed"}
    /\ Goto(r, "replayed")
    /\ UNCHANGED <<storeVars, rec, ctxDone, claim, found, run>>

\* The generation is completed: it is replayed.
LookupReplays(r) ==
    /\ pc[r] = "lookup"
    /\ ~ctxDone[r]
    /\ rec[found[r]] = "completed"
    /\ Goto(r, "replayed")
    /\ UNCHANGED <<storeVars, rec, ctxDone, claim, found, run>>

\* It is still in progress: 409.
LookupConflicts(r) ==
    /\ pc[r] = "lookup"
    /\ ~ctxDone[r]
    /\ rec[found[r]] = "streaming"
    /\ found' = [found EXCEPT ![r] = Free]
    /\ Goto(r, "conflict")
    /\ UNCHANGED <<storeVars, rec, ctxDone, claim, run>>

\* It failed, is missing, or cannot be read: the handler goes on to a fresh
\* generation without reserving the key again.
LookupProceeds(r) ==
    /\ pc[r] = "lookup"
    /\ rec[found[r]] \in {"none", "failed"} \/ RepoMayFail(r)
    /\ found' = [found EXCEPT ![r] = Free]
    /\ Claim(r, "bypass")
    /\ Goto(r, "execute")
    /\ UNCHANGED <<storeVars, rec, ctxDone, run>>

----------------------------------------------------------------------------
(* Execute and streamSSE.                                                  *)

\* Execute refuses the input, or its Save returns an error, applied or not.
ExecuteErrs(r) ==
    /\ pc[r] = "execute"
    /\ \/ UNCHANGED rec
       \/ RepoMayFail(r) /\ rec' = [rec EXCEPT ![r] = "streaming"]
    /\ Goto(r, "release")
    /\ UNCHANGED <<storeVars, ctxDone, claim, found, run>>

\* As if the mapping were saved as soon as the generation has an id.
ExecuteAndMap(r) ==
    /\ pc[r] = "execute"
    /\ ~ctxDone[r]
    /\ rec' = [rec EXCEPT ![r] = "streaming"]
    /\ run' = [run EXCEPT ![r] = "offering"]
    /\ Put(r, r)
    /\ Goto(r, "first")
    /\ UNCHANGED <<ctxDone, claim, found>>

\* The generation is saved and its run goroutine offers generation_started.
Execute(r) ==
    /\ pc[r] = "execute"
    /\ ~ctxDone[r]
    /\ rec' = [rec EXCEPT ![r] = "streaming"]
    /\ run' = [run EXCEPT ![r] = "offering"]
    /\ Goto(r, "first")
    /\ UNCHANGED <<storeVars, ctxDone, claim, found>>

\* The handler takes generation_started and writes the header.
FirstEvent(r) ==
    /\ pc[r] = "first"
    /\ run[r] = "offering"
    /\ run' = [run EXCEPT ![r] = "working"]
    /\ Goto(r, "map")
    /\ UNCHANGED <<storeVars, rec, ctxDone, claim, found>>

\* The stream ends before any event: the channel closes or the client goes.
NoEvent(r) ==
    /\ pc[r] = "first"
    /\ ctxDone[r]
    /\ Goto(r, "release")
    /\ UNCHANGED <<storeVars, rec, ctxDone, claim, found, run>>

\* saveIdempotencyMapping, under a context that outlives the request's.
SaveMapping(r) ==
    /\ pc[r] = "map"
    /\ Put(r, r)
    /\ Goto(r, "relay")
    /\ UNCHANGED <<rec, ctxDone, claim, found, run>>

SaveMappingErrs(r) ==
    /\ pc[r] = "map"
    /\ "map" \in StoreFaults
    /\ UNCHANGED storeVars \/ Put(r, r)
    /\ Goto(r, "unmapped")
    /\ UNCHANGED <<rec, ctxDone, claim, found, run>>

\* The channel is closed, or the context is done.
StreamOver(r) == run[r] = "ended" \/ ctxDone[r]

\* The mapping is saved: nothing is left to release.
StreamEnds(r) ==
    /\ pc[r] = "relay"
    /\ StreamOver(r)
    /\ Goto(r, "done")
    /\ UNCHANGED <<storeVars, rec, ctxDone, claim, found, run>>

\* It is not: the deferred function releases the key.
UnmappedStreamEnds(r) ==
    /\ pc[r] = "unmapped"
    /\ StreamOver(r)
    /\ Goto(r, "release")
    /\ UNCHANGED <<storeVars, rec, ctxDone, claim, found, run>>

\* The connection breaks under a frame, before the context is done.
WriteFails(r) ==
    /\ pc[r] \in {"relay", "unmapped"}
    /\ Goto(r, IF pc[r] = "relay" THEN "done" ELSE "release")
    /\ UNCHANGED <<storeVars, rec, ctxDone, claim, found, run>>

\* As if the release ran under the request's context.
ReleaseUnderRequest(r) ==
    /\ pc[r] = "release"
    /\ ~ctxDone[r]
    /\ Put(Free, Free)
    /\ Goto(r, "done")
    /\ UNCHANGED <<rec, ctxDone, claim, found, run>>

\* releaseIdempotencyReservation: a DEL, whatever the key holds.
Release(r) ==
    /\ pc[r] = "release"
    /\ Put(Free, Free)
    /\ Goto(r, "done")
    /\ UNCHANGED <<rec, ctxDone, claim, found, run>>

ReleaseErrs(r) ==
    /\ pc[r] = "release"
    /\ "release" \in StoreFaults
    /\ UNCHANGED storeVars \/ Put(Free, Free)
    /\ Goto(r, "done")
    /\ UNCHANGED <<rec, ctxDone, claim, found, run>>

----------------------------------------------------------------------------
(* The run goroutine.                                                      *)

\* The context is done before generation_started is taken.
AbandonStart(r) ==
    /\ run[r] = "offering"
    /\ ctxDone[r]
    /\ run' = [run EXCEPT ![r] = "ended"]
    /\ UNCHANGED <<storeVars, rec, handlerVars, ctxDone>>

\* The fan-in: completed only if the context is not done.
Decide(r) ==
    /\ run[r] = "working"
    /\ \E verdict \in {"completing", "failing"} :
          /\ verdict = "completing" => ~ctxDone[r]
          /\ run' = [run EXCEPT ![r] = verdict]
    /\ UNCHANGED <<storeVars, rec, handlerVars, ctxDone>>

Verdict(r) == IF run[r] = "completing" THEN "completed" ELSE "failed"

\* The terminal Save, under a context that outlives the request's.
SettleRecord(r) ==
    /\ run[r] \in {"completing", "failing"}
    /\ rec' = [rec EXCEPT ![r] = Verdict(r)]
    /\ run' = [run EXCEPT ![r] = "ended"]
    /\ UNCHANGED <<storeVars, handlerVars, ctxDone>>

SettleErrs(r) ==
    /\ run[r] \in {"completing", "failing"}
    /\ FallibleRepo
    /\ UNCHANGED rec \/ rec' = [rec EXCEPT ![r] = Verdict(r)]
    /\ run' = [run EXCEPT ![r] = "ended"]
    /\ UNCHANGED <<storeVars, handlerVars, ctxDone>>

----------------------------------------------------------------------------
(* The world around the requests.                                          *)

\* Some goroutine of the request is left.
Live(r) == pc[r] \notin Over \/ run[r] \notin {"none", "ended"}

\* The client disconnects, or the handler has returned.
Cancel(r) ==
    /\ ~ctxDone[r]
    /\ Live(r)
    /\ ctxDone' = [ctxDone EXCEPT ![r] = TRUE]
    /\ UNCHANGED <<storeVars, rec, handlerVars, run>>

\* The process that serves the request dies: its handler and its run stop
\* where they are, with what they have written.
Crash(r) ==
    /\ Crashes
    /\ pc[r] # "reserve"
    /\ Live(r)
    /\ pc' = [pc EXCEPT ![r] = IF pc[r] \in Over THEN @ ELSE "done"]
    /\ run' = [run EXCEPT ![r] = "ended"]
    /\ ctxDone' = [ctxDone EXCEPT ![r] = TRUE]
    /\ UNCHANGED <<storeVars, rec, claim, found>>

\* The TTL runs out.  It is hours long, so the request that wrote the value
\* has been answered long before.
Expire ==
    /\ Expires
    /\ key # Free
    /\ pc[writer] \in Over
    /\ Put(Free, Free)
    /\ UNCHANGED <<rec, handlerVars, ctxDone, run>>

Rest ==
    /\ \A r \in Requests : ~Live(r)
    /\ key = Free \/ ~Expires
    /\ UNCHANGED vars

CheckStep(r) ==
    \/ ReserveWins(r) \/ ReserveLoses(r) \/ ReserveErrs(r)
    \/ ResolvePending(r) \/ ResolveMapped(r) \/ ResolveMisses(r)
    \/ LookupReplays(r) \/ LookupConflicts(r) \/ LookupProceeds(r)

StreamStep(r) ==
    \/ ExecuteErrs(r) \/ Execute(r) \/ FirstEvent(r) \/ NoEvent(r)
    \/ SaveMapping(r) \/ SaveMappingErrs(r) \/ StreamEnds(r)
    \/ UnmappedStreamEnds(r)
    \/ Release(r) \/ ReleaseErrs(r)

RunStep(r) ==
    AbandonStart(r) \/ Decide(r) \/ SettleRecord(r) \/ SettleErrs(r)

Next ==
    \/ \E r \in Requests :
          \/ CheckStep(r) \/ StreamStep(r) \/ WriteFails(r)
          \/ RunStep(r)
          \/ Cancel(r) \/ Crash(r)
    \/ Expire
    \/ Rest

Spec == Init /\ [][Next]_vars

(***************************************************************************)
(* Fairness.  A handler that has begun and a run goroutine proceed, since  *)
(* their store and repository calls are bounded by timeouts or contexts;   *)
(* a model answers or the client leaves, so that Decide happens; and a     *)
(* client that holds a connection open leaves once its handler returned.   *)
(***************************************************************************)
Fairness ==
    \A r \in Requests :
        /\ WF_vars(pc[r] # "reserve" /\ (CheckStep(r) \/ StreamStep(r)))
        /\ WF_vars(RunStep(r))
        /\ WF_vars(pc[r] \in Over /\ Cancel(r))

FairSpec == Spec /\ Fairness

----------------------------------------------------------------------------
(* Properties.                                                             *)

TypeOK ==
    /\ key \in Values
    /\ writer \in Requests \cup {Free}
    /\ rec \in [Requests -> Statuses]
    /\ pc \in [Requests -> Steps]
    /\ ctxDone \in [Requests -> BOOLEAN]
    /\ claim \in [Requests -> Claims]
    /\ found \in [Requests -> Requests \cup {Free}]
    /\ run \in [Requests -> Stages]

\* A client is replayed only a generation whose row is completed, and that
\* stays completed: no overlap of an earlier failed or unfinished attempt,
\* of a mapping that has been replaced, or of a crash, changes it under the
\* replay.
ReplayIsCompleted ==
    \A r \in Requests :
        pc[r] = "replayed" => rec[found[r]] = "completed"

\* The handler owns the key: it won the reservation and is not done with it.
Owns(r) ==
    /\ claim[r] = "won"
    /\ pc[r] \notin Over

Bypassed == \E r \in Requests : claim[r] = "bypass"

\* SETNX and the mapping that replaces the sentinel keep one handler at a
\* time on the key, through crashes, expiry and failing calls, as long as no
\* handler has taken one of the paths that go on without the key.
OneOwnerUnlessBypassed ==
    ~Bypassed => \A r, s \in Requests : Owns(r) /\ Owns(s) => r = s

\* A mapping is saved only once generation_started has been taken, so it
\* never names a generation that was abandoned in streaming: without crashes
\* and Postgres errors, the 409 it causes comes to an end.
MappedWillSettle ==
    key \in Requests /\ ~Crashes /\ ~FallibleRepo =>
        \/ rec[key] \in {"completed", "failed"}
        \/ rec[key] = "streaming" /\ run[key] # "ended"

\* The generation of each request follows GenerationRecord, whatever its
\* strategies S are and however many handlers look its row up; a client that
\* is replayed it is told of its success.
Row(r, S) == [status |-> rec[r],
              variations |-> IF rec[r] = "completed" THEN S ELSE {}]

Replayed(s) == \E r \in Requests : pc[r] = "replayed" /\ found[r] = s

Record(s, S) == INSTANCE GenerationRecord
                    WITH Strategies <- S, record <- Row(s, S),
                         outcome <- IF Replayed(s) THEN "done" ELSE "none"

\* Each request's goroutine goes through RunStages' stages; one that Execute did
\* not start has ended once its handler is past Execute.
Stage(r) == IF run[r] = "none" /\ pc[r] \in {"release", "done"}
              THEN "ended" ELSE run[r]

Run(r) == INSTANCE RunStages
              WITH rec <- rec[r], run <- Stage(r), ctxDone <- ctxDone[r],
                   MayFail <- FallibleRepo

\* A reservation does not outlive its handler, which maps the key, or releases
\* it when it has no generation or its mapping was not saved, whatever its
\* client does (in runs without crashes, and with a release that succeeds).
ReservationEnds ==
    \A r \in Requests :
        (key = Pending /\ writer = r) ~> ~(key = Pending /\ writer = r)

\* Release's comment: it only ever runs within the request that just won the
\* reservation, so nothing else can have taken over the key in between.
ReleaseDeletesOwn ==
    [][\A r \in Requests : Release(r) => writer \in {r, Free}]_vars

\* The handler streams a generation of its own to its client.
Streaming(r) == pc[r] \in {"map", "relay", "unmapped"}

\* idempotencyStore's comment and openapi.yaml: two requests racing the same
\* key cannot both start a generation.
OneStreamPerKey ==
    \A r, s \in Requests :
        Streaming(r) /\ Streaming(s) => r = s
=============================================================================
