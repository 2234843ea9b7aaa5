---------------------- MODULE GenerateVariationsProofs ----------------------
(***************************************************************************)
(* Theorems about GenerateVariations, for any set of strategies, any bound *)
(* on the deltas and a repository that may or may not fail.                *)
(***************************************************************************)
EXTENDS GenerateVariationsInvariant, TLAPS

\* Appending to a sequence adds the new element and nothing else.
LEMMA AppendAdds ==
    ASSUME NEW S, NEW q \in Seq(S), NEW e \in S, NEW x
    PROVE  (\E n \in 1..Len(Append(q, e)) : Append(q, e)[n] = x)
             <=> (x = e \/ \E n \in 1..Len(q) : q[n] = x)
<1> DEFINE r == Append(q, e)
<1>1. /\ Len(r) = Len(q) + 1
      /\ r[Len(q) + 1] = e
      /\ \A n \in 1..Len(q) : r[n] = q[n]
      /\ Len(q) \in Nat
  OBVIOUS
<1> QED
  BY <1>1

\* Where the elements of the longer sequence come from.
LEMMA AppendGrows ==
    ASSUME NEW S, NEW q \in Seq(S), NEW e \in S
    PROVE  /\ Append(q, e) # <<>>
           /\ Len(Append(q, e)) = Len(q) + 1
           /\ Append(q, e)[Len(q) + 1] = e
           /\ \A n \in 1..Len(q) : Append(q, e)[n] = q[n]
           /\ Len(q) \in Nat
           /\ q = <<>> <=> Len(q) = 0
<1>1. /\ Len(Append(q, e)) = Len(q) + 1
      /\ Append(q, e)[Len(q) + 1] = e
      /\ \A n \in 1..Len(q) : Append(q, e)[n] = q[n]
      /\ Len(q) \in Nat
      /\ q = <<>> <=> Len(q) = 0
  OBVIOUS
<1>2. Append(q, e) # <<>>
  BY <1>1
<1> QED
  BY <1>1, <1>2

----------------------------------------------------------------------------
(* Type correctness.                                                       *)

LEMMA EventTyped ==
    ASSUME NEW s \in Sources, NEW type \in EventTypes, NEW e \in Errors
    PROVE  Event(type, s) \in Events /\ ErrorEvent(s, e) \in Events
BY DEF Events, Event, ErrorEvent, EventTypes, Errors

LEMMA InitType == Init => TypeOK
<1> SUFFICES ASSUME Init PROVE TypeOK
  OBVIOUS
<1>1. db \in Generations /\ gen \in Generations
  BY DEF Init, Generations, NoRow, NewGeneration, Statuses
<1>2. report \in Events /\ frame \in Events
  BY DEF Init, Events, Event, EventTypes, Sources, Errors
<1>3. pending \in [Strategies -> Events]
  BY DEF Init, Events, Event, EventTypes, Sources, Errors
<1>4. chunk \in [Strategies -> Chunks]
  BY DEF Init, Chunks, Errors
<1>5. /\ tokens \in [Strategies -> 0..MaxTokens]
      /\ frames \in [Sources -> Seq(EventTypes)]
      /\ sentry \in Nat
  BY MaxTokensAssumption DEF Init
<1>6. /\ worker \in [Strategies -> Workers]
      /\ adapter \in [Strategies -> Adapters]
  BY DEF Init, Workers, Adapters
<1> QED
  BY <1>1, <1>2, <1>3, <1>4, <1>5, <1>6
     DEF Init, TypeOK, Runs, Handlers, Errors

LEMMA ReceiveType ==
    ASSUME TypeOK, NEW ev \in Events, Receive(ev)
    PROVE  handler' \in Handlers /\ frame' \in Events /\ sentry' \in Nat
           /\ frames' \in [Sources -> Seq(EventTypes)]
BY DEF Receive, TypeOK, Handlers

LEMMA NextType == TypeOK /\ [Next]_vars => TypeOK'
<1> SUFFICES ASSUME TypeOK, [Next]_vars PROVE TypeOK'
  OBVIOUS
<1> USE DEF vars, runVars, workerVars, adapterVars, handlerVars
<1>0. CASE UNCHANGED vars
  BY <1>0 DEF TypeOK
<1>1. CASE Disconnect \/ ServerCancels
  BY <1>1 DEF TypeOK, Disconnect, ServerCancels
<1>2. CASE RunStep
  <2>1. CASE RefuseInput
    BY <2>1 DEF TypeOK, RefuseInput, Runs, Handlers
  <2>2. CASE CreateFails
    BY <2>2 DEF TypeOK, CreateFails, Runs, Handlers
  <2>3. CASE Create
    BY <2>3 DEF TypeOK, Create, Runs, Handlers
  <2>4. CASE FanOut
    <3>1. Event("generation_started", Aggregate) \in Events
      BY EventTyped DEF Sources, EventTypes, Errors
    <3>2. /\ run' \in Runs
          /\ worker' \in [Strategies -> Workers]
      BY <2>4 DEF FanOut, Runs, Workers
    <3> QED
      BY <2>4, <3>1, <3>2, ReceiveType DEF TypeOK, FanOut
  <2>5. CASE AbandonStart
    BY <2>5 DEF TypeOK, AbandonStart, Runs
  <2>6. CASE Decide
    <3>1. firstErr' \in Errors
      BY <2>6 DEF TypeOK, Decide, Errors
    <3>2. gen' \in Generations
      BY <2>6 DEF TypeOK, Decide, Generations, Statuses
    <3> QED
      BY <2>6, <3>1, <3>2 DEF TypeOK, Decide, Runs
  <2>7. CASE SaveTerminal
    <3>1. report' \in Events
      BY <2>7, EventTyped
         DEF TypeOK, SaveTerminal, TerminalEvent, Sources, EventTypes, Errors
    <3> QED
      BY <2>7, <3>1 DEF TypeOK, SaveTerminal, Runs
  <2>8. CASE SaveTerminalFails
    <3>1. report' \in Events
      BY <2>8, EventTyped DEF SaveTerminalFails, Sources, EventTypes, Errors
    <3> QED
      BY <2>8, <3>1 DEF TypeOK, SaveTerminalFails, Runs
  <2>9. CASE Report
    BY <2>9, ReceiveType DEF TypeOK, Report, Runs
  <2>10. CASE DropReport
    BY <2>10 DEF TypeOK, DropReport, Runs
  <2> QED
    BY <1>2, <2>1, <2>2, <2>3, <2>4, <2>5, <2>6, <2>7, <2>8, <2>9, <2>10
       DEF RunStep
<1>3. ASSUME NEW s \in Strategies, WorkerStep(s) PROVE TypeOK'
  <2>1. CASE Send(s)
    <3>1. AfterSend(worker[s]) \in Workers
      BY <2>1 DEF Send, Offers, AfterSend, Workers
    <3>2. pending[s] \in Events
      BY DEF TypeOK
    <3> QED
      BY <2>1, <3>1, <3>2, ReceiveType DEF TypeOK, Send
  <2>2. CASE GiveUp(s)
    BY <2>2 DEF TypeOK, GiveUp, Workers
  <2>3. CASE OpenFails(s)
    <3>1. ErrorEvent(s, "failure") \in Events
      BY EventTyped DEF Sources, EventTypes, Errors
    <3> QED
      BY <2>3, <3>1 DEF TypeOK, OpenFails, RecordErr, Workers, Errors
  <2>4. CASE Open(s)
    BY <2>4 DEF TypeOK, Open, Workers, Adapters
  <2>5. CASE TakeChunk(s)
    <3>1. chunk[s] \in Chunks
      BY DEF TypeOK
    <3>2. /\ chunk[s].err \in Errors
          /\ chunk[s].type \in EventTypes
      BY <3>1 DEF Chunks, EventTypes
    <3>3. [type |-> chunk[s].type, source |-> s, err |-> chunk[s].err]
            \in Events
      BY <3>2 DEF Events, Sources
    <3>4. pending' \in [Strategies -> Events]
      BY <2>5, <3>3 DEF TypeOK, TakeChunk
    <3>5. firstErr' \in Errors /\ variations' \in SUBSET Strategies
      BY <2>5, <3>2 DEF TypeOK, TakeChunk, RecordErr
    <3>6. /\ worker' \in [Strategies -> Workers]
          /\ adapter' \in [Strategies -> Adapters]
      BY <2>5 DEF TypeOK, TakeChunk, AfterChunk, Workers, Adapters
    <3> QED
      BY <2>5, <3>4, <3>5, <3>6 DEF TypeOK, TakeChunk
  <2>6. CASE StreamEnds(s)
    BY <2>6 DEF TypeOK, StreamEnds, Workers
  <2> QED
    BY <1>3, <2>1, <2>2, <2>3, <2>4, <2>5, <2>6 DEF WorkerStep
<1>4. ASSUME NEW s \in Strategies, AdapterStep(s) PROVE TypeOK'
  <2> DEFINE Chunk(type, err) == [type |-> type, err |-> err]
  <2>1. \A c \in Chunks : Offer(s, c) =>
            /\ adapter' \in [Strategies -> Adapters]
            /\ chunk' \in [Strategies -> Chunks]
    BY DEF TypeOK, Offer, Adapters
  <2>2. /\ Chunk("token", "nil") \in Chunks
        /\ Chunk("variation_completed", "nil") \in Chunks
        /\ Chunk("error", "failure") \in Chunks
        /\ Chunk("error", "canceled") \in Chunks
    BY DEF Chunks, Errors
  <2>3. CASE ReadDelta(s)
    <3>1. tokens' \in [Strategies -> 0..MaxTokens]
      BY <2>3, MaxTokensAssumption DEF TypeOK, ReadDelta
    <3> QED
      BY <2>1, <2>2, <2>3, <3>1 DEF TypeOK, ReadDelta, Offer
  <2>4. CASE ReadEnd(s)
    BY <2>1, <2>2, <2>4 DEF TypeOK, ReadEnd, Offer
  <2>5. CASE ReadFails(s)
    BY <2>1, <2>2, <2>5 DEF TypeOK, ReadFails, Offer
  <2>6. CASE ReadCanceled(s)
    BY <2>1, <2>2, <2>6 DEF TypeOK, ReadCanceled, Offer
  <2>7. CASE StopSilently(s)
    BY <2>7 DEF TypeOK, StopSilently, Adapters
  <2> QED
    BY <1>4, <2>3, <2>4, <2>5, <2>6, <2>7 DEF AdapterStep
<1>5. CASE HandlerStep
  <2>1. CASE WriteFrame
    <3>1. frame.source \in Sources /\ frame.type \in EventTypes
      BY DEF TypeOK, Events
    <3>2. frames' \in [Sources -> Seq(EventTypes)]
      BY <2>1, <3>1 DEF TypeOK, WriteFrame
    <3> QED
      BY <2>1, <3>2 DEF TypeOK, WriteFrame, Handlers
  <2>2. CASE WriteFails \/ HandlerReturns
    BY <2>2 DEF TypeOK, WriteFails, HandlerReturns, Handlers
  <2> QED
    BY <1>5, <2>1, <2>2 DEF HandlerStep
<1>6. CASE Rest
  BY <1>6 DEF TypeOK, Rest
<1> QED
  BY <1>0, <1>1, <1>2, <1>3, <1>4, <1>5, <1>6 DEF Next

\* Every variable keeps its type in every behaviour.
THEOREM Typing == Spec => []TypeOK
<1>1. Init => TypeOK
  BY InitType
<1>2. TypeOK /\ [Next]_vars => TypeOK'
  BY NextType
<1> QED
  BY <1>1, <1>2, PTL DEF Spec

----------------------------------------------------------------------------
(* The inductive invariant.  Each part is preserved for its own reason, so *)
(* each has a lemma, which looks only at the actions that touch it.        *)

LEMMA InitInv == Init => IInv
<1> SUFFICES ASSUME Init PROVE IInv
  OBVIOUS
<1>1. \A s \in Sources : frames[s] = <<>>
  BY DEF Init
<1>2. \A s \in Sources : \A type : ~Wrote(s, type)
  BY <1>1 DEF Wrote
<1>3. ~Verdict
  BY <1>2 DEF Verdict, Sources
<1>4. FanInv /\ EventInv /\ SlotInv
  BY DEF Init, FanInv, EventInv, SlotInv, Event
<1>5. ErrorInv
  BY <1>2 DEF Init, ErrorInv, Offers, Sources
<1>6. RowInv
  BY DEF Init, RowInv, NoRow, NewGeneration, Whole, Void
<1>7. DeliveryInv
  BY DEF Init, DeliveryInv, NewGeneration, Whole
<1>8. VerdictInv
  BY <1>2, <1>3 DEF Init, VerdictInv, InFlight, Sources
<1>9. ASSUME NEW s \in Strategies
      PROVE  Announced(s) /\ ResultIsLast(s) /\ InOrder(s)
  <2>1. frames[s] = <<>> /\ ~Holding(s) /\ ~HasResult(s) /\ worker[s] = "idle"
    BY <1>1, <1>2 DEF Init, HasResult, Holding, Sources
  <2>2. InOrder(s)
    BY <2>1 DEF InOrder
  <2> QED
    BY <2>1, <2>2 DEF Announced, ResultIsLast
<1>10. BlameInv
  BY DEF Init, BlameInv, SentryIsFailure
<1>11. StuckInv
  BY DEF Init, StuckInv, StuckHasItsCause, LeftInStreaming
<1> QED
  BY <1>4, <1>5, <1>6, <1>7, <1>8, <1>9, <1>10, <1>11, InitType
     DEF IInv, OrderInv

\* What a written frame adds to Wrote, and that nothing else changes it.
LEMMA WroteStep ==
    ASSUME TypeOK, WriteFrame, NEW s \in Sources, NEW type
    PROVE  Wrote(s, type)' <=>
             Wrote(s, type) \/ (s = frame.source /\ type = frame.type)
<1>1. frames[s] \in Seq(EventTypes)
  BY DEF TypeOK
<1>2. frame.source \in Sources /\ frame.type \in EventTypes
  BY DEF TypeOK, Events
<1>3. CASE s = frame.source
  <2>1. frames'[s] = Append(frames[s], frame.type)
    BY <1>3 DEF TypeOK, WriteFrame
  <2> QED
    BY <1>1, <1>2, <1>3, <2>1, AppendAdds DEF Wrote
<1>4. CASE s # frame.source
  <2>1. frames'[s] = frames[s]
    BY <1>4 DEF TypeOK, WriteFrame
  <2> QED
    BY <1>4, <2>1 DEF Wrote
<1> QED
  BY <1>3, <1>4

LEMMA WroteStays ==
    ASSUME UNCHANGED frames
    PROVE  /\ \A s, type : Wrote(s, type)' <=> Wrote(s, type)
           /\ Verdict' <=> Verdict
BY DEF Wrote, Verdict

\* Every step but WriteFrame leaves the frames alone.
LEMMA OnlyWriteFrame ==
    ASSUME [Next]_vars, ~WriteFrame
    PROVE  UNCHANGED frames
BY DEF Next, vars, runVars, workerVars, adapterVars, handlerVars, Disconnect,
       ServerCancels, RunStep, RefuseInput, CreateFails, Create, FanOut,
       Receive, AbandonStart, Decide, SaveTerminal, SaveTerminalFails, Report,
       DropReport, WorkerStep, Send, GiveUp, OpenFails, Open, TakeChunk,
       StreamEnds, AdapterStep, Offer, ReadDelta, ReadEnd, ReadFails,
       ReadCanceled, StopSilently, HandlerStep, WriteFails, HandlerReturns,
       Rest

\* Who may move a worker.
LEMMA WorkerMoves ==
    ASSUME [Next]_vars
    PROVE  \/ UNCHANGED <<worker, pending, variations>>
           \/ FanOut
           \/ \E s \in Strategies : WorkerStep(s)
BY DEF Next, vars, runVars, workerVars, adapterVars, handlerVars, Disconnect,
       ServerCancels, RunStep, RefuseInput, CreateFails, Create, AbandonStart,
       Decide, SaveTerminal, SaveTerminalFails, Report, DropReport,
       AdapterStep, Offer, ReadDelta, ReadEnd, ReadFails, ReadCanceled,
       StopSilently, HandlerStep, WriteFrame, WriteFails, HandlerReturns, Rest

\* Who may hand the handler an event.
LEMMA HandlerMoves ==
    ASSUME [Next]_vars
    PROVE  \/ UNCHANGED <<handler, frame>>
           \/ FanOut \/ Report \/ \E s \in Strategies : Send(s)
           \/ UNCHANGED frame /\ handler' \in {"select", "returned"}
BY DEF Next, vars, runVars, workerVars, adapterVars, handlerVars, Disconnect,
       ServerCancels, RunStep, RefuseInput, CreateFails, Create, AbandonStart,
       Decide, SaveTerminal, SaveTerminalFails, DropReport, WorkerStep,
       GiveUp, OpenFails, Open, TakeChunk, StreamEnds,
       AdapterStep, Offer, ReadDelta, ReadEnd, ReadFails, ReadCanceled,
       StopSilently, HandlerStep, WriteFrame, WriteFails, HandlerReturns, Rest

\* Who may report to Sentry.
LEMMA SentryMoves ==
    ASSUME [Next]_vars
    PROVE  \/ UNCHANGED sentry
           \/ FanOut \/ Report \/ \E s \in Strategies : Send(s)
           \/ Create \/ CreateFails
BY DEF Next, vars, runVars, workerVars, adapterVars, handlerVars, Disconnect,
       ServerCancels, RunStep, RefuseInput, AbandonStart, Decide, SaveTerminal,
       SaveTerminalFails, DropReport, WorkerStep, GiveUp, OpenFails, Open,
       TakeChunk, StreamEnds, AdapterStep, Offer, ReadDelta, ReadEnd,
       ReadFails, ReadCanceled, StopSilently, HandlerStep, WriteFrame,
       WriteFails, HandlerReturns, Rest

\* The handler never comes back.
LEMMA HandlerReturnedIsFinal ==
    ASSUME FanInv, [Next]_vars, handler = "returned"
    PROVE  UNCHANGED <<handler, sentry>>
<1>1. run # "execute"
  BY DEF FanInv
<1> QED
  BY <1>1
     DEF Next, vars, runVars, workerVars, adapterVars, handlerVars, Disconnect,
         ServerCancels, RunStep, RefuseInput, CreateFails, Create, FanOut,
         Receive, AbandonStart, Decide, SaveTerminal, SaveTerminalFails,
         Report, DropReport, WorkerStep, Send, GiveUp, OpenFails, Open,
         TakeChunk, StreamEnds, AdapterStep, Offer, ReadDelta, ReadEnd,
         ReadFails, ReadCanceled, StopSilently, HandlerStep, WriteFrame,
         WriteFails, HandlerReturns, Rest

LEMMA FanStep == TypeOK /\ FanInv /\ [Next]_vars => FanInv'
<1> SUFFICES ASSUME TypeOK, FanInv, [Next]_vars PROVE FanInv'
  OBVIOUS
<1> USE DEF vars, runVars, workerVars, adapterVars, handlerVars
<1>1. CASE UNCHANGED <<run, worker, handler>>
  BY <1>1 DEF FanInv, AllExited
<1>2. CASE RunStep
  <2>1. CASE RefuseInput \/ CreateFails \/ Create
    BY <2>1 DEF FanInv, RefuseInput, CreateFails, Create, AllExited
  <2>2. CASE FanOut
    BY <2>2 DEF FanInv, FanOut, Receive, AllExited
  <2>3. CASE AbandonStart \/ DropReport
    BY <2>3 DEF FanInv, AbandonStart, DropReport, AllExited
  <2>4. CASE Decide \/ SaveTerminal \/ SaveTerminalFails
    BY <2>4 DEF FanInv, Decide, SaveTerminal, SaveTerminalFails, AllExited
  <2>5. CASE Report
    BY <2>5 DEF FanInv, Report, Receive, AllExited
  <2> QED
    BY <1>2, <2>1, <2>2, <2>3, <2>4, <2>5 DEF RunStep
<1>3. ASSUME NEW s \in Strategies, WorkerStep(s) PROVE FanInv'
  <2>1. /\ worker[s] \notin {"idle", "exited"}
        /\ UNCHANGED run
        /\ \E pc \in Workers \ {"idle"} :
              worker' = [worker EXCEPT ![s] = pc]
        /\ UNCHANGED handler \/ (handler = "select" /\ handler' = "write")
    BY <1>3 DEF WorkerStep, Send, GiveUp, OpenFails, Open, TakeChunk,
                StreamEnds, Offers, AfterSend, Receive, Workers
  <2>2. run = "wait"
    BY <2>1 DEF FanInv, AllExited, TypeOK, Runs
  <2> QED
    BY <2>1, <2>2 DEF FanInv, TypeOK
<1>4. ASSUME NEW s \in Strategies, AdapterStep(s) PROVE FanInv'
  BY <1>1, <1>4 DEF AdapterStep, ReadDelta, ReadEnd, ReadFails, ReadCanceled,
                    StopSilently, Offer
<1>5. CASE HandlerStep
  BY <1>5 DEF FanInv, HandlerStep, WriteFrame, WriteFails, HandlerReturns,
              AllExited
<1>6. CASE Disconnect \/ ServerCancels \/ Rest
  BY <1>1, <1>6 DEF Disconnect, ServerCancels, Rest
<1> QED
  BY <1>1, <1>2, <1>3, <1>4, <1>5, <1>6 DEF Next

LEMMA EventStep ==
    TypeOK /\ FanInv /\ EventInv /\ [Next]_vars => EventInv'
<1> SUFFICES ASSUME TypeOK, FanInv, EventInv, [Next]_vars PROVE EventInv'
  OBVIOUS
<1> USE DEF vars, runVars, workerVars, adapterVars, handlerVars
<1>1. report'.source = Aggregate /\ report'.type \in {"done", "error"}
  <2>1. CASE UNCHANGED report
    BY <2>1 DEF EventInv
  <2>2. CASE SaveTerminal \/ SaveTerminalFails
    BY <2>2 DEF SaveTerminal, TerminalEvent, SaveTerminalFails, Event, ErrorEvent
  <2>3. UNCHANGED report \/ SaveTerminal \/ SaveTerminalFails
    BY DEF Next, Disconnect, ServerCancels, RunStep, RefuseInput, CreateFails,
           Create, FanOut, AbandonStart, Decide, Report, DropReport,
           WorkerStep, Send, GiveUp, OpenFails, Open, TakeChunk, StreamEnds,
           AdapterStep, Offer, ReadDelta, ReadEnd, ReadFails, ReadCanceled,
           StopSilently, HandlerStep, WriteFrame, WriteFails, HandlerReturns,
           Rest
  <2> QED
    BY <2>1, <2>2, <2>3
<1>2. ASSUME NEW s \in Strategies
      PROVE  /\ pending'[s].source = s
             /\ pending'[s].type # "done"
             /\ worker'[s] \in {"idle", "announce"} =>
                   pending'[s].type = "variation_started"
  <2>1. CASE UNCHANGED <<worker, pending>>
    BY <2>1 DEF EventInv
  <2>2. CASE FanOut
    BY <2>2 DEF FanInv, EventInv, FanOut
  <2>3. ASSUME NEW t \in Strategies, WorkerStep(t) PROVE <1>2!2
    <3>1. CASE Send(t) \/ GiveUp(t) \/ Open(t) \/ StreamEnds(t)
      BY <3>1 DEF EventInv, TypeOK, Send, GiveUp, Open, StreamEnds, Offers,
                  AfterSend
    <3>2. CASE OpenFails(t)
      BY <3>2 DEF EventInv, TypeOK, OpenFails, ErrorEvent
    <3>3. CASE TakeChunk(t)
      <4>1. chunk[t].type # "done"
        BY DEF TypeOK, Chunks
      <4> QED
        BY <3>3, <4>1 DEF EventInv, TypeOK, TakeChunk
    <3> QED
      BY <2>3, <3>1, <3>2, <3>3 DEF WorkerStep
  <2> QED
    BY <2>1, <2>2, <2>3, WorkerMoves
<1> QED
  BY <1>1, <1>2 DEF EventInv

\* firstErr is recorded at most once, and the context is never undone.
LEMMA ErrStays ==
    ASSUME TypeOK, [Next]_vars
    PROVE  /\ firstErr # "nil" => firstErr' = firstErr
           /\ ctxDone => ctxDone'
BY DEF Next, vars, runVars, workerVars, adapterVars, handlerVars, Disconnect,
       ServerCancels, RunStep, RefuseInput, CreateFails, Create, FanOut,
       AbandonStart, Decide, SaveTerminal, SaveTerminalFails, Report,
       DropReport, WorkerStep, Send, GiveUp, OpenFails, Open, TakeChunk,
       StreamEnds, RecordErr, AdapterStep, Offer, ReadDelta, ReadEnd,
       ReadFails, ReadCanceled, StopSilently, HandlerStep, WriteFrame,
       WriteFails, HandlerReturns, Rest

LEMMA ErrorStep ==
    TypeOK /\ FanInv /\ EventInv /\ ErrorInv /\ [Next]_vars => ErrorInv'
<1> SUFFICES ASSUME TypeOK, FanInv, EventInv, ErrorInv, [Next]_vars,
                    NEW s \in Strategies
             PROVE  /\ adapter'[s] = "sending" /\ chunk'[s].type = "error" =>
                         chunk'[s].err # "nil"
                    /\ worker'[s] = "fail" => firstErr' # "nil"
                    /\ Offers(s)' /\ pending'[s].type = "error" =>
                         firstErr' # "nil"
                    /\ handler' = "write" /\ frame'.source = s
                         /\ frame'.type = "error" => firstErr' # "nil"
                    /\ Wrote(s, "error")' => firstErr' # "nil"
  BY DEF ErrorInv
<1> USE DEF vars, runVars, workerVars, adapterVars, handlerVars
<1>1. firstErr # "nil" => firstErr' # "nil"
  BY ErrStays
<1>2. s \in Sources /\ s # Aggregate
  BY AggregateAssumption DEF Sources
<1>3. Wrote(s, "error")' => firstErr' # "nil"
  <2>1. CASE WriteFrame
    BY <1>1, <1>2, <2>1, WroteStep DEF ErrorInv, WriteFrame
  <2>2. CASE ~WriteFrame
    BY <1>1, <2>2, OnlyWriteFrame, WroteStays DEF ErrorInv
  <2> QED
    BY <2>1, <2>2
<1>4. adapter'[s] = "sending" /\ chunk'[s].type = "error" =>
        chunk'[s].err # "nil"
  <2>1. CASE UNCHANGED <<chunk, adapter>>
    BY <2>1 DEF ErrorInv
  <2>2. ASSUME NEW t \in Strategies, AdapterStep(t) PROVE <1>4
    BY <2>2 DEF ErrorInv, TypeOK, AdapterStep, ReadDelta, ReadEnd, ReadFails,
                ReadCanceled, StopSilently, Offer
  <2>3. ASSUME NEW t \in Strategies, Open(t) \/ TakeChunk(t) PROVE <1>4
    BY <2>3 DEF ErrorInv, TypeOK, Open, TakeChunk
  <2>4. \/ UNCHANGED <<chunk, adapter>>
        \/ \E t \in Strategies : AdapterStep(t) \/ Open(t) \/ TakeChunk(t)
    BY DEF Next, Disconnect, ServerCancels, RunStep, RefuseInput, CreateFails,
           Create, FanOut, AbandonStart, Decide, SaveTerminal,
           SaveTerminalFails, Report, DropReport, WorkerStep, Send, GiveUp,
           OpenFails, StreamEnds, HandlerStep, WriteFrame, WriteFails,
           HandlerReturns, Rest
  <2> QED
    BY <2>1, <2>2, <2>3, <2>4
<1>5. /\ worker'[s] = "fail" => firstErr' # "nil"
      /\ Offers(s)' /\ pending'[s].type = "error" => firstErr' # "nil"
  <2>1. CASE UNCHANGED <<worker, pending>>
    BY <1>1, <2>1 DEF ErrorInv, Offers
  <2>2. CASE FanOut
    BY <2>2 DEF FanInv, EventInv, FanOut
  <2>3. ASSUME NEW t \in Strategies, WorkerStep(t) PROVE <1>5
    <3>1. CASE Send(t) \/ GiveUp(t) \/ Open(t) \/ StreamEnds(t)
      BY <1>1, <3>1 DEF ErrorInv, TypeOK, Send, GiveUp, Open, StreamEnds,
                        Offers, AfterSend
    <3>2. CASE OpenFails(t)
      BY <3>2 DEF ErrorInv, OpenFails, RecordErr
    <3>3. CASE TakeChunk(t)
      BY <1>1, <3>3 DEF ErrorInv, TypeOK, TakeChunk, RecordErr, Offers
    <3> QED
      BY <2>3, <3>1, <3>2, <3>3 DEF WorkerStep
  <2> QED
    BY <2>1, <2>2, <2>3, WorkerMoves
<1>6. handler' = "write" /\ frame'.source = s /\ frame'.type = "error" =>
        firstErr' # "nil"
  <2>1. CASE UNCHANGED <<handler, frame>>
    BY <1>1, <2>1 DEF ErrorInv
  <2>2. CASE FanOut
    BY <1>2, <2>2 DEF FanOut, Receive, Event
  <2>3. CASE Report
    BY <1>2, <2>3 DEF EventInv, Report, Receive
  <2>4. ASSUME NEW t \in Strategies, Send(t) PROVE <1>6
    BY <1>1, <2>4 DEF EventInv, ErrorInv, Send, Receive
  <2> QED
    BY <2>1, <2>2, <2>3, <2>4, HandlerMoves
<1> QED
  BY <1>3, <1>4, <1>5, <1>6

LEMMA SlotStep ==
    TypeOK /\ FanInv /\ ErrorInv /\ SlotInv /\ [Next]_vars => SlotInv'
<1> SUFFICES ASSUME TypeOK, FanInv, ErrorInv, SlotInv, [Next]_vars,
                    NEW s \in Strategies,
                    adapter'[s] = "closed" \/ worker'[s] = "exited"
             PROVE  s \in variations' \/ firstErr' # "nil" \/ ctxDone'
  BY DEF SlotInv
<1> USE DEF vars, runVars, workerVars, adapterVars, handlerVars
<1>1. (firstErr # "nil" => firstErr' # "nil") /\ (ctxDone => ctxDone')
  BY ErrStays
<1>2. CASE UNCHANGED <<worker, adapter, variations>>
  BY <1>1, <1>2 DEF SlotInv
<1>3. CASE FanOut
  BY <1>1, <1>3 DEF SlotInv, FanOut
<1>4. ASSUME NEW t \in Strategies, WorkerStep(t)
      PROVE  s \in variations' \/ firstErr' # "nil" \/ ctxDone'
  <2>1. CASE Send(t)
    BY <1>1, <2>1 DEF SlotInv, ErrorInv, TypeOK, Send, Offers, AfterSend
  <2>2. CASE GiveUp(t) \/ Open(t) \/ StreamEnds(t)
    BY <1>1, <2>2 DEF SlotInv, TypeOK, GiveUp, Open, StreamEnds
  <2>3. CASE OpenFails(t)
    BY <2>3 DEF OpenFails, RecordErr
  <2>4. CASE TakeChunk(t)
    <3>1. chunk[t].type \in {"token", "variation_completed", "error"}
      BY DEF TypeOK, Chunks
    <3> QED
      BY <1>1, <2>4, <3>1
         DEF SlotInv, ErrorInv, TypeOK, TakeChunk, AfterChunk, RecordErr
  <2> QED
    BY <1>4, <2>1, <2>2, <2>3, <2>4 DEF WorkerStep
<1>5. ASSUME NEW t \in Strategies, AdapterStep(t)
      PROVE  s \in variations' \/ firstErr' # "nil" \/ ctxDone'
  BY <1>1, <1>5 DEF SlotInv, TypeOK, AdapterStep, ReadDelta, ReadEnd,
                    ReadFails, ReadCanceled, StopSilently, Offer
<1>6. \/ UNCHANGED <<worker, adapter, variations>>
      \/ FanOut
      \/ \E t \in Strategies : WorkerStep(t) \/ AdapterStep(t)
  BY DEF Next, Disconnect, ServerCancels, RunStep, RefuseInput, CreateFails,
         Create, AbandonStart, Decide, SaveTerminal, SaveTerminalFails,
         Report, DropReport, HandlerStep, WriteFrame, WriteFails,
         HandlerReturns, Rest
<1> QED
  BY <1>2, <1>3, <1>4, <1>5, <1>6

\* The three rows differ.
LEMMA RowsDiffer ==
    /\ NoRow # NewGeneration /\ NoRow # Whole /\ NoRow # Void
    /\ NewGeneration # Whole /\ NewGeneration # Void /\ Whole # Void
BY DEF NoRow, NewGeneration, Whole, Void

\* Only a worker that is still running, or run itself, records an error.
LEMMA ErrMoves ==
    ASSUME FanInv, [Next]_vars
    PROVE  \/ UNCHANGED firstErr
           \/ Decide
           \/ \E s \in Strategies : worker[s] \in {"open", "range"}
BY DEF Next, vars, runVars, workerVars, adapterVars, handlerVars, Disconnect,
       ServerCancels, RunStep, RefuseInput, CreateFails, Create, FanOut,
       AbandonStart, SaveTerminal, SaveTerminalFails, Report, DropReport,
       WorkerStep, Send, GiveUp, OpenFails, Open, TakeChunk, StreamEnds,
       AdapterStep, Offer, ReadDelta, ReadEnd, ReadFails, ReadCanceled,
       StopSilently, HandlerStep, WriteFrame, WriteFails, HandlerReturns, Rest

\* A worker that has exited does not come back while run is past the fan-out.
LEMMA ExitedStays ==
    ASSUME TypeOK, FanInv, [Next]_vars, AllExited, run # "started"
    PROVE  AllExited'
<1>1. CASE UNCHANGED worker
  BY <1>1 DEF AllExited
<1>2. CASE FanOut
  BY <1>2 DEF FanOut
<1>3. ASSUME NEW s \in Strategies, WorkerStep(s) PROVE FALSE
  BY <1>3 DEF AllExited, WorkerStep, Send, GiveUp, OpenFails, Open, TakeChunk,
              StreamEnds, Offers
<1> QED
  BY <1>1, <1>2, <1>3, WorkerMoves

LEMMA RowStep ==
    TypeOK /\ FanInv /\ SlotInv /\ RowInv /\ [Next]_vars => RowInv'
<1> SUFFICES ASSUME TypeOK, FanInv, SlotInv, RowInv, [Next]_vars PROVE RowInv'
  OBVIOUS
<1> USE DEF vars, runVars, workerVars, adapterVars, handlerVars
<1>1. (firstErr # "nil" => firstErr' # "nil") /\ (ctxDone => ctxDone')
  BY ErrStays
<1>2. gen = Whole => AllExited' /\ firstErr' = "nil"
  <2> SUFFICES ASSUME gen = Whole PROVE AllExited' /\ firstErr' = "nil"
    OBVIOUS
  <2>1. AllExited /\ firstErr = "nil" /\ run \notin {"started", "wait"}
    BY RowsDiffer DEF RowInv
  <2>2. AllExited'
    BY <2>1, ExitedStays
  <2>3. ~Decide /\ \A s \in Strategies : worker[s] \notin {"open", "range"}
    BY <2>1 DEF Decide, AllExited
  <2> QED
    BY <2>1, <2>2, <2>3, ErrMoves
<1>3. CASE UNCHANGED <<run, db, gen, handler>>
  BY <1>1, <1>2, <1>3 DEF RowInv
<1>4. CASE RefuseInput \/ CreateFails \/ Create
  BY <1>1, <1>2, <1>4, RowsDiffer
     DEF RowInv, RefuseInput, CreateFails, Create
<1>5. CASE FanOut \/ AbandonStart
  BY <1>1, <1>2, <1>5, RowsDiffer DEF RowInv, FanOut, AbandonStart, Receive
<1>6. CASE Decide
  <2>0. gen = NewGeneration /\ db = NewGeneration
    BY <1>6 DEF RowInv, Decide
  <2>1. gen' \in {Whole, Void}
    <3>1. CASE ctxDone \/ firstErr # "nil"
      BY <1>6, <2>0, <3>1 DEF Decide, Failing, NewGeneration, Void
    <3>2. CASE ~ctxDone /\ firstErr = "nil"
      <4>1. variations = Strategies
        BY <1>6, <3>2 DEF Decide, Failing, AllExited, SlotInv, TypeOK
      <4> QED
        BY <1>6, <3>2, <4>1 DEF Decide, Failing, Whole
    <3> QED
      BY <3>1, <3>2
  <2>2. gen' = Void => firstErr' # "nil"
    BY <1>6, <2>0, RowsDiffer DEF Decide, Failing, NewGeneration, Whole, Void
  <2>3. gen' = Whole => AllExited' /\ firstErr' = "nil"
    BY <1>6, <2>1 DEF Decide, Failing, NewGeneration, Whole, AllExited
  <2> QED
    BY <1>6, <2>0, <2>1, <2>2, <2>3, RowsDiffer DEF RowInv, Decide, Failing
<1>7. CASE SaveTerminal \/ SaveTerminalFails
  BY <1>1, <1>2, <1>7, RowsDiffer DEF RowInv, SaveTerminal, SaveTerminalFails
<1>8. CASE Report \/ DropReport
  BY <1>1, <1>2, <1>8, RowsDiffer DEF RowInv, Report, DropReport, Receive
<1>9. ASSUME NEW s \in Strategies, Send(s) PROVE RowInv'
  BY <1>1, <1>2, <1>9 DEF RowInv, Send, Receive
<1>10. CASE HandlerStep
  BY <1>1, <1>2, <1>10
     DEF RowInv, HandlerStep, WriteFrame, WriteFails, HandlerReturns
<1>11. \/ UNCHANGED <<run, db, gen, handler>>
       \/ RunStep \/ HandlerStep \/ \E s \in Strategies : Send(s)
  BY DEF Next, Disconnect, ServerCancels, WorkerStep, GiveUp, OpenFails, Open,
         TakeChunk, StreamEnds, AdapterStep, Offer, ReadDelta, ReadEnd,
         ReadFails, ReadCanceled, StopSilently, Rest
<1> QED
  BY <1>3, <1>4, <1>5, <1>6, <1>7, <1>8, <1>9, <1>10, <1>11 DEF RunStep

\* A frame the handler holds is written or lost with its connection.
LEMMA HandlerKeeps ==
    ASSUME FanInv, [Next]_vars, ~WriteFrame, handler \in {"write", "returned"}
    PROVE  handler' = "returned" \/ UNCHANGED <<handler, frame>>
<1> USE DEF vars, runVars, workerVars, adapterVars, handlerVars
<1>1. run # "execute"
  BY DEF FanInv
<1> QED
  BY <1>1
     DEF Next, Disconnect, ServerCancels, RunStep, RefuseInput, CreateFails,
         Create, FanOut, Receive, AbandonStart, Decide, SaveTerminal,
         SaveTerminalFails, Report, DropReport, WorkerStep, Send, GiveUp,
         OpenFails, Open, TakeChunk, StreamEnds, AdapterStep, Offer, ReadDelta,
         ReadEnd, ReadFails, ReadCanceled, StopSilently, HandlerStep,
         WriteFails, HandlerReturns, Rest

LEMMA ToldStays ==
    ASSUME TypeOK, FanInv, [Next]_vars, NEW s \in Strategies, Told(s)
    PROVE  Told(s)'
<1>1. CASE WriteFrame
  BY <1>1, WroteStep DEF Told, Sources, WriteFrame
<1>2. CASE ~WriteFrame
  <2>1. Wrote(s, "variation_completed")' <=> Wrote(s, "variation_completed")
    BY <1>2, OnlyWriteFrame, WroteStays
  <2> QED
    BY <1>2, <2>1, HandlerKeeps DEF Told
<1> QED
  BY <1>1, <1>2

LEMMA DeliveryStep ==
    TypeOK /\ FanInv /\ EventInv /\ SlotInv /\ RowInv /\ DeliveryInv
      /\ [Next]_vars => DeliveryInv'
<1> SUFFICES ASSUME TypeOK, FanInv, EventInv, SlotInv, RowInv, DeliveryInv,
                    [Next]_vars, NEW s \in Strategies
             PROVE  /\ s \in variations' =>
                          \/ Told(s)'
                          \/ Offers(s)' /\ pending'[s].type
                                             = "variation_completed"
                          \/ ctxDone'
                    /\ gen' = Whole => Told(s)'
  BY DEF DeliveryInv
<1> USE DEF vars, runVars, workerVars, adapterVars, handlerVars
<1> DEFINE Offered == Offers(s) /\ pending[s].type = "variation_completed"
<1>1. (Told(s) => Told(s)') /\ (ctxDone => ctxDone')
  BY ToldStays, ErrStays
<1>2. s \in variations' => Told(s)' \/ Offered' \/ ctxDone'
  <2>1. CASE UNCHANGED <<worker, pending, variations>>
    BY <1>1, <2>1 DEF DeliveryInv, Offers
  <2>2. CASE FanOut
    BY <1>1, <2>2 DEF DeliveryInv, FanInv, FanOut, Offers
  <2>3. ASSUME NEW t \in Strategies, WorkerStep(t)
        PROVE  s \in variations' => Told(s)' \/ Offered' \/ ctxDone'
    <3>1. CASE t # s
      BY <1>1, <2>3, <3>1
         DEF DeliveryInv, TypeOK, WorkerStep, Send, GiveUp, OpenFails, Open,
             TakeChunk, StreamEnds, Offers
    <3>2. CASE Send(s)
      BY <1>1, <3>2 DEF DeliveryInv, EventInv, Send, Receive, Told
    <3>3. CASE GiveUp(s)
      BY <1>1, <3>3 DEF GiveUp
    <3>4. CASE OpenFails(s) \/ Open(s) \/ StreamEnds(s)
      BY <1>1, <3>4
         DEF DeliveryInv, TypeOK, OpenFails, Open, StreamEnds, Offers
    <3>5. CASE TakeChunk(s)
      BY <1>1, <3>5 DEF DeliveryInv, TypeOK, TakeChunk, Offers
    <3> QED
      BY <2>3, <3>1, <3>2, <3>3, <3>4, <3>5 DEF WorkerStep
  <2> QED
    BY <2>1, <2>2, <2>3, WorkerMoves
<1>3. gen' = Whole => Told(s)'
  <2>1. CASE UNCHANGED gen
    BY <1>1, <2>1 DEF DeliveryInv
  <2>2. CASE Decide
    <3> SUFFICES ASSUME gen' = Whole PROVE Told(s)
      BY <1>1
    <3>1. ~ctxDone /\ variations = Strategies /\ ~Offers(s)
      <4>1. gen = NewGeneration
        BY <2>2 DEF RowInv, Decide
      <4>2. ~ctxDone /\ firstErr = "nil"
        BY <2>2, <4>1 DEF Decide, Failing, NewGeneration, Whole
      <4> QED
        BY <2>2, <4>2 DEF Decide, Failing, Whole, AllExited, Offers
    <3> QED
      BY <3>1 DEF DeliveryInv
  <2>3. UNCHANGED gen \/ Decide
    BY DEF Next, Disconnect, ServerCancels, RunStep, RefuseInput, CreateFails,
           Create, FanOut, AbandonStart, SaveTerminal, SaveTerminalFails,
           Report, DropReport, WorkerStep, Send, GiveUp, OpenFails, Open,
           TakeChunk, StreamEnds, AdapterStep, Offer, ReadDelta, ReadEnd,
           ReadFails, ReadCanceled, StopSilently, HandlerStep, WriteFrame,
           WriteFails, HandlerReturns, Rest
  <2> QED
    BY <2>1, <2>2, <2>3
<1> QED
  BY <1>2, <1>3

\* Once run has returned, no goroutine is left to send.
LEMMA ReturnedIsFinal ==
    ASSUME FanInv, [Next]_vars, run = "returned"
    PROVE  /\ run' = "returned" /\ db' = db
           /\ UNCHANGED sentry
           /\ handler' = "write" => UNCHANGED <<handler, frame>>
<1> USE DEF vars, runVars, workerVars, adapterVars, handlerVars
<1>1. \A s \in Strategies : worker[s] \in {"idle", "exited"}
  BY DEF FanInv, AllExited
<1>2. handler # "execute"
  BY DEF FanInv
<1> QED
  BY <1>1, <1>2
     DEF Next, Disconnect, ServerCancels, RunStep, RefuseInput, CreateFails,
         Create, FanOut, AbandonStart, Decide, SaveTerminal,
         SaveTerminalFails, Report, DropReport, WorkerStep, Send, GiveUp,
         OpenFails, Open, TakeChunk, StreamEnds, Offers, AdapterStep, Offer,
         ReadDelta, ReadEnd, ReadFails, ReadCanceled, StopSilently,
         HandlerStep, WriteFrame, WriteFails, HandlerReturns, Rest

LEMMA VerdictStep ==
    IInv /\ [Next]_vars => VerdictInv'
<1> SUFFICES ASSUME IInv, [Next]_vars PROVE VerdictInv'
  OBVIOUS
<1> USE DEF vars, runVars, workerVars, adapterVars, handlerVars
<1>0. /\ TypeOK /\ FanInv /\ EventInv /\ RowInv /\ DeliveryInv /\ VerdictInv
      /\ Aggregate \in Sources
      /\ \A s \in Strategies : s \in Sources /\ s # Aggregate
  BY AggregateAssumption DEF IInv, Sources
<1>1. \A s \in Sources : \A type :
        Wrote(s, type)' <=>
          \/ Wrote(s, type)
          \/ WriteFrame /\ s = frame.source /\ type = frame.type
  <2>1. CASE WriteFrame
    BY <1>0, <2>1, WroteStep
  <2>2. CASE ~WriteFrame
    BY <2>2, OnlyWriteFrame, WroteStays
  <2> QED
    BY <2>1, <2>2
<1>2. Verdict' => Verdict \/ (WriteFrame /\ InFlight)
  BY <1>0, <1>1 DEF Verdict, InFlight, WriteFrame
<1>3. InFlight' =>
        \/ Report /\ handler = "select"
        \/ InFlight /\ UNCHANGED <<handler, frame>>
  <2>1. CASE UNCHANGED <<handler, frame>>
    BY <2>1 DEF InFlight
  <2>2. CASE FanOut
    BY <2>2 DEF InFlight, FanOut, Receive, Event
  <2>3. CASE Report
    BY <2>3 DEF Report, Receive
  <2>4. ASSUME NEW s \in Strategies, Send(s) PROVE ~InFlight'
    BY <1>0, <2>4 DEF InFlight, Send, Receive, EventInv
  <2> QED
    BY <2>1, <2>2, <2>3, <2>4, HandlerMoves DEF InFlight
<1>4. InFlight' \/ Verdict' => run' = "returned"
  BY <1>0, <1>2, <1>3, ReturnedIsFinal DEF VerdictInv, Report
<1>5. Verdict' => handler' # "write" /\ db' # NoRow
  <2>1. CASE Verdict
    BY <1>0, <2>1, ReturnedIsFinal DEF VerdictInv
  <2>2. CASE WriteFrame /\ InFlight
    BY <1>0, <2>2 DEF WriteFrame, RowInv
  <2> QED
    BY <1>2, <2>1, <2>2
<1>6. run' = "report" /\ report'.type = "done" => db' = Whole /\ gen' = Whole
  <2>1. CASE UNCHANGED <<run, report, db, gen>>
    BY <1>0, <2>1 DEF VerdictInv
  <2>2. CASE SaveTerminal
    BY <1>0, <2>2 DEF SaveTerminal, TerminalEvent, RowInv, ErrorEvent
  <2>3. CASE SaveTerminalFails
    BY <2>3 DEF SaveTerminalFails, ErrorEvent
  <2>4. \/ UNCHANGED <<run, report, db, gen>>
        \/ SaveTerminal \/ SaveTerminalFails \/ run' # "report"
    BY DEF Next, Disconnect, ServerCancels, RunStep, RefuseInput, CreateFails,
           Create, FanOut, AbandonStart, Decide, Report, DropReport,
           WorkerStep, Send, GiveUp, OpenFails, Open, TakeChunk, StreamEnds,
           AdapterStep, Offer, ReadDelta, ReadEnd, ReadFails, ReadCanceled,
           StopSilently, HandlerStep, WriteFrame, WriteFails, HandlerReturns,
           Rest
  <2> QED
    BY <2>1, <2>2, <2>3, <2>4
<1>7. (InFlight /\ frame.type = "done")' \/ Wrote(Aggregate, "done")' =>
        /\ db' = Whole
        /\ \A s \in Strategies : Wrote(s, "variation_completed")'
  <2> DEFINE Backed == /\ db = Whole
                       /\ \A s \in Strategies :
                             Wrote(s, "variation_completed")
  <2>1. CASE (InFlight /\ frame.type = "done") \/ Wrote(Aggregate, "done")
    <3>1. run = "returned" /\ Backed
      BY <1>0, <2>1 DEF VerdictInv, Verdict
    <3> QED
      BY <1>0, <1>1, <3>1, ReturnedIsFinal
  <2>2. CASE Report /\ handler = "select" /\ frame'.type = "done"
    <3>1. db = Whole /\ gen = Whole /\ db' = db
      BY <1>0, <2>2 DEF VerdictInv, Report, Receive
    <3>2. \A s \in Strategies : Wrote(s, "variation_completed")
      BY <1>0, <2>2, <3>1 DEF DeliveryInv, Told
    <3> QED
      BY <1>0, <1>1, <3>1, <3>2
  <2>3. (InFlight /\ frame.type = "done")' =>
          \/ InFlight /\ frame.type = "done"
          \/ Report /\ handler = "select" /\ frame'.type = "done"
    BY <1>3
  <2>4. Wrote(Aggregate, "done")' =>
          Wrote(Aggregate, "done") \/ (InFlight /\ frame.type = "done")
    BY <1>0, <1>1 DEF InFlight, WriteFrame
  <2> QED
    BY <2>1, <2>2, <2>3, <2>4
<1>8. sentry' # 0 => /\ sentry' = 1
                     /\ run' = "returned" \/ handler' = "returned"
  <2>1. CASE sentry # 0
    BY <1>0, <2>1, ReturnedIsFinal, HandlerReturnedIsFinal DEF VerdictInv
  <2>2. CASE sentry = 0
    <3>1. CASE UNCHANGED sentry
      BY <2>2, <3>1
    <3>2. CASE FanOut
      BY <2>2, <3>2 DEF FanOut, Receive, IsReported, Event
    <3>3. CASE Report
      BY <2>2, <3>3 DEF Report, Receive
    <3>4. ASSUME NEW s \in Strategies, Send(s) PROVE UNCHANGED sentry
      BY <1>0, <3>4 DEF Send, Receive, IsReported, EventInv
    <3>5. CASE Create \/ CreateFails
      BY <2>2, <3>5 DEF Create, CreateFails
    <3> QED
      BY <3>1, <3>2, <3>3, <3>4, <3>5, SentryMoves
  <2> QED
    BY <2>1, <2>2
<1> QED
  BY <1>4, <1>5, <1>6, <1>7, <1>8 DEF VerdictInv

----------------------------------------------------------------------------
(* The order of a strategy's frames.                                       *)

LEMMA FrameTyped == TypeOK => frame.type \in EventTypes /\ frame.source \in Sources
BY DEF TypeOK, Events

\* A worker's step is about its own strategy, and writes no frame.
LEMMA WorkerActs ==
    ASSUME TypeOK, NEW t \in Strategies, WorkerStep(t)
    PROVE  /\ \A s \in Strategies \ {t} :
                 /\ worker'[s] = worker[s]
                 /\ pending'[s] = pending[s]
                 /\ adapter'[s] = adapter[s]
           /\ UNCHANGED frames
           /\ \/ UNCHANGED <<handler, frame>>
              \/ Send(t)
BY DEF TypeOK, WorkerStep, Send, Receive, GiveUp, OpenFails, Open, TakeChunk,
       StreamEnds, vars, runVars, workerVars, adapterVars, handlerVars

LEMMA AnnouncedStep ==
    ASSUME TypeOK, FanInv, EventInv, OrderInv, [Next]_vars,
           NEW s \in Strategies
    PROVE  Announced(s)'
<1> USE DEF vars, runVars, workerVars, adapterVars, handlerVars
<1>0. /\ Announced(s) /\ InOrder(s)
      /\ s \in Sources /\ s # Aggregate /\ Aggregate \in Sources
      /\ frames[s] \in Seq(EventTypes)
  BY AggregateAssumption DEF OrderInv, Sources, TypeOK
<1>1. CASE WriteFrame
  <2>1. Wrote(Aggregate, "generation_started")' <=>
          \/ Wrote(Aggregate, "generation_started")
          \/ Aggregate = frame.source /\ "generation_started" = frame.type
    BY <1>0, <1>1, WroteStep
  <2>2. ~Holding(s)' /\ UNCHANGED <<worker, pending>>
    BY <1>1 DEF WriteFrame, Holding
  <2>3. frames'[s] = IF Holding(s) THEN Append(frames[s], frame.type)
                                   ELSE frames[s]
    BY <1>0, <1>1 DEF TypeOK, WriteFrame, Holding
  <2>4. Holding(s) => frames'[s] # <<>>
    BY <1>0, <2>3, FrameTyped, AppendGrows
  <2> QED
    BY <1>0, <1>1, <2>1, <2>2, <2>3, <2>4 DEF Announced, WriteFrame, Holding
<1>2. ASSUME UNCHANGED frames
      PROVE  Wrote(Aggregate, "generation_started")' <=>
               Wrote(Aggregate, "generation_started")
  BY <1>2, WroteStays
<1>3. CASE FanOut
  BY <1>0, <1>2, <1>3 DEF FanOut, Receive, Announced, FanInv, Event, Holding
<1>4. CASE Report
  BY <1>0, <1>2, <1>4 DEF Report, Receive, Announced, EventInv, Holding
<1>5. ASSUME NEW t \in Strategies, WorkerStep(t)
      PROVE  Announced(s)'
  <2>1. CASE Send(t) /\ t = s
    BY <1>0, <1>2, <2>1
       DEF Send, Receive, Announced, TypeOK, EventInv, Offers, AfterSend, Holding
  <2>2. CASE Send(t) /\ t # s
    BY <1>0, <1>2, <2>2
       DEF Send, Receive, Announced, TypeOK, EventInv, Holding
  <2>3. CASE ~Send(t) /\ t # s
    BY <1>0, <1>2, <1>5, <2>3, WorkerActs DEF Announced, Holding
  <2>4. CASE ~Send(t) /\ t = s
    <3>1. CASE GiveUp(s) \/ StreamEnds(s) \/ Open(s)
      BY <1>0, <1>2, <3>1
         DEF GiveUp, StreamEnds, Open, Announced, TypeOK, Offers, Holding
    <3>2. CASE OpenFails(s)
      BY <1>0, <1>2, <3>2 DEF OpenFails, Announced, TypeOK, ErrorEvent, Holding
    <3>3. CASE TakeChunk(s)
      <4>1. chunk[s].type # "variation_started"
        BY DEF TypeOK, Chunks
      <4> QED
        BY <1>0, <1>2, <3>3, <4>1 DEF TakeChunk, Announced, TypeOK, Holding
    <3> QED
      BY <1>5, <2>4, <3>1, <3>2, <3>3 DEF WorkerStep
  <2> QED
    BY <2>1, <2>2, <2>3, <2>4
<1>6. CASE UNCHANGED <<worker, pending, frames, frame>>
             /\ (UNCHANGED handler \/ handler' = "returned")
  BY <1>0, <1>2, <1>6 DEF Announced, Holding
<1>7. CASE Create
  BY <1>0, <1>2, <1>7 DEF Create, Announced, FanInv, Holding
<1>8. \/ WriteFrame \/ FanOut \/ Report \/ Create
      \/ \E t \in Strategies : WorkerStep(t)
      \/ /\ UNCHANGED <<worker, pending, frames, frame>>
         /\ UNCHANGED handler \/ handler' = "returned"
  BY DEF Next, Disconnect, ServerCancels, RunStep, RefuseInput, CreateFails,
         AbandonStart, Decide, SaveTerminal, SaveTerminalFails, DropReport,
         AdapterStep, Offer, ReadDelta, ReadEnd, ReadFails, ReadCanceled,
         StopSilently, HandlerStep, WriteFails, HandlerReturns, Rest
<1> QED
  BY <1>1, <1>3, <1>4, <1>5, <1>6, <1>7, <1>8

\* A frame that is written is the next of its strategy's.
LEMMA FrameWritten ==
    ASSUME TypeOK, WriteFrame, NEW s \in Strategies
    PROVE  /\ ~Holding(s)'
           /\ frames'[s] = IF Holding(s) THEN Append(frames[s], frame.type)
                                         ELSE frames[s]
           /\ HasResult(s)' <=>
                 HasResult(s) \/ (Holding(s) /\ frame.type \in Results)
<1>1. s \in Sources /\ frame.source \in Sources
  BY FrameTyped DEF Sources
<1>2. \A type : Wrote(s, type)' <=>
                  Wrote(s, type) \/ (s = frame.source /\ type = frame.type)
  BY <1>1, WroteStep
<1>3. HasResult(s)' <=> HasResult(s) \/ (Holding(s) /\ frame.type \in Results)
  BY <1>2 DEF HasResult, Holding, Results, WriteFrame
<1>4. ~Holding(s)'
  BY DEF WriteFrame, Holding
<1>5. frames'[s] = IF Holding(s) THEN Append(frames[s], frame.type)
                                 ELSE frames[s]
  BY <1>1 DEF TypeOK, WriteFrame, Holding
<1> QED
  BY <1>3, <1>4, <1>5

LEMMA ResultStep ==
    ASSUME TypeOK, FanInv, EventInv, OrderInv, [Next]_vars,
           NEW s \in Strategies
    PROVE  ResultIsLast(s)'
<1> USE DEF vars, runVars, workerVars, adapterVars, handlerVars
<1>0. /\ Announced(s) /\ ResultIsLast(s)
      /\ s # Aggregate
  BY AggregateAssumption DEF OrderInv
<1>1. CASE WriteFrame
  <2>1. UNCHANGED <<worker, pending, adapter>>
    BY <1>1 DEF WriteFrame
  <2> QED
    BY <1>0, <1>1, <2>1, FrameWritten DEF ResultIsLast
<1>2. ASSUME UNCHANGED frames PROVE HasResult(s)' <=> HasResult(s)
  BY <1>2, WroteStays DEF HasResult
<1>3. CASE FanOut \/ Report
  <2>1. UNCHANGED <<pending, adapter, frames>> /\ ~Holding(s)'
    BY <1>0, <1>3 DEF FanOut, Report, Receive, Event, EventInv, Holding
  <2>2. CASE FanOut
    <3>1. ~HasResult(s)
      BY <1>0, <2>2 DEF FanOut, FanInv, Announced, HasResult, Wrote
    <3> QED
      BY <1>2, <2>1, <2>2, <3>1 DEF FanOut, ResultIsLast
  <2>3. CASE Report
    BY <1>0, <1>2, <2>1, <2>3 DEF Report, ResultIsLast
  <2> QED
    BY <1>3, <2>2, <2>3
<1>4. ASSUME NEW t \in Strategies, WorkerStep(t)
      PROVE  ResultIsLast(s)'
  <2>0. HasResult(s)' <=> HasResult(s)
    BY <1>2, <1>4, WorkerActs
  <2>1. CASE Send(t) /\ t = s
    BY <1>0, <2>0, <2>1
       DEF Send, Receive, ResultIsLast, Announced, TypeOK, EventInv, Offers,
           AfterSend, Holding, Results
  <2>2. CASE t # s
    <3>1. Holding(s)' => Holding(s) /\ UNCHANGED frame
      BY <1>4, <2>2, WorkerActs DEF Send, Receive, EventInv, Holding
    <3> QED
      BY <1>0, <1>4, <2>0, <2>2, <3>1, WorkerActs DEF ResultIsLast
  <2>3. CASE ~Send(t) /\ t = s
    <3>0. UNCHANGED <<handler, frame>> /\ (Holding(s)' <=> Holding(s))
      BY <1>4, <2>3, WorkerActs DEF Holding
    <3>1. CASE GiveUp(s) \/ StreamEnds(s) \/ Open(s) \/ OpenFails(s)
      BY <1>0, <2>0, <3>0, <3>1
         DEF GiveUp, StreamEnds, Open, OpenFails, ResultIsLast, TypeOK, Offers
    <3>2. CASE TakeChunk(s)
      BY <1>0, <2>0, <3>0, <3>2
         DEF TakeChunk, AfterChunk, ResultIsLast, TypeOK, Results
    <3> QED
      BY <1>4, <2>3, <3>1, <3>2 DEF WorkerStep
  <2> QED
    BY <2>1, <2>2, <2>3
<1>5. ASSUME NEW t \in Strategies, AdapterStep(t)
      PROVE  ResultIsLast(s)'
  <2>1. UNCHANGED <<worker, pending, handler, frame, frames>>
    BY <1>5 DEF AdapterStep, Offer, ReadDelta, ReadEnd, ReadFails,
                ReadCanceled, StopSilently
  <2>2. adapter[s] = "closed" => adapter'[s] = "closed"
    BY <1>5 DEF TypeOK, AdapterStep, Offer, ReadDelta, ReadEnd, ReadFails,
                ReadCanceled, StopSilently
  <2> QED
    BY <1>0, <1>2, <2>1, <2>2 DEF ResultIsLast, Holding
<1>6. CASE /\ UNCHANGED <<worker, pending, adapter, frames, frame>>
           /\ Holding(s)' => Holding(s)
  BY <1>0, <1>2, <1>6 DEF ResultIsLast
<1>7. \/ WriteFrame \/ FanOut \/ Report
      \/ \E t \in Strategies : WorkerStep(t) \/ AdapterStep(t)
      \/ /\ UNCHANGED <<worker, pending, adapter, frames, frame>>
         /\ Holding(s)' => Holding(s)
  BY DEF Next, Disconnect, ServerCancels, RunStep, RefuseInput, CreateFails,
         Create, AbandonStart, Decide, SaveTerminal, SaveTerminalFails,
         DropReport, HandlerStep, WriteFails, HandlerReturns, Rest, Holding
<1> QED
  BY <1>1, <1>3, <1>4, <1>5, <1>6, <1>7

LEMMA InOrderStep ==
    ASSUME TypeOK, OrderInv, [Next]_vars, NEW s \in Strategies
    PROVE  InOrder(s)'
<1>0. /\ Announced(s) /\ ResultIsLast(s) /\ InOrder(s)
      /\ frames[s] \in Seq(EventTypes)
  BY DEF OrderInv, TypeOK, Sources
<1>1. CASE WriteFrame /\ Holding(s)
  <2> DEFINE q == frames[s]
  <2>1. frames'[s] = Append(q, frame.type)
    BY <1>1, FrameWritten
  <2>2. /\ Len(frames'[s]) = Len(q) + 1
        /\ frames'[s][Len(q) + 1] = frame.type
        /\ \A n \in 1..Len(q) : frames'[s][n] = q[n]
        /\ Len(q) \in Nat
        /\ q = <<>> <=> Len(q) = 0
    BY <1>0, <2>1, FrameTyped, AppendGrows
  <2>3. \A n \in 1..Len(q) : q[n] \notin Results
    BY <1>0, <1>1 DEF ResultIsLast, HasResult, Wrote
  <2>4. frame.type = "variation_started" <=> Len(q) = 0
    BY <1>0, <1>1, <2>2 DEF Announced
  <2> SUFFICES ASSUME NEW n \in 1..Len(frames'[s])
               PROVE  /\ n = 1 <=> frames'[s][n] = "variation_started"
                      /\ n < Len(frames'[s]) => frames'[s][n] \notin Results
    BY DEF InOrder
  <2>5. CASE n \in 1..Len(q)
    BY <1>0, <2>2, <2>3, <2>5 DEF InOrder
  <2>6. CASE n = Len(q) + 1
    BY <2>2, <2>4, <2>6
  <2> QED
    BY <2>2, <2>5, <2>6
<1>2. CASE WriteFrame /\ ~Holding(s)
  BY <1>0, <1>2, FrameWritten DEF InOrder
<1>3. CASE ~WriteFrame
  BY <1>0, <1>3, OnlyWriteFrame DEF InOrder
<1> QED
  BY <1>1, <1>2, <1>3

LEMMA OrderStep == TypeOK /\ FanInv /\ EventInv /\ OrderInv /\ [Next]_vars => OrderInv'
BY AnnouncedStep, ResultStep, InOrderStep DEF OrderInv

\* A report of the verdict says who is to blame, and lasts.
LEMMA BlameStep == IInv /\ [Next]_vars => BlameInv'
<1> SUFFICES ASSUME IInv, [Next]_vars PROVE BlameInv'
  OBVIOUS
<1> USE DEF vars, runVars, workerVars, adapterVars, handlerVars
<1>0. TypeOK /\ FanInv /\ EventInv /\ VerdictInv /\ BlameInv /\ sentry \in Nat
  BY DEF IInv, TypeOK
<1>1. firstErr = "failure" => firstErr' = "failure"
  BY <1>0, ErrStays
<1>2. run' = "report" /\ report'.type = "error" => report'.err # "nil"
  <2>1. CASE UNCHANGED <<run, report>>
    BY <1>0, <2>1 DEF BlameInv
  <2>2. CASE SaveTerminal \/ SaveTerminalFails
    BY <2>2 DEF SaveTerminal, SaveTerminalFails, TerminalEvent, Event, ErrorEvent
  <2>3. UNCHANGED <<run, report>> \/ SaveTerminal \/ SaveTerminalFails
        \/ run' # "report"
    BY DEF Next, Disconnect, ServerCancels, RunStep, RefuseInput, CreateFails,
           Create, FanOut, AbandonStart, Decide, Report, DropReport,
           WorkerStep, Send, GiveUp, OpenFails, Open, TakeChunk, StreamEnds,
           AdapterStep, Offer, ReadDelta, ReadEnd, ReadFails, ReadCanceled,
           StopSilently, HandlerStep, WriteFrame, WriteFails, HandlerReturns,
           Rest
  <2> QED
    BY <2>1, <2>2, <2>3
<1>3. SentryIsFailure'
  <2>1. CASE sentry > 0
    <3>0. /\ run = "returned" \/ handler = "returned"
          /\ SentryIsFailure
      BY <1>0, <2>1 DEF VerdictInv, BlameInv
    <3>1. CASE \A s \in Strategies : worker[s] = "idle"
      <4>1. ~FanOut
        BY <3>0 DEF FanOut, Receive
      <4>2. \A s \in Strategies : ~WorkerStep(s)
        BY <3>1 DEF WorkerStep, Send, GiveUp, OpenFails, Open, TakeChunk,
                    StreamEnds, Offers
      <4>3. UNCHANGED worker
        BY <4>1, <4>2, WorkerMoves
      <4> QED
        BY <3>1, <4>3 DEF SentryIsFailure
    <3>2. CASE firstErr = "failure"
      BY <1>1, <3>2 DEF SentryIsFailure
    <3>3. CASE run \in {"report", "returned"} /\ report.err = "failure"
      <4>1. run' \in {"report", "returned"} /\ UNCHANGED report
        BY <3>3
           DEF Next, Disconnect, ServerCancels, RunStep, RefuseInput,
               CreateFails, Create, FanOut, AbandonStart, Decide, SaveTerminal,
               SaveTerminalFails, Report, DropReport, WorkerStep, Send, GiveUp,
               OpenFails, Open, TakeChunk, StreamEnds, AdapterStep, Offer,
               ReadDelta, ReadEnd, ReadFails, ReadCanceled, StopSilently,
               HandlerStep, WriteFrame, WriteFails, HandlerReturns, Rest
      <4> QED
        BY <3>3, <4>1 DEF SentryIsFailure
    <3> QED
      BY <2>1, <3>0, <3>1, <3>2, <3>3 DEF SentryIsFailure
  <2>2. CASE sentry = 0
    <3>1. CASE UNCHANGED sentry
      BY <2>2, <3>1 DEF SentryIsFailure
    <3>2. CASE FanOut
      BY <2>2, <3>2 DEF FanOut, Receive, IsReported, Event, SentryIsFailure
    <3>3. CASE Report
      <4>1. report.err \in Errors
        BY <1>0 DEF TypeOK, Events
      <4> QED
        BY <1>0, <2>2, <3>3, <4>1
           DEF Report, Receive, IsReported, SentryIsFailure, BlameInv, Errors
    <3>4. ASSUME NEW s \in Strategies, Send(s) PROVE SentryIsFailure'
      BY <1>0, <2>2, <3>4, AggregateAssumption
         DEF Send, Receive, IsReported, EventInv, SentryIsFailure
    <3>5. CASE Create \/ CreateFails
      BY <1>0, <3>5 DEF Create, CreateFails, FanInv, SentryIsFailure
    <3> QED
      BY <3>1, <3>2, <3>3, <3>4, <3>5, SentryMoves
  <2> QED
    BY <1>0, <2>1, <2>2
<1> QED
  BY <1>2, <1>3 DEF BlameInv

\* A row and the report on it change only in run's hands; a run that returns
\* before its fan-out has no worker, and one that returns after it has saved.
LEMMA StuckStep == IInv /\ [Next]_vars => StuckInv'
<1> SUFFICES ASSUME IInv, [Next]_vars PROVE StuckInv'
  OBVIOUS
<1> USE DEF vars, runVars, workerVars, adapterVars, handlerVars
<1>0. TypeOK /\ FanInv /\ RowInv /\ StuckInv
  BY DEF IInv
<1>1. CASE run = "returned"
  <2>1. run' = "returned" /\ db' = db
    BY <1>0, <1>1, ReturnedIsFinal
  <2>2. \A s \in Strategies : worker[s] \in {"idle", "exited"}
    BY <1>0, <1>1 DEF FanInv, AllExited
  <2>3. UNCHANGED <<worker, report>> /\ (ctxDone => ctxDone')
    BY <1>1, <2>2
       DEF Next, Disconnect, ServerCancels, RunStep, RefuseInput, CreateFails,
           Create, FanOut, AbandonStart, Decide, SaveTerminal,
           SaveTerminalFails, Report, DropReport, WorkerStep, Send, GiveUp,
           OpenFails, Open, TakeChunk, StreamEnds, Offers, AdapterStep, Offer,
           ReadDelta, ReadEnd, ReadFails, ReadCanceled, StopSilently,
           HandlerStep, WriteFrame, WriteFails, HandlerReturns, Rest
  <2> QED
    BY <1>0, <1>1, <2>1, <2>3
       DEF StuckInv, StuckHasItsCause, LeftInStreaming, SaveFailed
<1>2. CASE RefuseInput \/ CreateFails \/ AbandonStart
  <2>1. run' = "returned" /\ UNCHANGED worker
    BY <1>2 DEF RefuseInput, CreateFails, AbandonStart
  <2>2. \A s \in Strategies : worker[s] = "idle"
    BY <1>0, <1>2 DEF FanInv, RefuseInput, CreateFails, AbandonStart
  <2>3. LeftInStreaming' => FallibleRepo \/ ctxDone'
    BY <1>0, <1>2 DEF RowInv, NoRow, LeftInStreaming, RefuseInput, CreateFails,
                      AbandonStart
  <2> QED
    BY <2>1, <2>2, <2>3 DEF StuckInv, StuckHasItsCause
<1>3. CASE Report \/ DropReport
  <2>1. run = "report" /\ run' = "returned" /\ UNCHANGED <<db, gen, report>>
    BY <1>3 DEF Report, DropReport
  <2>2. db.status = "streaming" => SaveFailed
    BY <1>0, <2>1 DEF StuckInv, RowInv, Whole, Void
  <2> QED
    BY <2>1, <2>2 DEF StuckInv, StuckHasItsCause, LeftInStreaming, SaveFailed
<1>4. CASE SaveTerminal \/ SaveTerminalFails
  <2>1. run' = "report" /\ (db' = gen' \/ SaveFailed')
    BY <1>4 DEF SaveTerminal, SaveTerminalFails, SaveFailed
  <2> QED
    BY <2>1 DEF StuckInv, StuckHasItsCause, LeftInStreaming
<1>5. CASE Create \/ FanOut \/ Decide
  BY <1>5 DEF Create, FanOut, Decide, StuckInv, StuckHasItsCause,
              LeftInStreaming
<1>6. CASE run # "returned" /\ UNCHANGED <<run, db, gen, report>>
  BY <1>0, <1>6 DEF StuckInv, StuckHasItsCause, LeftInStreaming, SaveFailed
<1> QED
  BY <1>1, <1>2, <1>3, <1>4, <1>5, <1>6
     DEF Next, Disconnect, ServerCancels, RunStep, WorkerStep, Send, GiveUp,
         OpenFails, Open, TakeChunk, StreamEnds, AdapterStep, Offer, ReadDelta,
         ReadEnd, ReadFails, ReadCanceled, StopSilently, HandlerStep,
         WriteFrame, WriteFails, HandlerReturns, Rest

----------------------------------------------------------------------------
LEMMA NextInv == IInv /\ [Next]_vars => IInv'
BY NextType, FanStep, EventStep, ErrorStep, SlotStep, RowStep, DeliveryStep,
   VerdictStep, OrderStep, BlameStep, StuckStep DEF IInv

\* The inductive invariant holds in every behaviour.
THEOREM Invariance == Spec => []IInv
<1>1. Init => IInv
  BY InitInv
<1>2. IInv /\ [Next]_vars => IInv'
  BY NextInv
<1> QED
  BY <1>1, <1>2, PTL DEF Spec

----------------------------------------------------------------------------
(* What the invariant is for.                                              *)

LEMMA RowCompleted ==
    ASSUME IInv, db.status = "completed"
    PROVE  db = Whole /\ firstErr = "nil"
BY DEF IInv, RowInv, NoRow, NewGeneration, Whole, Void

\* run never persists partial variations as a completed generation, nor a
\* completed generation one of whose strategies the client saw fail.
THEOREM CompletedIsWholeHolds == Spec => []CompletedIsWhole
<1>1. IInv => CompletedIsWhole
  <2> SUFFICES ASSUME IInv, db.status = "completed"
               PROVE  /\ db.variations = Strategies
                      /\ \A s \in Strategies : ~Wrote(s, "error")
    BY DEF CompletedIsWhole
  <2>1. db = Whole /\ firstErr = "nil"
    BY RowCompleted
  <2> QED
    BY <2>1 DEF IInv, ErrorInv, Whole
<1> QED
  BY <1>1, Invariance, PTL

\* A done frame is written only over a completed row, after every variation.
THEOREM DoneIsBackedHolds == Spec => []DoneIsBacked
<1>1. IInv => DoneIsBacked
  BY DEF IInv, VerdictInv, DoneIsBacked, Whole
<1> QED
  BY <1>1, Invariance, PTL

\* streamSSE reports at most one exception per generation.
THEOREM SentryOnceHolds == Spec => []SentryOnce
<1>1. IInv => SentryOnce
  BY DEF IInv, VerdictInv, SentryOnce
<1> QED
  BY <1>1, Invariance, PTL

\* The frames streamSSE writes for a strategy are its announcement, deltas and
\* at most one result, after generation_started.
THEOREM StrategyInOrderHolds == Spec => []StrategyInOrder
<1>1. IInv => StrategyInOrder
  BY DEF IInv, OrderInv, Announced, InOrder, Results, StrategyInOrder
<1> QED
  BY <1>1, Invariance, PTL

\* streamSSE reports no exception for a client that goes away: once the
\* strategies have started, one of them or the terminal Save failed.
THEOREM SentryIsFailureHolds == Spec => []SentryIsFailure
<1>1. IInv => SentryIsFailure
  BY DEF IInv, BlameInv
<1> QED
  BY <1>1, Invariance, PTL

\* Once the strategies have started, run leaves no row in streaming but one
\* whose Save failed, whoever leaves and whenever.
THEOREM StuckHasItsCauseHolds == Spec => []StuckHasItsCause
<1>1. IInv => StuckHasItsCause
  BY DEF IInv, StuckInv
<1> QED
  BY <1>1, Invariance, PTL

\* streamSSE writes no frame after the aggregate done or error.
THEOREM NothingAfterVerdictHolds == Spec => NothingAfterVerdict
<1>1. IInv /\ [Next]_vars => [Verdict => UNCHANGED frames]_vars
  <2> SUFFICES ASSUME IInv, [Next]_vars, Verdict PROVE UNCHANGED frames
    OBVIOUS
  <2>1. ~WriteFrame
    BY DEF IInv, VerdictInv, WriteFrame
  <2> QED
    BY <2>1, OnlyWriteFrame
<1> QED
  BY <1>1, Invariance, PTL DEF Spec, NothingAfterVerdict

----------------------------------------------------------------------------
(* Refinement.                                                             *)

LEMMA RecordRows ==
    /\ Record!NoRecord = NoRow
    /\ Record!Streaming = NewGeneration
    /\ Record!Completed = Whole
    /\ Record!Failed = Void
BY DEF Record!NoRecord, Record!Streaming, Record!Completed, Record!Failed,
       NoRow, NewGeneration, Whole, Void

LEMMA RecordInit == Init => Record!Init
<1> SUFFICES ASSUME Init PROVE Record!Init
  OBVIOUS
<1>1. ~Wrote(Aggregate, "done") /\ ~Wrote(Aggregate, "error")
  BY DEF Init, Wrote, Sources
<1> QED
  BY <1>1, RecordRows DEF Init, Record!Init, Outcome

\* The row changes only as GenerationRecord lets it, and not after a verdict.
LEMMA RecordRowStep ==
    ASSUME IInv, [Next]_vars, db' # db
    PROVE  UNCHANGED Outcome /\ (Record!Create \/ Record!Settle)
<1> USE DEF vars, runVars, workerVars, adapterVars, handlerVars
<1>1. \/ CreateFails \/ Create \/ SaveTerminal \/ SaveTerminalFails
  BY DEF Next, Disconnect, ServerCancels, RunStep, RefuseInput, FanOut,
         AbandonStart, Decide, Report, DropReport, WorkerStep, Send, GiveUp,
         OpenFails, Open, TakeChunk, StreamEnds, AdapterStep, Offer, ReadDelta,
         ReadEnd, ReadFails, ReadCanceled, StopSilently, HandlerStep,
         WriteFrame, WriteFails, HandlerReturns, Rest
<1>2. UNCHANGED frames
  BY <1>1 DEF CreateFails, Create, SaveTerminal, SaveTerminalFails
<1>3. UNCHANGED Outcome
  BY <1>2, WroteStays DEF Outcome
<1>4. Outcome = "none"
  BY <1>1 DEF IInv, VerdictInv, Verdict, Outcome, CreateFails, Create,
              SaveTerminal, SaveTerminalFails
<1>5. CASE CreateFails \/ Create
  <2>1. db = NoRow /\ db' = NewGeneration
    BY <1>5 DEF IInv, RowInv, CreateFails, Create
  <2> QED
    BY <1>3, <2>1, RecordRows DEF Record!Create
<1>6. CASE SaveTerminal \/ SaveTerminalFails
  <2>1. db = NewGeneration /\ db' \in {Whole, Void}
    BY <1>6 DEF IInv, RowInv, SaveTerminal, SaveTerminalFails
  <2> QED
    BY <1>3, <1>4, <2>1, RecordRows DEF Record!Settle
<1> QED
  BY <1>1, <1>3, <1>5, <1>6

\* A verdict is written once, over a row that backs it.
LEMMA RecordOutcomeStep ==
    ASSUME IInv, [Next]_vars, db' = db, Outcome' # Outcome
    PROVE  Record!TellDone \/ Record!TellError
<1>0. TypeOK /\ RowInv /\ VerdictInv /\ Aggregate \in Sources
  BY DEF IInv, Sources
<1>1. WriteFrame
  BY OnlyWriteFrame, WroteStays DEF Outcome
<1>2. \A type : Wrote(Aggregate, type)' <=>
                  \/ Wrote(Aggregate, type)
                  \/ Aggregate = frame.source /\ type = frame.type
  BY <1>0, <1>1, WroteStep
<1>3. ~Verdict
  BY <1>0, <1>1 DEF VerdictInv, WriteFrame
<1>4. Outcome = "none"
  BY <1>3 DEF Outcome, Verdict
<1>5. InFlight
  BY <1>1, <1>2, <1>3, <1>4 DEF InFlight, WriteFrame, Outcome, Verdict
<1>6. Outcome' = frame.type
  BY <1>2, <1>3, <1>5 DEF InFlight, Outcome, Verdict
<1>7. CASE frame.type = "done"
  <2>1. db = Whole
    BY <1>0, <1>5, <1>7 DEF VerdictInv
  <2> QED
    BY <1>4, <1>6, <1>7, <2>1, RecordRows DEF Record!TellDone
<1>8. CASE frame.type = "error"
  <2>1. db # NoRow
    BY <1>0, <1>1 DEF RowInv, WriteFrame
  <2> QED
    BY <1>4, <1>6, <1>8, <2>1, RecordRows DEF Record!TellError
<1> QED
  BY <1>5, <1>7, <1>8 DEF InFlight

\* The goroutines, channels and contexts of one request implement the record
\* and the verdict that GenerationRecord specifies.
THEOREM Refinement == Spec => ImplementsRecord
<1>1. Init => Record!Init
  BY RecordInit
<1>2. IInv /\ [Next]_vars => [Record!Next]_(Record!vars)
  <2> SUFFICES ASSUME IInv, [Next]_vars PROVE [Record!Next]_(Record!vars)
    OBVIOUS
  <2>1. CASE db' # db
    BY <2>1, RecordRowStep DEF Record!Next
  <2>2. CASE db' = db /\ Outcome' # Outcome
    BY <2>2, RecordOutcomeStep DEF Record!Next
  <2>3. CASE db' = db /\ Outcome' = Outcome
    BY <2>3 DEF Record!vars
  <2> QED
    BY <2>1, <2>2, <2>3
<1> QED
  BY <1>1, <1>2, Invariance, PTL DEF Spec, ImplementsRecord, Record!Spec

----------------------------------------------------------------------------
(* The refinement of RunStages.                                            *)

\* The stages of run, one by one.
LEMMA StageIs ==
    /\ run = "execute" => Stage = "none"
    /\ run = "started" => Stage = "offering"
    /\ run = "wait" => Stage = "working"
    /\ run \in {"report", "returned"} => Stage = "ended"
    /\ run = "save" =>
          Stage = IF gen.status = "completed" THEN "completing" ELSE "failing"
BY DEF Stage, StageOf

\* A step of run is a step of its stages, or reports what is settled.
LEMMA RunTakesStages ==
    ASSUME IInv, RunStep
    PROVE  [Stages!Next]_(Stages!vars)
<1> USE DEF vars, runVars, workerVars, adapterVars, handlerVars, Stages!Next
<1>0. RowInv
  BY DEF IInv
<1>1. CASE RefuseInput \/ CreateFails
  <2>1. /\ run = "execute" /\ run' = "returned"
        /\ db' = db \/ ((FallibleRepo \/ ctxDone) /\ db' = NewGeneration)
        /\ UNCHANGED <<ctxDone, gen>>
    BY <1>0, <1>1 DEF RefuseInput, CreateFails, RowInv
  <2>2. Stage = "none" /\ Stage' = "ended"
    BY <2>1, StageIs DEF Stage, StageOf
  <2> QED
    BY <2>1, <2>2 DEF Stages!Refuse, NewGeneration
<1>2. CASE Create
  <2>1. /\ run = "execute" /\ run' = "started" /\ db' = NewGeneration
        /\ UNCHANGED ctxDone
    BY <1>0, <1>2 DEF Create, RowInv
  <2>2. Stage = "none" /\ Stage' = "offering"
    BY <2>1, StageIs DEF Stage, StageOf
  <2> QED
    BY <2>1, <2>2 DEF Stages!Create, NewGeneration
<1>3. CASE FanOut
  <2>1. run = "started" /\ run' = "wait" /\ UNCHANGED <<db, ctxDone>>
    BY <1>3 DEF FanOut
  <2>2. Stage = "offering" /\ Stage' = "working"
    BY <2>1, StageIs DEF Stage, StageOf
  <2> QED
    BY <2>1, <2>2 DEF Stages!Start
<1>4. CASE AbandonStart
  <2>1. /\ run = "started" /\ run' = "returned"
        /\ ctxDone /\ UNCHANGED <<db, ctxDone>>
    BY <1>4 DEF AbandonStart
  <2>2. Stage = "offering" /\ Stage' = "ended"
    BY <2>1, StageIs DEF Stage, StageOf
  <2> QED
    BY <2>1, <2>2 DEF Stages!Abandon
<1>5. CASE Decide
  <2>1. run = "wait" /\ run' = "save" /\ UNCHANGED <<db, ctxDone>>
    BY <1>5 DEF Decide
  <2>2. ctxDone => gen'.status = "failed"
    BY <1>0, <1>5 DEF Decide, Failing, RowInv, NewGeneration
  <2>3. /\ Stage = "working"
        /\ Stage' = IF gen'.status = "completed" THEN "completing" ELSE "failing"
    BY <2>1, StageIs DEF Stage
  <2> QED
    BY <2>1, <2>2, <2>3 DEF Stages!Decide
<1>6. CASE SaveTerminal \/ SaveTerminalFails
  <2>1. /\ run = "save" /\ run' = "report" /\ UNCHANGED ctxDone
        /\ db' = gen \/ (FallibleRepo /\ db' = db)
    BY <1>6 DEF SaveTerminal, SaveTerminalFails
  <2>2. gen \in {Whole, Void}
    BY <1>0, <2>1 DEF RowInv
  <2>3. /\ Stage = IF gen.status = "completed" THEN "completing" ELSE "failing"
        /\ Stage' = "ended"
    BY <2>1, StageIs DEF Stage, StageOf
  <2>4. gen.status = Stages!Verdict
    BY <2>2, <2>3 DEF Stages!Verdict, Whole, Void
  <2>5. Stages!Settle
    BY <2>1, <2>3, <2>4 DEF Stages!Settle
  <2> QED
    BY <2>5
<1>7. CASE Report \/ DropReport
  <2>1. /\ run = "report" /\ run' = "returned"
        /\ UNCHANGED <<db, ctxDone>>
    BY <1>7 DEF Report, DropReport
  <2>2. Stage = "ended" /\ Stage' = "ended"
    BY <2>1, StageIs DEF Stage, StageOf
  <2> QED
    BY <2>1, <2>2 DEF Stages!vars
<1> QED
  BY <1>1, <1>2, <1>3, <1>4, <1>5, <1>6, <1>7 DEF RunStep

\* What the other modules take a run goroutine for is what GenerateVariations
\* lets it be: strategies, adapters and the handler only decide when.
THEOREM StagesRefinement == Spec => Stages!Spec
<1>1. Init => Stages!Init
  BY StageIs DEF Init, Stages!Init, NoRow
<1>2. IInv /\ [Next]_vars => [Stages!Next]_(Stages!vars)
  <2> SUFFICES ASSUME IInv, [Next]_vars
               PROVE  [Stages!Next]_(Stages!vars)
    OBVIOUS
  <2> USE DEF vars, runVars, workerVars, adapterVars, handlerVars
  <2>1. CASE RunStep
    BY <2>1, RunTakesStages
  <2>2. CASE Disconnect \/ ServerCancels
    <3>1. ctxDone' = TRUE /\ UNCHANGED <<db, run, gen>>
      BY <2>2 DEF Disconnect, ServerCancels
    <3>2. Stages!Cancel
      BY <3>1 DEF Stages!Cancel, Stage
    <3> QED
      BY <3>2 DEF Stages!Next
  <2>3. CASE UNCHANGED <<db, run, gen, ctxDone>>
    BY <2>3 DEF Stages!vars, Stage
  <2> QED
    BY <2>1, <2>2, <2>3
       DEF Next, WorkerStep, Send, GiveUp, OpenFails, Open, TakeChunk,
           StreamEnds, AdapterStep, Offer, ReadDelta, ReadEnd, ReadFails,
           ReadCanceled, StopSilently, HandlerStep, WriteFrame, WriteFails,
           HandlerReturns, Rest
<1> QED
  BY <1>1, <1>2, Invariance, PTL DEF Spec, Stages!Spec
=============================================================================
