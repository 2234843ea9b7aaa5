-------------------- MODULE GenerateVariationsInvariant --------------------
(***************************************************************************)
(* The inductive invariant behind the safety properties of                 *)
(* GenerateVariations: what holds between the fan-out and the fan-in, so   *)
(* that the one moment run looks at firstErr and ctx.Err() is enough.      *)
(***************************************************************************)
EXTENDS GenerateVariations

\* The fan-out and the fan-in: no worker before run starts them, none left
\* once run decides.
FanInv ==
    /\ run = "execute" <=> handler = "execute"
    /\ run \in {"execute", "started"} =>
          \A s \in Strategies : worker[s] = "idle"
    /\ run = "wait" => \A s \in Strategies : worker[s] # "idle"
    /\ run \in {"save", "report"} => AllExited
    /\ run = "returned" =>
          AllExited \/ \A s \in Strategies : worker[s] = "idle"

\* An event names the strategy of the goroutine that sends it, and only run
\* sends a verdict.
EventInv ==
    /\ report.source = Aggregate
    /\ report.type \in {"done", "error"}
    /\ \A s \in Strategies :
          /\ pending[s].source = s
          /\ pending[s].type # "done"
          /\ worker[s] \in {"idle", "announce"} =>
                pending[s].type = "variation_started"

\* An error is in firstErr before anyone hears of it.
ErrorInv ==
    \A s \in Strategies :
        /\ adapter[s] = "sending" /\ chunk[s].type = "error" =>
              chunk[s].err # "nil"
        /\ worker[s] = "fail" => firstErr # "nil"
        /\ Offers(s) /\ pending[s].type = "error" => firstErr # "nil"
        /\ handler = "write" /\ frame.source = s /\ frame.type = "error" =>
              firstErr # "nil"
        /\ Wrote(s, "error") => firstErr # "nil"

\* A slot is given up as empty only with an error or a context that is done.
SlotInv ==
    \A s \in Strategies :
        adapter[s] = "closed" \/ worker[s] = "exited" =>
            s \in variations \/ firstErr # "nil" \/ ctxDone

Whole == [status |-> "completed", variations |-> Strategies]

Void == [status |-> "failed", variations |-> {}]

\* The row against run's local generation.
RowInv ==
    /\ run = "execute" => db = NoRow
    /\ run \in {"started", "wait", "save"} => db = NewGeneration
    /\ run = "report" => db \in {NewGeneration, gen}
    /\ db \in {NoRow, NewGeneration, gen}
    /\ handler \in {"select", "write"} => db # NoRow
    /\ run \in {"execute", "started", "wait"} => gen = NewGeneration
    /\ run \in {"save", "report"} => gen \in {Whole, Void}
    /\ gen \in {NewGeneration, Whole, Void}
    /\ gen = Whole => AllExited /\ firstErr = "nil"
    /\ gen = Void => firstErr # "nil"

\* The variation of s has been written, is being written, or has no reader.
Told(s) ==
    \/ Wrote(s, "variation_completed")
    \/ handler = "write" /\ frame.source = s
                         /\ frame.type = "variation_completed"
    \/ handler = "returned"

\* A variation that counts has been sent, unless the context is done.
DeliveryInv ==
    \A s \in Strategies :
        /\ s \in variations =>
              \/ Told(s)
              \/ Offers(s) /\ pending[s].type = "variation_completed"
              \/ ctxDone
        /\ gen = Whole => Told(s)

\* The handler holds the verdict.
InFlight ==
    /\ handler = "write"
    /\ frame.source = Aggregate
    /\ frame.type \in {"done", "error"}

\* The verdict is run's last act, it is told once, done is backed by the row,
\* and a report leaves nobody to make another.
VerdictInv ==
    /\ InFlight \/ Verdict => run = "returned"
    /\ Verdict => handler # "write" /\ db # NoRow
    /\ run = "report" /\ report.type = "done" => db = Whole /\ gen = Whole
    /\ (InFlight /\ frame.type = "done") \/ Wrote(Aggregate, "done") =>
          /\ db = Whole
          /\ \A s \in Strategies : Wrote(s, "variation_completed")
    /\ sentry # 0 =>
          /\ sentry = 1
          /\ run = "returned" \/ handler = "returned"

\* The handler is about to write a frame of s.
Holding(s) == handler = "write" /\ frame.source = s

Results == {"variation_completed", "error"}

\* A result of s has been written.
HasResult(s) == \E type \in Results : Wrote(s, type)

\* The announcement of s follows run's, and comes before anything else of s.
Announced(s) ==
    /\ worker[s] # "idle" =>
          \/ Wrote(Aggregate, "generation_started")
          \/ /\ handler = "write"
             /\ frame.source = Aggregate
             /\ frame.type = "generation_started"
          \/ handler = "returned"
    /\ frames[s] # <<>> \/ Holding(s) => Wrote(Aggregate, "generation_started")
    /\ worker[s] \in {"idle", "announce"} => frames[s] = <<>> /\ ~Holding(s)
    /\ worker[s] \in {"open", "range", "relay", "fail"} =>
          frames[s] # <<>> \/ Holding(s) \/ handler = "returned"
    /\ worker[s] \in {"relay", "fail"} => pending[s].type # "variation_started"
    /\ Holding(s) => (frame.type = "variation_started" <=> frames[s] = <<>>)

\* A worker whose adapter has offered a result has nothing more to read.
ResultIsLast(s) ==
    /\ worker[s] = "relay" /\ pending[s].type \in Results => adapter[s] = "closed"
    /\ HasResult(s) \/ (Holding(s) /\ frame.type \in Results) =>
          \/ worker[s] = "exited"
          \/ worker[s] = "range" /\ adapter[s] = "closed"
    /\ Holding(s) => ~HasResult(s)

InOrder(s) ==
    \A n \in 1..Len(frames[s]) :
        /\ n = 1 <=> frames[s][n] = "variation_started"
        /\ n < Len(frames[s]) => frames[s][n] \notin Results

OrderInv ==
    \A s \in Strategies : Announced(s) /\ ResultIsLast(s) /\ InOrder(s)

\* A failure that is reported to Sentry once the strategies have started is
\* in firstErr or is the terminal Save's, and run offers no error without
\* saying which it is.
BlameInv ==
    /\ run = "report" /\ report.type = "error" => report.err # "nil"
    /\ SentryIsFailure

\* What run saved last is what it reports on, unless that Save failed.
StuckInv ==
    /\ run = "report" => db = gen \/ SaveFailed
    /\ StuckHasItsCause

IInv ==
    /\ TypeOK
    /\ FanInv
    /\ EventInv
    /\ ErrorInv
    /\ SlotInv
    /\ RowInv
    /\ DeliveryInv
    /\ VerdictInv
    /\ OrderInv
    /\ BlameInv
    /\ StuckInv
=============================================================================
