---------------------------- MODULE ServiceProofs ----------------------------
(***************************************************************************)
(* What a stop, a crash and a restart leave behind, for any number of      *)
(* generations and of boots.                                               *)
(*                                                                         *)
(* The invariant has two parts.  GenInv follows one generation: which row  *)
(* and which verdict go with where its handler and its goroutine are.      *)
(* ProcInv follows run: what it holds while the server has connections,    *)
(* and that a clean return is one without handlers.                        *)
(***************************************************************************)
EXTENDS Service, SequenceTheorems, TLAPS

\* What run holds when it has acquired n resources.
Stack(n) == SubSeq(Resources, 1, n)

HasCause(g) ==
    \/ Running(g)
    \/ handler[g] = "returned" /\ run[g] = "none"
    \/ handler[g] \in Exits \/ run[g] \in Exits
    \/ ctxDone[g]
    \/ failed[g]

GenInv(g) ==
    /\ handler[g] \in {"none", "creating"} =>
          run[g] = "none" /\ row[g] = "none" /\ told[g] = "none"
    /\ Running(g) => handler[g] = "streaming" \/ ctxDone[g]
    /\ run[g] = "succeeded" => row[g] = "completed"
    /\ run[g] = "erred" => row[g] = "failed" \/ failed[g]
    /\ told[g] = "done" => run[g] = "ended" /\ row[g] = "completed"
    /\ conn[g] => Saving(g)
    /\ row[g] = "streaming" => HasCause(g)
    /\ handler[g] # "clean"
    /\ run[g] = "clean" => ctxDone[g]

ProcInv ==
    /\ draining => phase = "returning" /\ LastIs("pool")
    /\ phase = "returning" => exit \in {"clean", "error"}
    /\ phase \in {"serving", "stopping"} => Len(acquired) = Len(Resources)
    /\ open => phase \in {"serving", "stopping"} \/ CutOff
    /\ \A g \in Generations : Handling(g) => open

\* The pool outlives the connections it has given out.
ConnectionsHaveAPool == \A g \in Generations : conn[g] => Holds("pool")

IInv ==
    /\ TypeOK
    /\ ProcInv
    /\ ConnectionsHaveAPool
    /\ \A g \in Generations : GenInv(g)

----------------------------------------------------------------------------
(* The stack of resources.                                                 *)

LEMMA StackFacts ==
    ASSUME NEW n \in 0..Len(Resources)
    PROVE  /\ Stack(n) \in Seq({"telemetry", "pool", "redis"})
           /\ Len(Stack(n)) = n
           /\ \A i \in 1..n : Stack(n)[i] = Resources[i]
           /\ DOMAIN Stack(n) = 1..n
<1>1. /\ Resources \in Seq({"telemetry", "pool", "redis"})
      /\ Len(Resources) = 3
  BY DEF Resources
<1>2. n \in Nat /\ n <= 3
  BY <1>1
<1>3. /\ Stack(n) \in Seq({"telemetry", "pool", "redis"})
      /\ Len(Stack(n)) = n
      /\ \A i \in 1..n : Stack(n)[i] = Resources[i]
  BY <1>1, <1>2, SubSeqProperties DEF Stack
<1> QED
  BY <1>3, LenProperties

\* Which resources a stack holds, and which is on top of it.
LEMMA StackHolds ==
    ASSUME NEW n \in 0..Len(Resources), acquired = Stack(n)
    PROVE  /\ n \in 0..3 /\ Len(acquired) = n
           /\ acquired = <<>> <=> n = 0
           /\ Holds("telemetry") <=> n >= 1
           /\ Holds("pool") <=> n >= 2
           /\ Holds("redis") <=> n >= 3
           /\ LastIs("telemetry") <=> n = 1
           /\ LastIs("pool") <=> n = 2
           /\ LastIs("redis") <=> n = 3
<1>1. /\ Len(Resources) = 3 /\ Resources[1] = "telemetry"
      /\ Resources[2] = "pool" /\ Resources[3] = "redis"
  BY DEF Resources
<1>2. /\ n \in 0..3 /\ Len(acquired) = n /\ DOMAIN acquired = 1..n
      /\ \A i \in 1..n : acquired[i] = Resources[i]
      /\ acquired \in Seq({"telemetry", "pool", "redis"})
  BY <1>1, StackFacts
<1>3. acquired = <<>> <=> n = 0
  BY <1>2, EmptySeq
<1>4. /\ Holds("telemetry") <=> n >= 1
      /\ Holds("pool") <=> n >= 2
      /\ Holds("redis") <=> n >= 3
  BY <1>1, <1>2 DEF Holds
<1> QED
  BY <1>1, <1>2, <1>3, <1>4 DEF LastIs

LEMMA Push ==
    ASSUME NEW n \in 0..2
    PROVE  Append(Stack(n), Resources[n + 1]) = Stack(n + 1)
<1> DEFINE R == {"telemetry", "pool", "redis"}
<1>1. Len(Resources) = 3 /\ Resources \in Seq(R)
  BY DEF Resources
<1>2. n \in 0..Len(Resources) /\ n + 1 \in 0..Len(Resources)
      /\ n + 1 \in 1..Len(Resources) /\ n \in Nat
  BY <1>1
<1>3. Resources[n + 1] \in R
  BY <1>1, <1>2, ElementOfSeq
<1>4. Stack(n) \in Seq(R) /\ Len(Stack(n)) = n
      /\ \A i \in 1..n : Stack(n)[i] = Resources[i]
  BY <1>2, StackFacts
<1>5. Stack(n + 1) \in Seq(R) /\ Len(Stack(n + 1)) = n + 1
      /\ \A i \in 1..(n + 1) : Stack(n + 1)[i] = Resources[i]
  BY <1>2, StackFacts
<1> HIDE DEF R
<1>6. /\ Append(Stack(n), Resources[n + 1]) \in Seq(R)
      /\ Len(Append(Stack(n), Resources[n + 1])) = n + 1
      /\ \A i \in 1..(n + 1) :
            Append(Stack(n), Resources[n + 1])[i] = Resources[i]
  BY <1>2, <1>3, <1>4
<1> QED
  BY <1>5, <1>6, SeqEqual

LEMMA Pop ==
    ASSUME NEW n \in 1..3
    PROVE  SubSeq(Stack(n), 1, n - 1) = Stack(n - 1)
<1> DEFINE R == {"telemetry", "pool", "redis"}
           P == SubSeq(Stack(n), 1, n - 1)
<1>1. n \in 0..Len(Resources) /\ n - 1 \in 0..Len(Resources) /\ n \in Nat
      /\ n - 1 \in Nat
  BY DEF Resources
<1>2. Stack(n) \in Seq(R) /\ Len(Stack(n)) = n
      /\ \A i \in 1..n : Stack(n)[i] = Resources[i]
  BY <1>1, StackFacts
<1>3. Stack(n - 1) \in Seq(R) /\ Len(Stack(n - 1)) = n - 1
      /\ \A i \in 1..(n - 1) : Stack(n - 1)[i] = Resources[i]
  BY <1>1, StackFacts
<1> HIDE DEF R
<1>4. P \in Seq(R) /\ Len(P) = n - 1
      /\ \A i \in 1..(n - 1) : P[i] = Stack(n)[i]
  BY <1>1, <1>2, SubSeqProperties
<1>5. \A i \in 1..(n - 1) : P[i] = Stack(n - 1)[i]
  BY <1>1, <1>2, <1>3, <1>4
<1> HIDE DEF P
<1>6. P = Stack(n - 1)
  BY <1>3, <1>4, <1>5, SeqEqual
<1> QED
  BY <1>6 DEF P

\* Where in its stack run is.
LEMMA Depth ==
    ASSUME TypeOK
    PROVE  \E n \in 0..Len(Resources) : acquired = Stack(n)
  BY DEF TypeOK, Stack

----------------------------------------------------------------------------
(* Every variable keeps its type.                                          *)

\* The variables of the generations.
TypesOfGenerations ==
    /\ handler \in [Generations -> {"none", "creating", "streaming", "returned"}
                                       \cup Exits]
    /\ run \in [Generations -> {"none", "starting", "working", "saving",
                                "failing", "succeeded", "erred", "ended"}
                                   \cup Exits]
    /\ ctxDone \in [Generations -> BOOLEAN]
    /\ conn \in [Generations -> BOOLEAN]
    /\ row \in [Generations -> {"none", "streaming", "completed", "failed"}]
    /\ told \in [Generations -> {"none", "done", "error"}]
    /\ failed \in [Generations -> BOOLEAN]

LEMMA TypeInit == Init => TypeOK
<1> SUFFICES ASSUME Init PROVE TypeOK
  OBVIOUS
<1>1. \E n \in 0..Len(Resources) : acquired = SubSeq(Resources, 1, n)
  <2>1. 0 \in 0..Len(Resources) /\ Len(Resources) = 3
    BY DEF Resources
  <2>2. Len(Stack(0)) = 0 /\ Stack(0) \in Seq({"telemetry", "pool", "redis"})
    BY <2>1, StackFacts
  <2>3. Stack(0) = <<>>
    BY <2>2, EmptySeq
  <2> QED
    BY <2>1, <2>3 DEF Init, Stack
<1>2. TypesOfGenerations
  BY DEF Init, TypesOfGenerations
<1>3. boots \in 1..MaxBoots
  BY MaxBootsAssumption DEF Init
<1>4. /\ phase \in {"booting", "serving", "stopping", "returning", "down"}
      /\ open \in BOOLEAN
      /\ draining \in BOOLEAN
      /\ exit \in Exits \cup {"none"}
  BY DEF Init
<1> QED
  BY <1>1, <1>2, <1>3, <1>4 DEF TypesOfGenerations, TypeOK

LEMMA TypeGenerate ==
    ASSUME TypesOfGenerations, NEW g \in Generations, Generate(g)
    PROVE  TypesOfGenerations'
<1> USE DEF TypesOfGenerations
<1>1. CASE Request(g)
  BY <1>1 DEF Request
<1>2. CASE Leave(g)
  BY <1>2 DEF Leave
<1>3. CASE TakeConnection(g)
  BY <1>3 DEF TakeConnection
<1>4. CASE Created(g)
  BY <1>4 DEF Created
<1>5. CASE CreateFails(g)
  BY <1>5 DEF CreateFails
<1>6. CASE Start(g)
  BY <1>6 DEF Start
<1>7. CASE Decide(g)
  BY <1>7 DEF Decide
<1>8. CASE Saved(g)
  BY <1>8 DEF Saved, Verdict
<1>9. CASE SaveFails(g)
  BY <1>9 DEF SaveFails, Verdict
<1>10. CASE Tell(g)
  BY <1>10 DEF Tell
<1>11. CASE HandlerReturns(g)
  BY <1>11 DEF HandlerReturns
<1>12. CASE HandlerGivesUp(g)
  BY <1>12 DEF HandlerGivesUp
<1> QED
  BY <1>1, <1>2, <1>3, <1>4, <1>5, <1>6, <1>7, <1>8, <1>9, <1>10, <1>11, <1>12
     DEF Generate

LEMMA TypeEnd ==
    ASSUME TypesOfGenerations, NEW how \in Exits, ProcessEnds(how)
    PROVE  TypesOfGenerations'
<1> USE DEF TypesOfGenerations
<1>1. handler' \in [Generations -> {"none", "creating", "streaming",
                                    "returned"} \cup Exits]
  BY DEF ProcessEnds
<1>2. run' \in [Generations -> {"none", "starting", "working", "saving",
                                "failing", "succeeded", "erred", "ended"}
                                   \cup Exits]
  BY DEF ProcessEnds
<1>3. row' \in [Generations -> {"none", "streaming", "completed", "failed"}]
  BY DEF ProcessEnds
<1>4. conn' \in [Generations -> BOOLEAN]
  BY DEF ProcessEnds
<1> QED
  BY <1>1, <1>2, <1>3, <1>4 DEF ProcessEnds

LEMMA GenerateFrame ==
    ASSUME NEW g \in Generations, Generate(g)
    PROVE  UNCHANGED processVars
  BY DEF Generate, Request, Leave, TakeConnection, Created, CreateFails, Start,
         Decide, Saved, SaveFails, Tell, HandlerReturns, HandlerGivesUp

\* The stack stays one: run pushes the next resource or pops the last.
LEMMA StackStep ==
    ASSUME TypeOK, ProcInv, [Next]_vars
    PROVE  \E n \in 0..Len(Resources) : acquired' = Stack(n)
<1>1. PICK n \in 0..Len(Resources) : acquired = Stack(n)
  BY Depth
<1>2. n \in 0..3 /\ Len(Resources) = 3 /\ Len(acquired) = n
      /\ (acquired = <<>> <=> n = 0)
  BY <1>1, StackHolds DEF Resources
<1>3. CASE Acquire
  <2>1. n \in 0..2 /\ n + 1 \in 0..Len(Resources)
    BY <1>2, <1>3 DEF Acquire
  <2>2. acquired' = Append(Stack(n), Resources[n + 1])
    BY <1>1, <1>2, <1>3 DEF Acquire
  <2>3. acquired' = Stack(n + 1)
    BY <2>1, <2>2, Push
  <2> QED
    BY <2>1, <2>3
<1>4. CASE ReleaseOther \/ PoolClosed
  <2>1. acquired # <<>>
    BY <1>4 DEF ReleaseOther, PoolClosed, ProcInv, LastIs
  <2>2. n \in 1..3 /\ n - 1 \in 0..Len(Resources)
    BY <1>2, <2>1
  <2>3. acquired' = SubSeq(Stack(n), 1, n - 1)
    BY <1>1, <1>2, <1>4 DEF ReleaseOther, PoolClosed, Release
  <2>4. acquired' = Stack(n - 1)
    BY <2>2, <2>3, Pop
  <2> QED
    BY <2>2, <2>4
<1>5. CASE Exit \/ Kill
  <2>1. acquired' = <<>>
    BY <1>5 DEF Exit, Kill, ProcessEnds
  <2>2. 0 \in 0..Len(Resources) /\ Len(Stack(0)) = 0
        /\ Stack(0) \in Seq({"telemetry", "pool", "redis"})
    BY <1>2, StackFacts
  <2>3. Stack(0) = <<>>
    BY <2>2, EmptySeq
  <2> QED
    BY <2>1, <2>2, <2>3
<1>6. CASE UNCHANGED acquired
  BY <1>1, <1>6
<1>7. CASE \E g \in Generations : Generate(g)
  BY <1>1, <1>7, GenerateFrame DEF processVars
<1> QED
  BY <1>3, <1>4, <1>5, <1>6, <1>7
     DEF Next, ConfigFails, WiringFails, Listen, ServeFails, Signal, ShutdownDone,
         ShutdownTimesOut, PoolCloses, Restart, Rest, vars, processVars

LEMMA TypeStep ==
    ASSUME TypeOK, ProcInv, [Next]_vars
    PROVE  TypeOK'
<1>1. \E n \in 0..Len(Resources) : acquired' = SubSeq(Resources, 1, n)
  BY StackStep DEF Stack
<1>2. TypesOfGenerations
  BY DEF TypeOK, TypesOfGenerations
<1>3. TypesOfGenerations'
  <2>1. CASE Exit
    BY <1>2, <2>1, TypeEnd DEF Exit, ProcInv, Exits
  <2>2. CASE Kill
    BY <1>2, <2>2, TypeEnd DEF Kill, Exits
  <2>3. CASE \E g \in Generations : Generate(g)
    BY <1>2, <2>3, TypeGenerate
  <2>4. CASE UNCHANGED generationVars
    BY <1>2, <2>4 DEF generationVars, TypesOfGenerations
  <2> QED
    BY <2>1, <2>2, <2>3, <2>4
       DEF Next, Acquire, ConfigFails, WiringFails, Listen, ServeFails, Signal, ShutdownDone,
           ShutdownTimesOut, ReleaseOther, PoolCloses, PoolClosed, Release,
           Restart, Rest, vars
<1>4. /\ phase' \in {"booting", "serving", "stopping", "returning", "down"}
      /\ open' \in BOOLEAN
      /\ draining' \in BOOLEAN
      /\ exit' \in Exits \cup {"none"}
      /\ boots' \in 1..MaxBoots
  <2> USE MaxBootsAssumption DEF TypeOK, Exits
  <2>1. CASE Exit \/ Kill
    BY <2>1 DEF Exit, Kill, ProcessEnds, ProcInv
  <2>2. CASE \E g \in Generations : Generate(g)
    BY <2>2, GenerateFrame DEF processVars
  <2>3. CASE Restart
    BY <2>3 DEF Restart
  <2>4. CASE \/ Acquire \/ ConfigFails \/ WiringFails \/ Listen \/ ServeFails
             \/ Signal \/ ShutdownDone \/ ShutdownTimesOut
             \/ ReleaseOther \/ PoolCloses \/ PoolClosed
    BY <2>4 DEF Acquire, ConfigFails, WiringFails, Listen, ServeFails, Signal, ShutdownDone,
                ShutdownTimesOut, ReleaseOther, PoolCloses, PoolClosed, Release
  <2>5. CASE UNCHANGED vars
    BY <2>5 DEF vars, processVars
  <2> QED
    BY <2>1, <2>2, <2>3, <2>4, <2>5 DEF Next, Rest
<1> QED
  BY <1>1, <1>3, <1>4 DEF TypesOfGenerations, TypeOK

----------------------------------------------------------------------------
(* The process.                                                            *)

\* A handler starts over a connection.
LEMMA HandlersNeedTheServer ==
    ASSUME TypeOK, NEW g \in Generations, Generate(g),
           NEW h \in Generations, Handling(h) => open
    PROVE  Handling(h)' => open
  BY DEF TypeOK, Generate, Request, Leave, TakeConnection, Created, CreateFails,
         Start, Decide, Saved, SaveFails, Tell, HandlerReturns, HandlerGivesUp,
         Handling, Exits

\* No one is handled when the process has ended.
LEMMA NoHandlersAfter ==
    ASSUME TypeOK, NEW how \in Exits, ProcessEnds(how), NEW h \in Generations
    PROVE  ~Handling(h)'
  BY DEF TypeOK, ProcessEnds, Handling, Exits

LEMMA ProcStep ==
    ASSUME TypeOK, ProcInv, [Next]_vars
    PROVE  ProcInv'
<1> USE DEF CutOff
<1>1. CASE \E g \in Generations : Generate(g)
  <2>1. UNCHANGED processVars
    BY <1>1, GenerateFrame
  <2>2. \A h \in Generations : Handling(h)' => open
    BY <1>1, HandlersNeedTheServer DEF ProcInv
  <2> QED
    BY <2>1, <2>2 DEF ProcInv, processVars, LastIs
<1>2. CASE Exit \/ Kill
  <2>1. PICK how \in Exits : ProcessEnds(how)
    BY <1>2 DEF Exit, Kill, ProcInv, Exits
  <2>2. \A h \in Generations : ~Handling(h)'
    BY <2>1, NoHandlersAfter
  <2> QED
    BY <2>1, <2>2 DEF ProcessEnds, ProcInv
<1>3. CASE PoolClosed \/ ReleaseOther
  <2>1. ~draining' /\ phase = "returning"
    BY <1>3 DEF PoolClosed, ReleaseOther, ProcInv, LastIs
  <2>2. UNCHANGED <<phase, open, exit, generationVars>>
    BY <1>3 DEF PoolClosed, ReleaseOther, Release
  <2> QED
    BY <2>1, <2>2 DEF ProcInv, Handling, generationVars
<1>4. CASE ShutdownDone
  BY <1>4 DEF ShutdownDone, ProcInv, Handling, generationVars
<1>5. CASE ConfigFails \/ WiringFails \/ ServeFails \/ ShutdownTimesOut
  BY <1>5 DEF ConfigFails, WiringFails, ServeFails, ShutdownTimesOut, ProcInv,
              Handling, generationVars
<1>6. CASE Acquire \/ Listen \/ Signal \/ Restart
  BY <1>6 DEF Acquire, Listen, Signal, Restart, ProcInv, Handling,
              generationVars
<1>7. CASE PoolCloses
  BY <1>7 DEF PoolCloses, ProcInv, LastIs, Handling, generationVars
<1>8. CASE UNCHANGED vars
  BY <1>8 DEF vars, processVars, generationVars, ProcInv, LastIs, Handling
<1> QED
  BY <1>1, <1>2, <1>3, <1>4, <1>5, <1>6, <1>7, <1>8 DEF Next, Rest

LEMMA PoolStep ==
    ASSUME TypeOK, ProcInv, ConnectionsHaveAPool, [Next]_vars,
           \A g \in Generations : GenInv(g)
    PROVE  ConnectionsHaveAPool'
<1>1. PICK n \in 0..Len(Resources) : acquired = Stack(n)
  BY Depth
<1>2. PICK m \in 0..Len(Resources) : acquired' = Stack(m)
  BY StackStep
<1>3. /\ n \in 0..3 /\ Len(acquired) = n
      /\ Holds("pool") <=> n >= 2
      /\ LastIs("telemetry") <=> n = 1
      /\ LastIs("pool") <=> n = 2
      /\ LastIs("redis") <=> n = 3
  BY <1>1, StackHolds
<1>4. m \in 0..3 /\ Len(acquired') = m
      /\ (Holds("pool")' <=> m >= 2)
  <2>1. /\ Len(Resources) = 3 /\ Resources[1] = "telemetry"
        /\ Resources[2] = "pool" /\ Resources[3] = "redis"
    BY DEF Resources
  <2>2. /\ m \in 0..3 /\ Len(acquired') = m /\ DOMAIN acquired' = 1..m
        /\ \A i \in 1..m : acquired'[i] = Resources[i]
    BY <1>2, <2>1, StackFacts
  <2> QED
    BY <2>1, <2>2 DEF Holds
<1>5. CASE \E g \in Generations : Generate(g)
  <2>1. PICK g \in Generations : Generate(g)
    BY <1>5
  <2>2. UNCHANGED acquired
    BY <2>1, GenerateFrame DEF processVars
  <2>3. \A h \in Generations : conn'[h] => conn[h] \/ Holds("pool")
    BY <2>1
       DEF TypeOK, Generate, Request, Leave, TakeConnection, Created,
           CreateFails, Start, Decide, Saved, SaveFails, Tell, HandlerReturns,
           HandlerGivesUp, PoolIsClosed
  <2> QED
    BY <2>2, <2>3 DEF ConnectionsHaveAPool, Holds
<1>6. CASE Exit \/ Kill
  BY <1>6 DEF Exit, Kill, ProcessEnds, ConnectionsHaveAPool
<1>7. CASE PoolClosed
  BY <1>7 DEF PoolClosed, Release, generationVars, ConnectionsHaveAPool
<1>8. CASE ReleaseOther
  <2>1. m = n - 1 /\ UNCHANGED conn
    <3>1. Len(acquired') = n - 1
      <4>1. n \in 1..3
        BY <1>3, <1>8 DEF ReleaseOther
      <4>2. acquired' = SubSeq(Stack(n), 1, n - 1)
        BY <1>1, <1>3, <1>8 DEF ReleaseOther, Release
      <4>3. acquired' = Stack(n - 1)
        BY <4>1, <4>2, Pop
      <4>4. n - 1 \in 0..Len(Resources)
        BY <4>1 DEF Resources
      <4> QED
        BY <4>3, <4>4, StackFacts
    <3> QED
      BY <1>4, <1>8, <3>1 DEF ReleaseOther, Release, generationVars
  <2>2. n = 3 \/ n = 1
    BY <1>3, <1>8 DEF ReleaseOther
  <2> QED
    BY <1>3, <1>4, <2>1, <2>2 DEF ConnectionsHaveAPool
<1>9. CASE Acquire
  <2>1. m = n + 1 /\ UNCHANGED conn
    <3>1. n \in 0..2 /\ n + 1 \in 0..Len(Resources)
      BY <1>3, <1>9 DEF Acquire, Resources
    <3>2. acquired' = Stack(n + 1)
      BY <1>1, <1>3, <1>9, <3>1, Push DEF Acquire
    <3>3. Len(acquired') = n + 1
      BY <3>1, <3>2, StackFacts
    <3> QED
      BY <1>4, <1>9, <3>3 DEF Acquire, generationVars
  <2> QED
    BY <1>3, <1>4, <2>1 DEF ConnectionsHaveAPool
<1>10. CASE UNCHANGED <<acquired, conn>>
  BY <1>10 DEF ConnectionsHaveAPool, Holds
<1> QED
  BY <1>5, <1>6, <1>7, <1>8, <1>9, <1>10
     DEF Next, ConfigFails, WiringFails, Listen, ServeFails, Signal, ShutdownDone,
         ShutdownTimesOut, PoolCloses, Restart, Rest, vars, processVars,
         generationVars

----------------------------------------------------------------------------
(* A generation.                                                           *)

\* A generation keeps its invariant while its own variables stay.
LEMMA Bystander ==
    ASSUME NEW h \in Generations, GenInv(h),
           handler'[h] = handler[h], run'[h] = run[h], row'[h] = row[h],
           ctxDone'[h] = ctxDone[h], conn'[h] = conn[h], told'[h] = told[h],
           failed'[h] = failed[h]
    PROVE  GenInv(h)'
  BY DEF GenInv, Running, Saving, HasCause

LEMMA OnlyItsOwn ==
    ASSUME TypeOK, NEW g \in Generations, Generate(g),
           NEW h \in Generations, h # g, GenInv(h)
    PROVE  GenInv(h)'
<1>1. /\ handler'[h] = handler[h] /\ run'[h] = run[h] /\ row'[h] = row[h]
      /\ ctxDone'[h] = ctxDone[h] /\ conn'[h] = conn[h]
      /\ told'[h] = told[h] /\ failed'[h] = failed[h]
  BY DEF TypeOK, Generate, Request, Leave, TakeConnection, Created, CreateFails,
         Start, Decide, Saved, SaveFails, Tell, HandlerReturns, HandlerGivesUp
<1> QED
  BY <1>1, Bystander

LEMMA GenStep ==
    ASSUME TypeOK, NEW g \in Generations, Generate(g), GenInv(g)
    PROVE  GenInv(g)'
<1> USE DEF TypeOK, GenInv, Running, Saving, HasCause
<1>1. CASE Request(g)
  BY <1>1 DEF Request, Exits
<1>2. CASE Leave(g)
  BY <1>2 DEF Leave, Handling
<1>3. CASE TakeConnection(g)
  BY <1>3 DEF TakeConnection
<1>4. CASE Created(g)
  BY <1>4 DEF Created, Exits
<1>5. CASE CreateFails(g)
  BY <1>5 DEF CreateFails, Exits
<1>6. CASE Start(g)
  BY <1>6 DEF Start, Exits
<1>7. CASE Decide(g)
  BY <1>7 DEF Decide, Exits
<1>8. CASE Saved(g)
  BY <1>8 DEF Saved, Verdict, Exits
<1>9. CASE SaveFails(g)
  BY <1>9 DEF SaveFails, Verdict, Exits
<1>10. CASE Tell(g)
  BY <1>10 DEF Tell, Exits
<1>11. CASE HandlerReturns(g)
  BY <1>11 DEF HandlerReturns, Exits
<1>12. CASE HandlerGivesUp(g)
  BY <1>12 DEF HandlerGivesUp, Exits
<1> QED
  BY <1>1, <1>2, <1>3, <1>4, <1>5, <1>6, <1>7, <1>8, <1>9, <1>10, <1>11, <1>12
     DEF Generate

\* The end of the process, whatever it catches the generation doing.
LEMMA EndStep ==
    ASSUME TypeOK, NEW how \in Exits, ProcessEnds(how), NEW g \in Generations,
           GenInv(g), how = "clean" => ~Handling(g)
    PROVE  GenInv(g)'
<1>1. /\ handler'[g] = IF Handling(g) THEN how ELSE handler[g]
      /\ run'[g] = IF Running(g) THEN how ELSE run[g]
      /\ conn'[g] = FALSE
      /\ UNCHANGED <<ctxDone, told, failed>>
  BY DEF ProcessEnds
<1>2. \/ row'[g] = row[g]
      \/ conn[g] /\ row[g] = "none" /\ row'[g] = "streaming"
      \/ conn[g] /\ run[g] = "saving" /\ row'[g] = "completed"
      \/ conn[g] /\ run[g] = "failing" /\ row'[g] = "failed"
  BY DEF ProcessEnds
<1>3. handler'[g] \in {"none", "returned"} \cup Exits
  BY <1>1 DEF TypeOK, Handling
<1>4. ~Running(g)' /\ run'[g] \notin {"succeeded", "erred"}
  BY <1>1 DEF Running, Exits
<1>5. handler'[g] = "none" => handler[g] = "none"
  BY <1>1 DEF Exits
<1>6. row'[g] # row[g] => Running(g) \/ Handling(g)
  BY <1>2 DEF GenInv, Saving, Running, Handling
<1>7. row'[g] = "streaming" => HasCause(g)'
  <2>1. CASE Running(g) \/ Handling(g)
    BY <1>1, <2>1 DEF HasCause
  <2>2. CASE ~(Running(g) \/ Handling(g))
    BY <1>1, <1>6, <2>2 DEF GenInv, HasCause
  <2> QED
    BY <2>1, <2>2
<1>8. handler'[g] # "clean" /\ (run'[g] = "clean" => ctxDone'[g])
  BY <1>1 DEF GenInv, Handling, Running
<1>9. handler'[g] \in {"none", "creating"} =>
          run'[g] = "none" /\ row'[g] = "none" /\ told'[g] = "none"
  BY <1>1, <1>3, <1>5, <1>6 DEF GenInv, Running, Handling, Exits
<1>10. told'[g] = "done" => run'[g] = "ended" /\ row'[g] = "completed"
  BY <1>1, <1>2 DEF GenInv, Running, Saving
<1> QED
  BY <1>1, <1>4, <1>7, <1>8, <1>9, <1>10 DEF GenInv

LEMMA GenerationStep ==
    ASSUME TypeOK, ProcInv, [Next]_vars, NEW h \in Generations, GenInv(h)
    PROVE  GenInv(h)'
<1>1. CASE \E g \in Generations : Generate(g)
  BY <1>1, GenStep, OnlyItsOwn
<1>2. CASE Exit
  BY <1>2, EndStep DEF Exit, ProcInv, CutOff, Exits
<1>3. CASE Kill
  BY <1>3, EndStep DEF Kill, Exits
<1>4. CASE UNCHANGED generationVars
  BY <1>4, Bystander DEF generationVars
<1> QED
  BY <1>1, <1>2, <1>3, <1>4
     DEF Next, Acquire, ConfigFails, WiringFails, Listen, ServeFails, Signal, ShutdownDone,
         ShutdownTimesOut, ReleaseOther, PoolCloses, PoolClosed, Release,
         Restart, Rest, vars

----------------------------------------------------------------------------
LEMMA InitInv == Init => IInv
<1> SUFFICES ASSUME Init PROVE IInv
  OBVIOUS
<1>1. TypeOK
  BY TypeInit
<1>2. ProcInv /\ ConnectionsHaveAPool
  BY DEF Init, ProcInv, Handling, ConnectionsHaveAPool
<1>3. ASSUME NEW g \in Generations PROVE GenInv(g)
  BY DEF Init, GenInv, Running, Saving
<1> QED
  BY <1>1, <1>2, <1>3 DEF IInv

\* The two parts are an inductive invariant of the process over all its
\* boots.
THEOREM Invariance == Spec => []IInv
<1>1. IInv /\ [Next]_vars => IInv'
  BY TypeStep, ProcStep, PoolStep, GenerationStep DEF IInv
<1> QED
  BY <1>1, InitInv, PTL DEF Spec

\* Every variable keeps its type: what run holds is always a first part of
\* what it acquires, so it is given back in the reverse order.
THEOREM Typing == Spec => []TypeOK
<1>1. IInv => TypeOK
  BY DEF IInv
<1> QED
  BY <1>1, Invariance, PTL

\* While run has not given up on its handlers, they have Redis and their
\* Saves the pool; and every query that is under way has its telemetry.
THEOREM ResourcesOutlastTheirUsersHolds == Spec => []ResourcesOutlastTheirUsers
<1>1. ASSUME IInv, NEW g \in Generations
      PROVE  /\ Handling(g) => Holds("redis") \/ CutOff
             /\ Saving(g) => ~PoolIsClosed \/ CutOff \/ ctxDone[g]
             /\ conn[g] => Holds("telemetry")
  <2>1. TypeOK /\ ProcInv /\ ConnectionsHaveAPool /\ GenInv(g)
    BY <1>1 DEF IInv
  <2>2. PICK n \in 0..Len(Resources) : acquired = Stack(n)
    BY <2>1, Depth
  <2>3. /\ Len(acquired) = n /\ n \in 0..3 /\ Len(Resources) = 3
        /\ Holds("telemetry") <=> n >= 1
        /\ Holds("pool") <=> n >= 2
        /\ Holds("redis") <=> n >= 3
    BY <2>2, StackHolds DEF Resources
  <2>4. Handling(g) => CutOff \/ (Holds("redis") /\ ~PoolIsClosed)
    BY <2>1, <2>3 DEF ProcInv, PoolIsClosed
  <2>5. Saving(g) => Handling(g) \/ ctxDone[g]
    BY <2>1 DEF GenInv, Saving, Running, Handling
  <2>6. conn[g] => Holds("telemetry")
    BY <2>1, <2>3 DEF ConnectionsHaveAPool
  <2> QED
    BY <2>4, <2>5, <2>6
<1>2. IInv => ResourcesOutlastTheirUsers
  BY <1>1 DEF ResourcesOutlastTheirUsers
<1> QED
  BY <1>2, Invariance, PTL

\* A clean stop cuts off no handler, and no goroutine whose client stayed.
THEOREM CleanStopSparesWhoStayedHolds == Spec => []CleanStopSparesWhoStayed
<1>1. IInv => CleanStopSparesWhoStayed
  BY DEF IInv, GenInv, CleanStopSparesWhoStayed
<1> QED
  BY <1>1, Invariance, PTL

\* A client that was told of success finds its generation completed, through
\* any number of stops, kills and restarts.
THEOREM DoneIsDurableHolds == Spec => []DoneIsDurable
<1>1. IInv => DoneIsDurable
  BY DEF IInv, GenInv, DoneIsDurable
<1> QED
  BY <1>1, Invariance, PTL

\* A row that stays "streaming" has one of the causes listed, and no other.
THEOREM StuckHasItsCauseHolds == Spec => []StuckHasItsCause
<1>1. IInv => StuckHasItsCause
  BY DEF IInv, GenInv, HasCause, StuckHasItsCause
<1> QED
  BY <1>1, Invariance, PTL

----------------------------------------------------------------------------
(* The refinement of GenerationRecord.                                     *)

\* What the verdict needs of the row: a run that has not saved its verdict is
\* one of a streaming row, one that has is one of some row, and nothing is
\* told before the run's end.
RowInv(g) ==
    /\ run[g] \in {"starting", "working", "saving", "failing"} =>
          row[g] = "streaming"
    /\ run[g] \in {"succeeded", "erred"} => row[g] # "none"
    /\ told[g] # "none" => run[g] = "ended"

LEMMA RowInvStep ==
    ASSUME TypeOK, ProcInv, [Next]_vars, NEW h \in Generations, GenInv(h),
           RowInv(h)
    PROVE  RowInv(h)'
<1> USE DEF TypeOK, GenInv, RowInv
<1>1. ASSUME NEW g \in Generations, Generate(g)
      PROVE  RowInv(h)'
  <2>1. CASE \/ Request(g) \/ Leave(g) \/ TakeConnection(g)
             \/ HandlerReturns(g) \/ HandlerGivesUp(g)
    BY <2>1 DEF Request, Leave, TakeConnection, HandlerReturns, HandlerGivesUp
  <2>2. CASE Created(g)
    BY <2>2 DEF Created
  <2>3. CASE CreateFails(g)
    BY <2>3 DEF CreateFails
  <2>4. CASE Start(g) \/ Decide(g)
    BY <2>4 DEF Start, Decide
  <2>5. CASE Saved(g)
    BY <2>5 DEF Saved, Verdict
  <2>6. CASE SaveFails(g)
    BY <2>6 DEF SaveFails, Verdict
  <2>7. CASE Tell(g)
    BY <2>7 DEF Tell
  <2> QED
    BY <1>1, <2>1, <2>2, <2>3, <2>4, <2>5, <2>6, <2>7 DEF Generate
<1>2. ASSUME NEW how \in Exits, ProcessEnds(how)
      PROVE  RowInv(h)'
  <2>1. run'[h] = (IF Running(h) THEN how ELSE run[h]) /\ UNCHANGED told
    BY <1>2 DEF ProcessEnds
  <2>2. run'[h] \in {"none", "ended"} \cup Exits
    BY <2>1 DEF Running
  <2> QED
    BY <2>1, <2>2 DEF Exits, Running
<1>3. CASE UNCHANGED generationVars
  BY <1>3 DEF generationVars
<1>4. (Exit => ProcessEnds(exit) /\ exit \in Exits) /\ (Kill => ProcessEnds("killed"))
  BY DEF Exit, Kill, ProcInv, Exits
<1> QED
  BY <1>1, <1>2, <1>3, <1>4
     DEF Next, Acquire, ConfigFails, WiringFails, Listen, ServeFails, Signal,
         ShutdownDone, ShutdownTimesOut, ReleaseOther, PoolCloses, PoolClosed,
         Release, Restart, Rest, vars, Exits

LEMMA RecordRows ==
    ASSUME NEW g \in Generations, NEW S
    PROVE  /\ row[g] = "none" => Row(g, S) = Record(g, S)!NoRecord
           /\ row[g] = "streaming" => Row(g, S) = Record(g, S)!Streaming
           /\ row[g] = "completed" => Row(g, S) = Record(g, S)!Completed
           /\ row[g] = "failed" => Row(g, S) = Record(g, S)!Failed
           /\ row[g] # "none" => Row(g, S) # Record(g, S)!NoRecord
BY DEF Row, Record!NoRecord, Record!Streaming, Record!Completed, Record!Failed

\* A row changes by one of the two Saves, and not after a verdict; the end of
\* the process is a Save that was under way, or none.
LEMMA RowMoves ==
    ASSUME IInv, [Next]_vars, NEW h \in Generations, RowInv(h),
           row'[h] # row[h]
    PROVE  /\ told[h] = "none" /\ told'[h] = told[h]
           /\ \/ row[h] = "none" /\ row'[h] = "streaming"
              \/ row[h] = "streaming" /\ row'[h] \in {"completed", "failed"}
<1> USE DEF IInv, TypeOK, GenInv, RowInv
<1>1. CASE \E g \in Generations : Generate(g)
  <2>1. PICK g \in Generations : Generate(g)
    BY <1>1
  <2>2. Created(g) \/ CreateFails(g) \/ Saved(g) \/ SaveFails(g)
    BY <2>1 DEF Generate, Request, Leave, TakeConnection, Start, Decide, Tell,
                HandlerReturns, HandlerGivesUp
  <2>3. g = h /\ UNCHANGED told
    BY <2>2 DEF Created, CreateFails, Saved, SaveFails
  <2>4. CASE Created(g) \/ CreateFails(g)
    BY <2>3, <2>4 DEF Created, CreateFails
  <2>5. CASE Saved(g) \/ SaveFails(g)
    BY <2>3, <2>5 DEF Saved, SaveFails, Verdict
  <2> QED
    BY <2>2, <2>4, <2>5
<1>2. CASE Exit \/ Kill
  <2>1. UNCHANGED told
    BY <1>2 DEF Exit, Kill, ProcessEnds
  <2>2. \/ conn[h] /\ row[h] = "none" /\ row'[h] = "streaming"
        \/ conn[h] /\ run[h] = "saving" /\ row'[h] = "completed"
        \/ conn[h] /\ run[h] = "failing" /\ row'[h] = "failed"
    BY <1>2 DEF Exit, Kill, ProcessEnds
  <2> QED
    BY <2>1, <2>2 DEF Saving
<1>3. CASE UNCHANGED generationVars
  BY <1>3 DEF generationVars
<1> QED
  BY <1>1, <1>2, <1>3
     DEF Next, Acquire, ConfigFails, WiringFails, Listen, ServeFails, Signal,
         ShutdownDone, ShutdownTimesOut, ReleaseOther, PoolCloses, PoolClosed,
         Release, Restart, Rest, vars

\* A verdict is told once, of the row as it is: success of a completed one.
LEMMA VerdictMoves ==
    ASSUME IInv, [Next]_vars, NEW h \in Generations, RowInv(h),
           told'[h] # told[h]
    PROVE  /\ told[h] = "none" /\ row'[h] = row[h]
           /\ \/ told'[h] = "done" /\ row[h] = "completed"
              \/ told'[h] = "error" /\ row[h] # "none"
<1>1. PICK g \in Generations : Tell(g)
  BY DEF Next, Generate, Request, Leave, TakeConnection, Created, CreateFails,
         Start, Decide, Saved, SaveFails, HandlerReturns, HandlerGivesUp, Exit, Kill,
         ProcessEnds, Acquire, ConfigFails, WiringFails, Listen, ServeFails,
         Signal, ShutdownDone, ShutdownTimesOut, ReleaseOther, PoolCloses,
         PoolClosed, Release, Restart, Rest, vars, generationVars
<1>2. g = h
  BY <1>1 DEF Tell, IInv, TypeOK
<1> QED
  BY <1>1, <1>2 DEF Tell, IInv, TypeOK, GenInv, RowInv

\* Over any number of boots, stops and kills, each generation's row and
\* verdict take the steps of GenerationRecord and no others: a Save that the
\* process's end catches is one of its two, or did not happen, and a restart
\* is a stutter.
THEOREM RowsFollowRecord ==
    ASSUME NEW g \in Generations, NEW S
    PROVE  Spec => Record(g, S)!Spec
<1>1. Init => Record(g, S)!Init
  BY RecordRows DEF Init, Record!Init
<1>2. IInv /\ RowInv(g) /\ [Next]_vars
         => [Record(g, S)!Next]_(Record(g, S)!vars)
  <2> SUFFICES ASSUME IInv, RowInv(g), [Next]_vars
               PROVE  [Record(g, S)!Next]_(Record(g, S)!vars)
    OBVIOUS
  <2>1. /\ row[g] \in {"none", "streaming", "completed", "failed"}
        /\ row'[g] = row[g] => Row(g, S)' = Row(g, S)
    BY DEF IInv, TypeOK, Row
  <2>2. CASE row'[g] # row[g]
    <3>1. /\ told[g] = "none" /\ told'[g] = told[g]
          /\ \/ row[g] = "none" /\ row'[g] = "streaming"
             \/ row[g] = "streaming" /\ row'[g] \in {"completed", "failed"}
      BY <2>2, RowMoves
    <3>2. CASE row[g] = "none" /\ row'[g] = "streaming"
      <4>1. Record(g, S)!Create
        BY <3>1, <3>2 DEF Record!Create, Record!NoRecord, Record!Streaming, Row
      <4> QED
        BY <4>1 DEF Record!Next
    <3>3. CASE row[g] = "streaming" /\ row'[g] \in {"completed", "failed"}
      <4>1. Record(g, S)!Settle
        BY <3>1, <3>3
           DEF Record!Settle, Record!Streaming, Record!Completed,
               Record!Failed, Row
      <4> QED
        BY <4>1 DEF Record!Next
    <3> QED
      BY <3>1, <3>2, <3>3
  <2>3. CASE told'[g] # told[g]
    <3>1. /\ told[g] = "none" /\ row'[g] = row[g]
          /\ \/ told'[g] = "done" /\ row[g] = "completed"
             \/ told'[g] = "error" /\ row[g] # "none"
      BY <2>3, VerdictMoves
    <3>2. Record(g, S)!TellDone \/ Record(g, S)!TellError
      BY <2>1, <3>1, RecordRows DEF Record!TellDone, Record!TellError
    <3> QED
      BY <3>2 DEF Record!Next
  <2>4. CASE row'[g] = row[g] /\ told'[g] = told[g]
    BY <2>1, <2>4 DEF Record!vars
  <2> QED
    BY <2>2, <2>3, <2>4
<1>3. Init => RowInv(g)
  BY DEF Init, RowInv
<1>4. IInv /\ RowInv(g) /\ [Next]_vars => RowInv(g)'
  BY RowInvStep DEF IInv
<1> QED
  BY <1>1, <1>2, <1>3, <1>4, Invariance, PTL DEF Spec, Record!Spec

----------------------------------------------------------------------------
(* The refinement of RunStages.                                            *)

\* A handler that streams has started its goroutine.
HasRun(g) == handler[g] = "streaming" => run[g] # "none"

LEMMA HasRunStep ==
    ASSUME IInv, [Next]_vars, NEW h \in Generations, HasRun(h)
    PROVE  HasRun(h)'
<1> USE DEF IInv, TypeOK, GenInv, HasRun
<1>1. ASSUME NEW g \in Generations, Generate(g)
      PROVE  HasRun(h)'
  BY <1>1 DEF Generate, Request, Leave, TakeConnection, Created, CreateFails,
              Start, Decide, Saved, SaveFails, Tell, HandlerReturns,
              HandlerGivesUp
<1>2. CASE Exit \/ Kill
  BY <1>2 DEF Exit, Kill, ProcessEnds, Handling, Exits, ProcInv, CutOff
<1>3. CASE UNCHANGED generationVars
  BY <1>3 DEF generationVars
<1> QED
  BY <1>1, <1>2, <1>3
     DEF Next, Acquire, ConfigFails, WiringFails, Listen, ServeFails, Signal,
         ShutdownDone, ShutdownTimesOut, ReleaseOther, PoolCloses, PoolClosed,
         Release, Restart, Rest, vars

\* Its own steps are steps of its stages, or of its handler and connection.
LEMMA OwnStages ==
    ASSUME IInv, NEW g \in Generations, HasRun(g), Generate(g)
    PROVE  [Run(g)!Next]_(Run(g)!vars)
<1> USE DEF IInv, TypeOK, GenInv, HasRun, Run!Next
<1>1. CASE Request(g) \/ TakeConnection(g)
  BY <1>1 DEF Request, TakeConnection, Run!vars, Stage
<1>2. CASE Leave(g)
  <2>1. Run(g)!Cancel
    BY <1>2 DEF Leave, Run!Cancel, Stage
  <2> QED
    BY <2>1
<1>3. CASE Created(g)
  <2>1. Stage(g) = "none" /\ Stage(g)' = "offering"
    BY <1>3 DEF Created, Stage, StageOf
  <2>2. Run(g)!Create
    BY <1>3, <2>1 DEF Created, Run!Create
  <2> QED
    BY <2>2
<1>4. CASE CreateFails(g)
  <2>1. Stage(g) = "none" /\ Stage(g)' = "ended"
    BY <1>4 DEF CreateFails, Stage, StageOf
  <2>2. Run(g)!Refuse
    BY <1>4, <2>1 DEF CreateFails, Run!Refuse
  <2> QED
    BY <2>2
<1>5. CASE Start(g)
  <2>1. Stage(g) = "offering" /\ UNCHANGED <<handler, row, ctxDone>>
    BY <1>5 DEF Start, Stage, StageOf
  <2>2. \/ Stage(g)' = "working"
        \/ ctxDone[g] /\ Stage(g)' = "ended"
    BY <1>5 DEF Start, Stage, StageOf
  <2>3. Run(g)!Start \/ Run(g)!Abandon
    BY <2>1, <2>2 DEF Run!Start, Run!Abandon
  <2> QED
    BY <2>3
<1>6. CASE Decide(g)
  <2>1. Stage(g) = "working" /\ UNCHANGED <<handler, row, ctxDone>>
    BY <1>6 DEF Decide, Stage, StageOf
  <2>2. \/ ~ctxDone[g] /\ Stage(g)' = "completing"
        \/ Stage(g)' = "failing"
    BY <1>6 DEF Decide, Stage, StageOf
  <2>3. Run(g)!Decide
    BY <2>1, <2>2 DEF Run!Decide
  <2> QED
    BY <2>3
<1>7. CASE Saved(g) \/ SaveFails(g)
  <2>1. /\ Stage(g) = IF run[g] = "saving" THEN "completing" ELSE "failing"
        /\ Stage(g)' = "ended"
    BY <1>7 DEF Saved, SaveFails, Stage, StageOf
  <2>2. Verdict(g) = Run(g)!Verdict
    BY <2>1 DEF Verdict, Run!Verdict
  <2>3. Run(g)!Settle
    BY <1>7, <2>1, <2>2 DEF Saved, SaveFails, Run!Settle
  <2> QED
    BY <2>3
<1>8. CASE Tell(g)
  <2>1. Stage(g) = "ended" /\ Stage(g)' = "ended"
    BY <1>8 DEF Tell, Stage, StageOf
  <2> QED
    BY <1>8, <2>1 DEF Tell, Run!vars
<1>9. CASE HandlerReturns(g)
  <2>1. Stage(g)' = Stage(g)
    BY <1>9 DEF HandlerReturns, Stage
  <2> QED
    BY <1>9, <2>1 DEF HandlerReturns, Run!vars
<1>10. CASE HandlerGivesUp(g)
  <2>1. Stage(g)' = Stage(g) /\ UNCHANGED row /\ ctxDone'[g]
    BY <1>10 DEF HandlerGivesUp, Stage
  <2>2. CASE ctxDone[g]
    BY <2>1, <2>2 DEF Run!vars
  <2>3. CASE ~ctxDone[g]
    <3>1. Run(g)!Cancel
      BY <1>10, <2>1, <2>3 DEF HandlerGivesUp, Run!Cancel
    <3> QED
      BY <3>1
  <2> QED
    BY <2>2, <2>3
<1> QED
  BY <1>1, <1>2, <1>3, <1>4, <1>5, <1>6, <1>7, <1>8, <1>9, <1>10 DEF Generate

\* The end of the process is a crash to a goroutine that is under way, and
\* nothing to any other.
LEMMA EndStages ==
    ASSUME IInv, NEW how \in Exits, ProcessEnds(how), NEW g \in Generations,
           HasRun(g), RowInv(g)
    PROVE  [Run(g)!Next]_(Run(g)!vars)
<1> USE DEF IInv, TypeOK, GenInv, HasRun, RowInv
<1>1. /\ handler'[g] = IF Handling(g) THEN how ELSE handler[g]
      /\ run'[g] = IF Running(g) THEN how ELSE run[g]
      /\ UNCHANGED ctxDone
      /\ \/ row'[g] = row[g]
         \/ conn[g] /\ row[g] = "none" /\ row'[g] = "streaming"
         \/ conn[g] /\ run[g] = "saving" /\ row'[g] = "completed"
         \/ conn[g] /\ run[g] = "failing" /\ row'[g] = "failed"
  BY DEF ProcessEnds
<1>2. CASE handler[g] = "none"
  <2>1. handler'[g] = "none" /\ ~conn[g]
    BY <1>1, <1>2 DEF Handling, Saving
  <2> QED
    BY <1>1, <1>2, <2>1 DEF Run!vars, Stage
<1>3. CASE handler[g] # "none"
  <2>1. Stage(g)' = "ended"
    <3>1. handler'[g] \notin {"none", "creating"}
      BY <1>1, <1>3 DEF Handling, Exits
    <3>2. run'[g] \in {"none", "ended"} \cup Exits
      BY <1>1 DEF Running
    <3> QED
      BY <3>1, <3>2 DEF Stage, StageOf, Exits
  <2>2. \/ row'[g] = row[g]
        \/ Stage(g) = "none" /\ row'[g] = "streaming"
        \/ Stage(g) \in {"completing", "failing"} /\ row'[g] = Run(g)!Verdict
    BY <1>1, <1>3 DEF Saving, Stage, StageOf, Run!Verdict
  <2>3. Run(g)!Crash
    BY <1>1, <2>1, <2>2 DEF Run!Crash
  <2> QED
    BY <2>3 DEF Run!Next
<1> QED
  BY <1>2, <1>3

\* For any number of generations and boots, each goroutine is one that
\* RunStages allows, as the goroutine GenerateVariations has in full is.
THEOREM RunsHaveStages ==
    ASSUME NEW g \in Generations
    PROVE  Spec => Run(g)!Spec
<1>1. Init => Run(g)!Init
  BY DEF Init, Run!Init, Stage
<1>2. IInv /\ HasRun(g) /\ RowInv(g) /\ [Next]_vars
         => [Run(g)!Next]_(Run(g)!vars)
  <2> SUFFICES ASSUME IInv, HasRun(g), RowInv(g), [Next]_vars
               PROVE  [Run(g)!Next]_(Run(g)!vars)
    OBVIOUS
  <2>1. ASSUME NEW h \in Generations, Generate(h)
        PROVE  [Run(g)!Next]_(Run(g)!vars)
    <3>1. CASE h = g
      BY <2>1, <3>1, OwnStages
    <3>2. CASE h # g
      <4>1. /\ handler'[g] = handler[g] /\ run'[g] = run[g]
            /\ row'[g] = row[g] /\ ctxDone'[g] = ctxDone[g]
        BY <2>1, <3>2
           DEF IInv, TypeOK, Generate, Request, Leave, TakeConnection,
               Created, CreateFails, Start, Decide, Saved, SaveFails, Tell,
               HandlerReturns, HandlerGivesUp
      <4> QED
        BY <4>1 DEF Run!vars, Stage
    <3> QED
      BY <3>1, <3>2
  <2>2. CASE Exit \/ Kill
    <3>1. \E how \in Exits : ProcessEnds(how)
      BY <2>2 DEF Exit, Kill, IInv, ProcInv, Exits
    <3> QED
      BY <3>1, EndStages
  <2>3. CASE UNCHANGED generationVars
    BY <2>3 DEF generationVars, Run!vars, Stage
  <2> QED
    BY <2>1, <2>2, <2>3
       DEF Next, Acquire, ConfigFails, WiringFails, Listen, ServeFails, Signal,
           ShutdownDone, ShutdownTimesOut, ReleaseOther, PoolCloses,
           PoolClosed, Release, Restart, Rest, vars
<1>3. Init => HasRun(g) /\ RowInv(g)
  BY DEF Init, HasRun, RowInv
<1>4. IInv /\ HasRun(g) /\ RowInv(g) /\ [Next]_vars => HasRun(g)' /\ RowInv(g)'
  BY HasRunStep, RowInvStep DEF IInv
<1> QED
  BY <1>1, <1>2, <1>3, <1>4, Invariance, PTL DEF Spec, Run!Spec
=============================================================================
