---------------------- MODULE IdempotentGenerateProofs ----------------------
(***************************************************************************)
(* The safety invariants of IdempotentGenerate for any number of requests  *)
(* and any combination of faults.                                          *)
(*                                                                         *)
(* None of the three is inductive.  What they lack is where each handler   *)
(* and its run goroutine can be together (StageInv), that a reservation is *)
(* signed by its only owner (OwnerInv), and that a generation a handler    *)
(* maps has got past the point where it can be abandoned (MapInv).         *)
(*                                                                         *)
(* Which requests have one key is ContentKey's, whose theorems follow:     *)
(* the two state machines share no name, so this module extends both.      *)
(***************************************************************************)
EXTENDS IdempotentGenerate, ContentKeyInvariant, FiniteSetTheorems, TLAPS

Checking == {"reserve", "resolve", "lookup"}

\* Before Execute a request has no row and no run; a settled row has no run
\* left to change it.
StageInv ==
    \A r \in Requests :
        /\ pc[r] \in Checking \cup {"execute"} =>
              rec[r] = "none" /\ run[r] = "none"
        /\ run[r] \in {"offering", "working", "completing", "failing"} =>
              rec[r] = "streaming"
        /\ pc[r] \in {"lookup", "replayed"} => found[r] \in Requests

\* A handler that has not decided has claimed nothing, one past Execute's
\* door has.  An owner's value is in the store, under its name.
OwnerInv ==
    /\ \A r \in Requests :
          /\ pc[r] \in Checking => claim[r] = "none"
          /\ claim[r] = "none" =>
                pc[r] \in Checking \cup {"conflict", "replayed", "done"}
    /\ key # Free => writer \in Requests
    /\ ~Bypassed => \A r \in Requests : Owns(r) => key # Free /\ writer = r

\* The generation's run has had its generation_started taken and will settle
\* the row, or has.
Delivered(r) ==
    \/ rec[r] \in {"completed", "failed"}
    \/ rec[r] = "streaming" /\ run[r] \in {"working", "completing", "failing"}

MapInv ==
    ~Crashes /\ ~FallibleRepo =>
        \A r \in Requests :
            key = r \/ pc[r] \in {"map", "relay", "unmapped"} => Delivered(r)

IInv == TypeOK /\ StageInv /\ OwnerInv /\ MapInv /\ ReplayIsCompleted

----------------------------------------------------------------------------
\* Every variable keeps its type, whatever fails.
THEOREM Typing == Spec => []TypeOK
<1>1. Init => TypeOK
  BY DEF Init, TypeOK, Values, Statuses, Steps, Over, Claims, Stages
<1>2. TypeOK /\ [Next]_vars => TypeOK'
  <2> SUFFICES ASSUME TypeOK, [Next]_vars
               PROVE  TypeOK'
    OBVIOUS
  <2> USE DEF TypeOK, Values, Statuses, Steps, Over, Claims, Stages,
              Goto, Claim, Put, storeVars, handlerVars
  <2>1. ASSUME NEW r \in Requests, CheckStep(r)
        PROVE  TypeOK'
    BY <2>1 DEF CheckStep, ReserveWins, ReserveLoses, ReserveErrs,
                ResolvePending, ResolveMapped, ResolveMisses, LookupReplays,
                LookupConflicts, LookupProceeds
  <2>2. ASSUME NEW r \in Requests, StreamStep(r)
        PROVE  TypeOK'
    BY <2>2 DEF StreamStep, ExecuteErrs, Execute, FirstEvent, NoEvent,
                SaveMapping, SaveMappingErrs, StreamEnds, UnmappedStreamEnds,
                Release, ReleaseErrs
  <2>3. ASSUME NEW r \in Requests, RunStep(r)
        PROVE  TypeOK'
    BY <2>3 DEF RunStep, AbandonStart, Decide, SettleRecord, SettleErrs,
                Verdict
  <2>4. ASSUME NEW r \in Requests, WriteFails(r) \/ Cancel(r) \/ Crash(r)
        PROVE  TypeOK'
    BY <2>4 DEF WriteFails, Cancel, Crash
  <2>5. CASE Expire
    BY <2>5 DEF Expire
  <2>6. CASE UNCHANGED vars
    BY <2>6 DEF vars
  <2> QED
    BY <2>1, <2>2, <2>3, <2>4, <2>5, <2>6 DEF Next, Rest
<1> QED
  BY <1>1, <1>2, PTL DEF Spec

----------------------------------------------------------------------------
(* Each part of the invariant is kept by every step.                       *)

\* A row changes only under the run that Execute started for it.
LEMMA StageStep ==
    ASSUME TypeOK, StageInv, [Next]_vars
    PROVE  StageInv'
<1> USE DEF TypeOK, Values, Statuses, Steps, Over, Claims, Stages, Goto,
            Claim, Put, storeVars, handlerVars, Checking, StageInv
<1>1. ASSUME NEW r \in Requests, CheckStep(r)
      PROVE  StageInv'
  <2>1. CASE ReserveWins(r)
    BY <2>1 DEF ReserveWins
  <2>2. CASE ReserveLoses(r)
    BY <2>2 DEF ReserveLoses
  <2>3. CASE ReserveErrs(r)
    BY <2>3 DEF ReserveErrs
  <2>4. CASE ResolvePending(r)
    BY <2>4 DEF ResolvePending
  <2>5. CASE ResolveMapped(r)
    BY <2>5 DEF ResolveMapped
  <2>6. CASE ResolveMisses(r)
    BY <2>6 DEF ResolveMisses
  <2>7. CASE LookupReplays(r)
    BY <2>7 DEF LookupReplays
  <2>8. CASE LookupConflicts(r)
    BY <2>8 DEF LookupConflicts
  <2>9. CASE LookupProceeds(r)
    BY <2>9 DEF LookupProceeds
  <2> QED
    BY <1>1, <2>1, <2>2, <2>3, <2>4, <2>5, <2>6, <2>7, <2>8, <2>9 DEF CheckStep
<1>2. ASSUME NEW r \in Requests, StreamStep(r)
      PROVE  StageInv'
  <2>1. CASE ExecuteErrs(r)
    BY <2>1 DEF ExecuteErrs
  <2>2. CASE Execute(r)
    BY <2>2 DEF Execute
  <2>3. CASE FirstEvent(r)
    BY <2>3 DEF FirstEvent
  <2>4. CASE NoEvent(r)
    BY <2>4 DEF NoEvent
  <2>5. CASE SaveMapping(r)
    BY <2>5 DEF SaveMapping
  <2>6. CASE SaveMappingErrs(r)
    BY <2>6 DEF SaveMappingErrs
  <2>7. CASE StreamEnds(r)
    BY <2>7 DEF StreamEnds, StreamOver
  <2>8. CASE UnmappedStreamEnds(r)
    BY <2>8 DEF UnmappedStreamEnds, StreamOver
  <2>9. CASE Release(r)
    BY <2>9 DEF Release
  <2>10. CASE ReleaseErrs(r)
    BY <2>10 DEF ReleaseErrs
  <2> QED
    BY <1>2, <2>1, <2>2, <2>3, <2>4, <2>5, <2>6, <2>7, <2>8, <2>9, <2>10 DEF StreamStep
<1>3. ASSUME NEW r \in Requests, RunStep(r)
      PROVE  StageInv'
  <2>1. CASE AbandonStart(r)
    BY <2>1 DEF AbandonStart
  <2>2. CASE Decide(r)
    BY <2>2 DEF Decide
  <2>3. CASE SettleRecord(r)
    BY <2>3 DEF SettleRecord, Verdict
  <2>4. CASE SettleErrs(r)
    BY <2>4 DEF SettleErrs, Verdict
  <2> QED
    BY <1>3, <2>1, <2>2, <2>3, <2>4 DEF RunStep
<1>4. ASSUME NEW r \in Requests, WriteFails(r) \/ Cancel(r) \/ Crash(r)
      PROVE  StageInv'
  BY <1>4 DEF WriteFails, Cancel, Crash
<1>5. CASE Expire
  BY <1>5 DEF Expire
<1>6. CASE UNCHANGED vars
  BY <1>6 DEF vars
<1> QED
  BY <1>1, <1>2, <1>3, <1>4, <1>5, <1>6 DEF Next, Rest

\* A replayed generation has settled, and only a run could change its row.
LEMMA ReplayStep ==
    ASSUME TypeOK, StageInv, ReplayIsCompleted, [Next]_vars
    PROVE  ReplayIsCompleted'
<1> USE DEF TypeOK, Values, Statuses, Steps, Over, Claims, Stages, Goto,
            Claim, Put, storeVars, handlerVars, Checking, StageInv,
            ReplayIsCompleted
<1>1. ASSUME NEW r \in Requests, CheckStep(r)
      PROVE  ReplayIsCompleted'
  <2>1. CASE ReserveWins(r)
    BY <2>1 DEF ReserveWins
  <2>2. CASE ReserveLoses(r)
    BY <2>2 DEF ReserveLoses
  <2>3. CASE ReserveErrs(r)
    BY <2>3 DEF ReserveErrs
  <2>4. CASE ResolvePending(r)
    BY <2>4 DEF ResolvePending
  <2>5. CASE ResolveMapped(r)
    BY <2>5 DEF ResolveMapped
  <2>6. CASE ResolveMisses(r)
    BY <2>6 DEF ResolveMisses
  <2>7. CASE LookupReplays(r)
    BY <2>7 DEF LookupReplays
  <2>8. CASE LookupConflicts(r)
    BY <2>8 DEF LookupConflicts
  <2>9. CASE LookupProceeds(r)
    BY <2>9 DEF LookupProceeds
  <2> QED
    BY <1>1, <2>1, <2>2, <2>3, <2>4, <2>5, <2>6, <2>7, <2>8, <2>9 DEF CheckStep
<1>2. ASSUME NEW r \in Requests, StreamStep(r)
      PROVE  ReplayIsCompleted'
  <2>1. CASE ExecuteErrs(r)
    BY <2>1 DEF ExecuteErrs
  <2>2. CASE Execute(r)
    BY <2>2 DEF Execute
  <2>3. CASE FirstEvent(r)
    BY <2>3 DEF FirstEvent
  <2>4. CASE NoEvent(r)
    BY <2>4 DEF NoEvent
  <2>5. CASE SaveMapping(r)
    BY <2>5 DEF SaveMapping
  <2>6. CASE SaveMappingErrs(r)
    BY <2>6 DEF SaveMappingErrs
  <2>7. CASE StreamEnds(r)
    BY <2>7 DEF StreamEnds, StreamOver
  <2>8. CASE UnmappedStreamEnds(r)
    BY <2>8 DEF UnmappedStreamEnds, StreamOver
  <2>9. CASE Release(r)
    BY <2>9 DEF Release
  <2>10. CASE ReleaseErrs(r)
    BY <2>10 DEF ReleaseErrs
  <2> QED
    BY <1>2, <2>1, <2>2, <2>3, <2>4, <2>5, <2>6, <2>7, <2>8, <2>9, <2>10 DEF StreamStep
<1>3. ASSUME NEW r \in Requests, RunStep(r)
      PROVE  ReplayIsCompleted'
  <2>1. CASE AbandonStart(r)
    BY <2>1 DEF AbandonStart
  <2>2. CASE Decide(r)
    BY <2>2 DEF Decide
  <2>3. CASE SettleRecord(r)
    BY <2>3 DEF SettleRecord, Verdict
  <2>4. CASE SettleErrs(r)
    BY <2>4 DEF SettleErrs, Verdict
  <2> QED
    BY <1>3, <2>1, <2>2, <2>3, <2>4 DEF RunStep
<1>4. ASSUME NEW r \in Requests, WriteFails(r) \/ Cancel(r) \/ Crash(r)
      PROVE  ReplayIsCompleted'
  BY <1>4 DEF WriteFails, Cancel, Crash
<1>5. CASE Expire
  BY <1>5 DEF Expire
<1>6. CASE UNCHANGED vars
  BY <1>6 DEF vars
<1> QED
  BY <1>1, <1>2, <1>3, <1>4, <1>5, <1>6 DEF Next, Rest

\* Only the owner, its expiry or a bypass touches the key it owns.
LEMMA OwnerStep ==
    ASSUME TypeOK, OwnerInv, [Next]_vars
    PROVE  OwnerInv'
<1> USE DEF TypeOK, Values, Statuses, Steps, Over, Claims, Stages, Goto,
            Claim, Put, storeVars, handlerVars, Checking, OwnerInv, Bypassed,
            Owns
<1>1. ASSUME NEW r \in Requests, CheckStep(r)
      PROVE  OwnerInv'
  <2>1. CASE ReserveWins(r)
    BY FreeAssumption, <2>1 DEF ReserveWins
  <2>2. CASE ReserveLoses(r)
    BY FreeAssumption, <2>2 DEF ReserveLoses
  <2>3. CASE ReserveErrs(r)
    BY FreeAssumption, <2>3 DEF ReserveErrs
  <2>4. CASE ResolvePending(r)
    BY FreeAssumption, <2>4 DEF ResolvePending
  <2>5. CASE ResolveMapped(r)
    BY FreeAssumption, <2>5 DEF ResolveMapped
  <2>6. CASE ResolveMisses(r)
    BY FreeAssumption, <2>6 DEF ResolveMisses
  <2>7. CASE LookupReplays(r)
    BY FreeAssumption, <2>7 DEF LookupReplays
  <2>8. CASE LookupConflicts(r)
    BY FreeAssumption, <2>8 DEF LookupConflicts
  <2>9. CASE LookupProceeds(r)
    BY FreeAssumption, <2>9 DEF LookupProceeds
  <2> QED
    BY <1>1, <2>1, <2>2, <2>3, <2>4, <2>5, <2>6, <2>7, <2>8, <2>9 DEF CheckStep
<1>2. ASSUME NEW r \in Requests, StreamStep(r)
      PROVE  OwnerInv'
  <2>1. CASE ExecuteErrs(r)
    BY FreeAssumption, <2>1 DEF ExecuteErrs
  <2>2. CASE Execute(r)
    BY FreeAssumption, <2>2 DEF Execute
  <2>3. CASE FirstEvent(r)
    BY FreeAssumption, <2>3 DEF FirstEvent
  <2>4. CASE NoEvent(r)
    BY FreeAssumption, <2>4 DEF NoEvent
  <2>5. CASE SaveMapping(r)
    BY FreeAssumption, <2>5 DEF SaveMapping
  <2>6. CASE SaveMappingErrs(r)
    BY FreeAssumption, <2>6 DEF SaveMappingErrs
  <2>7. CASE StreamEnds(r)
    BY FreeAssumption, <2>7 DEF StreamEnds, StreamOver
  <2>8. CASE UnmappedStreamEnds(r)
    BY FreeAssumption, <2>8 DEF UnmappedStreamEnds, StreamOver
  <2>9. CASE Release(r)
    BY FreeAssumption, <2>9 DEF Release
  <2>10. CASE ReleaseErrs(r)
    BY FreeAssumption, <2>10 DEF ReleaseErrs
  <2> QED
    BY <1>2, <2>1, <2>2, <2>3, <2>4, <2>5, <2>6, <2>7, <2>8, <2>9, <2>10 DEF StreamStep
<1>3. ASSUME NEW r \in Requests, RunStep(r)
      PROVE  OwnerInv'
  <2>1. CASE AbandonStart(r)
    BY FreeAssumption, <2>1 DEF AbandonStart
  <2>2. CASE Decide(r)
    BY FreeAssumption, <2>2 DEF Decide
  <2>3. CASE SettleRecord(r)
    BY FreeAssumption, <2>3 DEF SettleRecord, Verdict
  <2>4. CASE SettleErrs(r)
    BY FreeAssumption, <2>4 DEF SettleErrs, Verdict
  <2> QED
    BY <1>3, <2>1, <2>2, <2>3, <2>4 DEF RunStep
<1>4. ASSUME NEW r \in Requests, WriteFails(r) \/ Cancel(r) \/ Crash(r)
      PROVE  OwnerInv'
  BY FreeAssumption, <1>4 DEF WriteFails, Cancel, Crash
<1>5. CASE Expire
  BY FreeAssumption, <1>5 DEF Expire
<1>6. CASE UNCHANGED vars
  BY <1>6 DEF vars
<1> QED
  BY <1>1, <1>2, <1>3, <1>4, <1>5, <1>6 DEF Next, Rest

\* A mapping is saved after FirstEvent, and what it names has to settle.
LEMMA MapStep ==
    ASSUME TypeOK, StageInv, MapInv, [Next]_vars
    PROVE  MapInv'
<1> USE DEF TypeOK, Values, Statuses, Steps, Over, Claims, Stages, Goto,
            Claim, Put, storeVars, handlerVars, Checking, StageInv, MapInv,
            Delivered
<1>1. ASSUME NEW r \in Requests, CheckStep(r)
      PROVE  MapInv'
  <2>1. CASE ReserveWins(r)
    BY FreeAssumption, PendingAssumption, <2>1 DEF ReserveWins
  <2>2. CASE ReserveLoses(r)
    BY FreeAssumption, PendingAssumption, <2>2 DEF ReserveLoses
  <2>3. CASE ReserveErrs(r)
    BY FreeAssumption, PendingAssumption, <2>3 DEF ReserveErrs
  <2>4. CASE ResolvePending(r)
    BY FreeAssumption, PendingAssumption, <2>4 DEF ResolvePending
  <2>5. CASE ResolveMapped(r)
    BY FreeAssumption, PendingAssumption, <2>5 DEF ResolveMapped
  <2>6. CASE ResolveMisses(r)
    BY FreeAssumption, PendingAssumption, <2>6 DEF ResolveMisses
  <2>7. CASE LookupReplays(r)
    BY FreeAssumption, PendingAssumption, <2>7 DEF LookupReplays
  <2>8. CASE LookupConflicts(r)
    BY FreeAssumption, PendingAssumption, <2>8 DEF LookupConflicts
  <2>9. CASE LookupProceeds(r)
    BY FreeAssumption, PendingAssumption, <2>9 DEF LookupProceeds
  <2> QED
    BY <1>1, <2>1, <2>2, <2>3, <2>4, <2>5, <2>6, <2>7, <2>8, <2>9 DEF CheckStep
<1>2. ASSUME NEW r \in Requests, StreamStep(r)
      PROVE  MapInv'
  <2>1. CASE ExecuteErrs(r)
    BY FreeAssumption, PendingAssumption, <2>1 DEF ExecuteErrs
  <2>2. CASE Execute(r)
    BY FreeAssumption, PendingAssumption, <2>2 DEF Execute
  <2>3. CASE FirstEvent(r)
    BY FreeAssumption, PendingAssumption, <2>3 DEF FirstEvent
  <2>4. CASE NoEvent(r)
    BY FreeAssumption, PendingAssumption, <2>4 DEF NoEvent
  <2>5. CASE SaveMapping(r)
    BY FreeAssumption, PendingAssumption, <2>5 DEF SaveMapping
  <2>6. CASE SaveMappingErrs(r)
    BY FreeAssumption, PendingAssumption, <2>6 DEF SaveMappingErrs
  <2>7. CASE StreamEnds(r)
    BY FreeAssumption, PendingAssumption, <2>7 DEF StreamEnds, StreamOver
  <2>8. CASE UnmappedStreamEnds(r)
    BY FreeAssumption, PendingAssumption, <2>8 DEF UnmappedStreamEnds, StreamOver
  <2>9. CASE Release(r)
    BY FreeAssumption, PendingAssumption, <2>9 DEF Release
  <2>10. CASE ReleaseErrs(r)
    BY FreeAssumption, PendingAssumption, <2>10 DEF ReleaseErrs
  <2> QED
    BY <1>2, <2>1, <2>2, <2>3, <2>4, <2>5, <2>6, <2>7, <2>8, <2>9, <2>10 DEF StreamStep
<1>3. ASSUME NEW r \in Requests, RunStep(r)
      PROVE  MapInv'
  <2>1. CASE AbandonStart(r)
    BY FreeAssumption, PendingAssumption, <2>1 DEF AbandonStart
  <2>2. CASE Decide(r)
    BY FreeAssumption, PendingAssumption, <2>2 DEF Decide
  <2>3. CASE SettleRecord(r)
    BY FreeAssumption, PendingAssumption, <2>3 DEF SettleRecord, Verdict
  <2>4. CASE SettleErrs(r)
    BY FreeAssumption, PendingAssumption, <2>4 DEF SettleErrs, Verdict
  <2> QED
    BY <1>3, <2>1, <2>2, <2>3, <2>4 DEF RunStep
<1>4. ASSUME NEW r \in Requests, WriteFails(r) \/ Cancel(r) \/ Crash(r)
      PROVE  MapInv'
  BY FreeAssumption, PendingAssumption, <1>4 DEF WriteFails, Cancel, Crash
<1>5. CASE Expire
  BY FreeAssumption, PendingAssumption, <1>5 DEF Expire
<1>6. CASE UNCHANGED vars
  BY <1>6 DEF vars
<1> QED
  BY <1>1, <1>2, <1>3, <1>4, <1>5, <1>6 DEF Next, Rest

----------------------------------------------------------------------------
\* The conjunction is an inductive invariant.
THEOREM Invariance == Spec => []IInv
<1>1. Init => IInv
  BY FreeAssumption
     DEF Init, IInv, TypeOK, Values, Statuses, Steps, Over, Claims, Stages,
         StageInv, OwnerInv, MapInv, ReplayIsCompleted, Checking, Bypassed, Owns
<1>2. IInv /\ [Next]_vars => StageInv' /\ OwnerInv' /\ MapInv' /\ ReplayIsCompleted'
  BY StageStep, OwnerStep, MapStep, ReplayStep DEF IInv
<1>3. IInv /\ TypeOK' /\ [Next]_vars => IInv'
  BY <1>2 DEF IInv
<1> QED
  BY <1>1, <1>3, Typing, PTL DEF Spec

\* No step of any request changes a generation under a client's replay of it.
THEOREM ReplayIsCompletedHolds == Spec => []ReplayIsCompleted
<1>1. IInv => ReplayIsCompleted
  BY DEF IInv
<1> QED
  BY <1>1, Invariance, PTL

\* Until a handler goes on without the key, the key has one owner at a time,
\* through any crash, expiry or failed call.
THEOREM OneOwnerUnlessBypassedHolds == Spec => []OneOwnerUnlessBypassed
<1>1. IInv => OneOwnerUnlessBypassed
  BY DEF IInv, OwnerInv, OneOwnerUnlessBypassed
<1> QED
  BY <1>1, Invariance, PTL

\* Without crashes and Postgres errors, no mapping names an abandoned
\* generation.
THEOREM MappedWillSettleHolds == Spec => []MappedWillSettle
<1>1. IInv => MappedWillSettle
  BY DEF IInv, MapInv, Delivered, MappedWillSettle
<1> QED
  BY <1>1, Invariance, PTL

\* What is written of racing requests holds until a handler goes on without the
\* key: up to then no two of them stream.
THEOREM OneStreamUnlessBypassed == Spec => [](~Bypassed => OneStreamPerKey)
<1>1. IInv => (~Bypassed => OneStreamPerKey)
  <2> SUFFICES ASSUME IInv, ~Bypassed,
                      NEW r \in Requests, NEW s \in Requests,
                      Streaming(r), Streaming(s)
               PROVE  r = s
    BY DEF OneStreamPerKey
  <2>1. ASSUME NEW q \in Requests, Streaming(q)
        PROVE  Owns(q)
    BY <2>1 DEF IInv, TypeOK, Claims, OwnerInv, Streaming, Checking, Bypassed,
                Owns, Over
  <2> QED
    BY <2>1 DEF IInv, OwnerInv
<1> QED
  BY <1>1, Invariance, PTL

\* So does what is written of Release: up to then a DEL, whether or not its answer
\* arrives, finds in the key what its own handler put there.
THEOREM ReleasesOwnUnlessBypassed ==
    Spec => [][~Bypassed => \A r \in Requests :
                   Release(r) \/ ReleaseErrs(r) => writer = r /\ key # Free]_vars
<1>1. ASSUME IInv, ~Bypassed, NEW r \in Requests, Release(r) \/ ReleaseErrs(r)
      PROVE  writer = r /\ key # Free
  <2>1. pc[r] = "release"
    BY <1>1 DEF Release, ReleaseErrs
  <2>2. Owns(r)
    BY <1>1, <2>1 DEF IInv, TypeOK, Claims, OwnerInv, Checking, Bypassed, Owns,
                      Over
  <2> QED
    BY <1>1, <2>2 DEF IInv, OwnerInv
<1>2. IInv => (~Bypassed => \A r \in Requests :
                   Release(r) \/ ReleaseErrs(r) => writer = r /\ key # Free)
  BY <1>1
<1> QED
  BY <1>2, Invariance, PTL

----------------------------------------------------------------------------
(* The refinement of GenerationRecord.                                     *)

\* A row changes by its own handler's Save or by its own run's.
LEMMA RowMoves ==
    ASSUME IInv, [Next]_vars, NEW s \in Requests, rec'[s] # rec[s]
    PROVE  \/ rec[s] = "none" /\ rec'[s] = "streaming"
           \/ rec[s] = "streaming" /\ rec'[s] \in {"completed", "failed"}
<1>1. PICK r \in Requests : \/ Execute(r) \/ ExecuteErrs(r)
                            \/ SettleRecord(r) \/ SettleErrs(r)
  BY DEF Next, CheckStep, ReserveWins, ReserveLoses, ReserveErrs,
         ResolvePending, ResolveMapped, ResolveMisses, LookupReplays,
         LookupConflicts, LookupProceeds, StreamStep, FirstEvent, NoEvent,
         SaveMapping, SaveMappingErrs, StreamEnds, UnmappedStreamEnds, Release,
         ReleaseErrs, WriteFails, RunStep, AbandonStart, Decide, Cancel, Crash,
         Expire, Rest, vars
<1>2. rec \in [Requests -> Statuses]
  BY DEF IInv, TypeOK
<1>3. r = s
  BY <1>1, <1>2 DEF Execute, ExecuteErrs, SettleRecord, SettleErrs
<1>4. CASE Execute(r) \/ ExecuteErrs(r)
  BY <1>2, <1>3, <1>4 DEF Execute, ExecuteErrs, IInv, StageInv
<1>5. CASE SettleRecord(r) \/ SettleErrs(r)
  BY <1>2, <1>3, <1>5 DEF SettleRecord, SettleErrs, Verdict, IInv, StageInv
<1> QED
  BY <1>1, <1>4, <1>5

\* A replay is for good, and begins by looking a completed row up.
LEMMA ReplayMoves ==
    ASSUME IInv, [Next]_vars, NEW s \in Requests
    PROVE  /\ Replayed(s) => Replayed(s)'
           /\ Replayed(s)' /\ ~Replayed(s) =>
                 rec[s] = "completed" /\ UNCHANGED rec
<1> USE DEF IInv, TypeOK, Goto
<1>1. ASSUME NEW r \in Requests, LookupReplays(r)
      PROVE  /\ Replayed(s) => Replayed(s)'
             /\ Replayed(s)' /\ ~Replayed(s) =>
                   rec[s] = "completed" /\ UNCHANGED rec
  BY <1>1 DEF LookupReplays, Replayed
<1>2. ASSUME NEW q \in Requests, pc[q] = "replayed",
             ~\E r \in Requests : LookupReplays(r)
      PROVE  pc'[q] = "replayed" /\ found'[q] = found[q]
  <2>1. ASSUME NEW r \in Requests, CheckStep(r)
        PROVE  pc'[q] = "replayed" /\ found'[q] = found[q]
    BY <1>2, <2>1 DEF CheckStep, ReserveWins, ReserveLoses, ReserveErrs,
                      ResolvePending, ResolveMapped, ResolveMisses,
                      LookupConflicts, LookupProceeds
  <2>2. ASSUME NEW r \in Requests, StreamStep(r) \/ WriteFails(r)
        PROVE  pc'[q] = "replayed" /\ found'[q] = found[q]
    BY <1>2, <2>2 DEF StreamStep, ExecuteErrs, Execute, FirstEvent, NoEvent,
                      SaveMapping, SaveMappingErrs, StreamEnds,
                      UnmappedStreamEnds, Release, ReleaseErrs, WriteFails
  <2>3. ASSUME NEW r \in Requests, RunStep(r) \/ Cancel(r) \/ Crash(r)
        PROVE  pc'[q] = "replayed" /\ found'[q] = found[q]
    BY <1>2, <2>3 DEF RunStep, AbandonStart, Decide, SettleRecord, SettleErrs,
                      Cancel, Crash, handlerVars, Over
  <2>4. CASE Expire \/ UNCHANGED vars
    BY <1>2, <2>4 DEF Expire, handlerVars, vars
  <2> QED
    BY <2>1, <2>2, <2>3, <2>4 DEF Next, Rest
<1>3. ASSUME NEW q \in Requests, pc'[q] = "replayed",
             ~\E r \in Requests : LookupReplays(r)
      PROVE  pc[q] = "replayed" /\ found'[q] = found[q]
  <2>1. pc[q] = "replayed"
    BY <1>3 DEF Next, CheckStep, ReserveWins, ReserveLoses, ReserveErrs,
                ResolvePending, ResolveMapped, ResolveMisses, LookupConflicts,
                LookupProceeds, StreamStep, ExecuteErrs, Execute, FirstEvent,
                NoEvent, SaveMapping, SaveMappingErrs, StreamEnds,
                UnmappedStreamEnds, Release, ReleaseErrs, WriteFails, RunStep,
                AbandonStart, Decide, SettleRecord, SettleErrs, Cancel, Crash,
                Expire, Rest, vars, handlerVars
  <2> QED
    BY <1>2, <1>3, <2>1
<1>4. CASE ~\E r \in Requests : LookupReplays(r)
  BY <1>2, <1>3, <1>4 DEF Replayed
<1> QED
  BY <1>1, <1>4

\* Each request's generation takes the steps of GenerationRecord and no others,
\* under any faults and however many handlers look its row up; a replay is
\* GenerationRecord's word of success, given only over a completed row.
THEOREM RowsFollowRecord ==
    ASSUME NEW s \in Requests, NEW S
    PROVE  Spec => Record(s, S)!Spec
<1>1. Init => Record(s, S)!Init
  BY DEF Init, Record!Init, Record!NoRecord, Row, Replayed
<1>2. IInv /\ [Next]_vars => [Record(s, S)!Next]_(Record(s, S)!vars)
  <2> SUFFICES ASSUME IInv, [Next]_vars
               PROVE  [Record(s, S)!Next]_(Record(s, S)!vars)
    OBVIOUS
  <2>1. CASE rec'[s] # rec[s]
    <3>1. \/ rec[s] = "none" /\ rec'[s] = "streaming"
          \/ rec[s] = "streaming" /\ rec'[s] \in {"completed", "failed"}
      BY <2>1, RowMoves
    <3>2. ~Replayed(s) /\ ~Replayed(s)'
      BY <2>1, <3>1, ReplayMoves DEF IInv, ReplayIsCompleted, Replayed
    <3>3. CASE rec[s] = "none" /\ rec'[s] = "streaming"
      <4>1. Record(s, S)!Create
        BY <3>2, <3>3 DEF Record!Create, Record!NoRecord, Record!Streaming, Row
      <4> QED
        BY <4>1 DEF Record!Next
    <3>4. CASE rec[s] = "streaming" /\ rec'[s] \in {"completed", "failed"}
      <4>1. Record(s, S)!Settle
        BY <3>2, <3>4
           DEF Record!Settle, Record!Streaming, Record!Completed,
               Record!Failed, Row
      <4> QED
        BY <4>1 DEF Record!Next
    <3> QED
      BY <3>1, <3>3, <3>4
  <2>2. CASE rec'[s] = rec[s] /\ ~Replayed(s) /\ Replayed(s)'
    <3>1. rec[s] = "completed"
      BY <2>2, ReplayMoves
    <3>2. Record(s, S)!TellDone
      BY <2>2, <3>1 DEF Record!TellDone, Record!Completed, Row
    <3> QED
      BY <3>2 DEF Record!Next
  <2>3. CASE rec'[s] = rec[s] /\ (Replayed(s) <=> Replayed(s)')
    BY <2>3 DEF Record!vars, Row
  <2> QED
    BY <2>1, <2>2, <2>3, ReplayMoves
<1> QED
  BY <1>1, <1>2, Invariance, PTL DEF Spec, Record!Spec

----------------------------------------------------------------------------
(* The refinement of RunStages.                                            *)

\* A handler that streams has started its goroutine.
HasRun(r) == pc[r] \in {"first", "map", "relay", "unmapped"} => run[r] # "none"

LEMMA HasRunStep ==
    ASSUME IInv, [Next]_vars, NEW r \in Requests, HasRun(r)
    PROVE  HasRun(r)'
<1> USE DEF IInv, TypeOK, StageInv, Checking, HasRun, Goto, Over
<1>1. ASSUME NEW q \in Requests, CheckStep(q)
      PROVE  HasRun(r)'
  BY <1>1 DEF CheckStep, ReserveWins, ReserveLoses, ReserveErrs,
              ResolvePending, ResolveMapped, ResolveMisses, LookupReplays,
              LookupConflicts, LookupProceeds
<1>2. ASSUME NEW q \in Requests, StreamStep(q) \/ WriteFails(q)
      PROVE  HasRun(r)'
  BY <1>2 DEF StreamStep, ExecuteErrs, Execute, FirstEvent, NoEvent,
              SaveMapping, SaveMappingErrs, StreamEnds, UnmappedStreamEnds,
              Release, ReleaseErrs, WriteFails
<1>3. ASSUME NEW q \in Requests, RunStep(q) \/ Cancel(q) \/ Crash(q)
      PROVE  HasRun(r)'
  BY <1>3 DEF RunStep, AbandonStart, Decide, SettleRecord, SettleErrs, Cancel,
              Crash, handlerVars
<1>4. CASE Expire \/ UNCHANGED vars
  BY <1>4 DEF Expire, handlerVars, vars
<1> QED
  BY <1>1, <1>2, <1>3, <1>4 DEF Next, Rest

\* A request's steps leave the stages of the others alone.
LEMMA OtherStages ==
    ASSUME TypeOK, NEW r \in Requests, NEW q \in Requests, q # r,
           \/ CheckStep(q) \/ StreamStep(q) \/ WriteFails(q) \/ RunStep(q)
           \/ Cancel(q) \/ Crash(q)
    PROVE  UNCHANGED Run(r)!vars
<1>1. /\ rec'[r] = rec[r] /\ run'[r] = run[r]
      /\ pc'[r] = pc[r] /\ ctxDone'[r] = ctxDone[r]
  <2> USE DEF TypeOK, Goto, handlerVars
  <2>1. CASE CheckStep(q)
    BY <2>1 DEF CheckStep, ReserveWins, ReserveLoses, ReserveErrs,
                ResolvePending, ResolveMapped, ResolveMisses, LookupReplays,
                LookupConflicts, LookupProceeds
  <2>2. CASE StreamStep(q) \/ WriteFails(q)
    BY <2>2 DEF StreamStep, ExecuteErrs, Execute, FirstEvent, NoEvent,
                SaveMapping, SaveMappingErrs, StreamEnds, UnmappedStreamEnds,
                Release, ReleaseErrs, WriteFails
  <2>3. CASE RunStep(q) \/ Cancel(q) \/ Crash(q)
    BY <2>3 DEF RunStep, AbandonStart, Decide, SettleRecord, SettleErrs,
                Cancel, Crash
  <2> QED
    BY <2>1, <2>2, <2>3
<1> QED
  BY <1>1 DEF Run!vars, Stage

\* Its own steps are steps of its stages, or of its handler alone.
LEMMA OwnStages ==
    ASSUME IInv, NEW r \in Requests, HasRun(r),
           \/ CheckStep(r) \/ StreamStep(r) \/ WriteFails(r) \/ RunStep(r)
           \/ Cancel(r) \/ Crash(r)
    PROVE  [Run(r)!Next]_(Run(r)!vars)
<1> USE DEF IInv, TypeOK, StageInv, Checking, HasRun, Goto, handlerVars,
            Run!Next
<1>1. CASE CheckStep(r)
  <2>1. /\ rec'[r] = rec[r] /\ run'[r] = run[r] /\ ctxDone'[r] = ctxDone[r]
        /\ {pc[r], pc'[r]} \cap {"release", "done"} = {}
    BY <1>1 DEF CheckStep, ReserveWins, ReserveLoses, ReserveErrs,
                ResolvePending, ResolveMapped, ResolveMisses, LookupReplays,
                LookupConflicts, LookupProceeds
  <2> QED
    BY <2>1 DEF Run!vars, Stage
<1>2. CASE ExecuteErrs(r)
  <2>1. Run(r)!Refuse
    BY <1>2 DEF ExecuteErrs, RepoMayFail, Run!Refuse, Stage
  <2> QED
    BY <2>1
<1>3. CASE Execute(r)
  <2>1. Run(r)!Create
    BY <1>3 DEF Execute, Run!Create, Stage
  <2> QED
    BY <2>1
<1>4. CASE FirstEvent(r)
  <2>1. Run(r)!Start
    BY <1>4 DEF FirstEvent, Run!Start, Stage
  <2> QED
    BY <2>1
<1>5. CASE \/ NoEvent(r) \/ SaveMapping(r) \/ SaveMappingErrs(r)
           \/ StreamEnds(r) \/ UnmappedStreamEnds(r) \/ Release(r)
           \/ ReleaseErrs(r) \/ WriteFails(r)
  <2>1. /\ rec'[r] = rec[r] /\ run'[r] = run[r] /\ ctxDone'[r] = ctxDone[r]
        /\ \/ run[r] # "none"
           \/ {pc[r], pc'[r]} \subseteq {"release", "done"}
    BY <1>5 DEF NoEvent, SaveMapping, SaveMappingErrs, StreamEnds,
                UnmappedStreamEnds, Release, ReleaseErrs, WriteFails
  <2> QED
    BY <2>1 DEF Run!vars, Stage
<1>6. CASE AbandonStart(r)
  <2>1. Run(r)!Abandon
    BY <1>6 DEF AbandonStart, Run!Abandon, Stage
  <2> QED
    BY <2>1
<1>7. CASE Decide(r)
  <2>1. Run(r)!Decide
    BY <1>7 DEF Decide, Run!Decide, Stage
  <2> QED
    BY <2>1
<1>8. CASE SettleRecord(r) \/ SettleErrs(r)
  <2>1. Run(r)!Settle
    BY <1>8 DEF SettleRecord, SettleErrs, Verdict, Run!Settle, Run!Verdict,
                Stage
  <2> QED
    BY <2>1
<1>9. CASE Cancel(r)
  <2>1. Run(r)!Cancel
    BY <1>9 DEF Cancel, Run!Cancel, Stage
  <2> QED
    BY <2>1
<1>10. CASE Crash(r)
  <2>1. Run(r)!Crash
    BY <1>10 DEF Crash, Run!Crash, Stage
  <2> QED
    BY <2>1
<1> QED
  BY <1>1, <1>2, <1>3, <1>4, <1>5, <1>6, <1>7, <1>8, <1>9, <1>10
     DEF StreamStep, RunStep

\* For any number of requests and any faults, each request's goroutine is one
\* that RunStages allows, as the goroutine GenerateVariations has in full is.
THEOREM RunsHaveStages ==
    ASSUME NEW r \in Requests
    PROVE  Spec => Run(r)!Spec
<1>1. Init => Run(r)!Init
  BY DEF Init, Run!Init, Stage
<1>2. IInv /\ HasRun(r) /\ [Next]_vars => [Run(r)!Next]_(Run(r)!vars)
  <2> SUFFICES ASSUME IInv, HasRun(r), [Next]_vars
               PROVE  [Run(r)!Next]_(Run(r)!vars)
    OBVIOUS
  <2>1. CASE Expire \/ UNCHANGED vars
    BY <2>1 DEF Expire, handlerVars, vars, Run!vars, Stage
  <2>2. ASSUME NEW q \in Requests,
               \/ CheckStep(q) \/ StreamStep(q) \/ WriteFails(q)
               \/ RunStep(q) \/ Cancel(q) \/ Crash(q)
        PROVE  [Run(r)!Next]_(Run(r)!vars)
    BY <2>2, OwnStages, OtherStages DEF IInv
  <2> QED
    BY <2>1, <2>2 DEF Next, Rest
<1>3. Init => HasRun(r)
  BY DEF Init, HasRun
<1>4. IInv /\ HasRun(r) /\ [Next]_vars => HasRun(r)'
  BY HasRunStep
<1> QED
  BY <1>1, <1>2, <1>3, <1>4, Invariance, PTL DEF Spec, Run!Spec

----------------------------------------------------------------------------
(* Which requests have one key.                                            *)

\* A profile is one of the API's, however its client spells it, and says what
\* the analysis had found, but that its url may be lost.
LEMMA Spelled ==
    ASSUME NEW p \in Profiles,
           NEW q \in Spellings(toAPISiteProfile(p))
    PROVE  LET d == fromAPISiteProfile(q)
           IN  /\ q \in APIProfiles
               /\ d.content = q.content /\ d.keywords = q.keywords
               /\ d.content \in {p.content, NoURL}
               /\ d.position = p.position
               /\ IF IsEmpty(p.keywords)
                    THEN IsEmpty(d.keywords)
                    ELSE d.keywords = p.keywords
<1> DEFINE a == toAPISiteProfile(p)
           d == fromAPISiteProfile(q)
           nil == <<>>
           none == <<<<>>>>
           blank == <<"">>
<1>1. p \in [content : Contents, position : Positions,
             keywords : {nil, none} \cup {<<<<w>>>> : w \in Words},
             analyzedAt : Times]
  BY DEF Profiles
<1>2. \A x : <<x>> # nil /\ <<x>>[1] = x
  OBVIOUS
<1>3. blank = <<"">> /\ none \in {nil, none} /\ "" \in Positions
  BY DEF Positions
<1>4. \A s : IsEmpty(s) <=> s = nil \/ s = none
  BY DEF IsEmpty
<1>5. a = [p EXCEPT !.position = IF p.position = "" THEN nil ELSE <<p.position>>,
                    !.keywords = IF IsEmpty(p.keywords)
                                   THEN nil ELSE p.keywords]
  BY DEF toAPISiteProfile
<1>6. /\ a.content = p.content /\ a.analyzedAt = p.analyzedAt
      /\ a.position = IF p.position = "" THEN nil ELSE <<p.position>>
      /\ a.keywords = IF IsEmpty(p.keywords) THEN nil ELSE p.keywords
      /\ a = [content |-> a.content, position |-> a.position,
              keywords |-> a.keywords, analyzedAt |-> a.analyzedAt]
  BY <1>1, <1>5
<1>7. \/ q = a
      \/ q = [a EXCEPT !.content = NoURL]
      \/ a.position = nil /\ q = [a EXCEPT !.position = blank]
      \/ a.keywords = nil /\ q = [a EXCEPT !.keywords = none]
  BY DEF Spellings
<1> HIDE DEF a, d, nil, none, blank
<1>8. /\ q.content \in {p.content, NoURL}
      /\ q.analyzedAt = p.analyzedAt
      /\ \/ q.position = a.position
         \/ q.position = blank /\ a.position = nil
      /\ \/ q.keywords = a.keywords
         \/ q.keywords = none /\ a.keywords = nil
      /\ q = [content |-> q.content, position |-> q.position,
              keywords |-> q.keywords, analyzedAt |-> q.analyzedAt]
  BY <1>6, <1>7
<1>9. /\ d.content = q.content /\ d.keywords = q.keywords
      /\ d.position = IF q.position = nil THEN "" ELSE q.position[1]
  BY <1>8 DEF fromAPISiteProfile, d, nil
<1>10. d.position = p.position
  BY <1>2, <1>3, <1>6, <1>8, <1>9 DEF blank
<1>11. IF IsEmpty(p.keywords)
         THEN IsEmpty(d.keywords) ELSE d.keywords = p.keywords
  BY <1>4, <1>6, <1>8, <1>9
<1>12. q \in [content : Contents \cup {NoURL},
              position : {<<s>> : s \in Positions} \cup {nil},
              keywords : {nil, none} \cup {<<<<w>>>> : w \in Words},
              analyzedAt : Times]
  <2>1. q.content \in Contents \cup {NoURL} /\ q.analyzedAt \in Times
    BY <1>1, <1>8
  <2>2. q.position \in {<<s>> : s \in Positions} \cup {nil}
    BY <1>1, <1>3, <1>6, <1>8
  <2>3. q.keywords \in {nil, none} \cup {<<<<w>>>> : w \in Words}
    BY <1>1, <1>6, <1>8
  <2> QED
    BY <1>8, <2>1, <2>2, <2>3
<1> QED
  BY <1>8, <1>9, <1>10, <1>11, <1>12
     DEF d, nil, none, APIProfiles

\* The input of a request: its profile is a record of the domain.
LEMMA InputOf ==
    ASSUME NEW req \in EveryRequest
    PROVE  LET in == toGenerateVariationsInput(req)
               d == in.profile
           IN  /\ d = fromAPISiteProfile(req.profile)
               /\ req.profile \in APIProfiles
               /\ d = [content |-> d.content, position |-> d.position,
                       keywords |-> d.keywords, analyzedAt |-> d.analyzedAt]
               /\ d.content = req.profile.content
               /\ d.keywords = req.profile.keywords
               /\ d.position = IF req.profile.position = <<>> THEN ""
                               ELSE req.profile.position[1]
<1> DEFINE in == toGenerateVariationsInput(req)
           q == req.profile
           d == fromAPISiteProfile(q)
<1>1. PICK p \in Profiles :
        q \in Spellings(toAPISiteProfile(p))
  BY DEF EveryRequest
<1>2. q \in APIProfiles
  BY <1>1, Spelled
<1>3. in.profile = d
  BY DEF toGenerateVariationsInput
<1> HIDE DEF q, in
<1>4. q = [content |-> q.content, position |-> q.position,
           keywords |-> q.keywords, analyzedAt |-> q.analyzedAt]
  BY <1>2 DEF APIProfiles
<1>5. d = [q EXCEPT !.position = IF q.position = <<>> THEN ""
                                                     ELSE q.position[1]]
  BY DEF fromAPISiteProfile
<1> HIDE DEF d
<1>6. /\ d = [content |-> d.content, position |-> d.position,
              keywords |-> d.keywords, analyzedAt |-> d.analyzedAt]
      /\ d.content = q.content /\ d.keywords = q.keywords
      /\ d.position = IF q.position = <<>> THEN "" ELSE q.position[1]
  BY <1>4, <1>5
<1> QED
  BY <1>2, <1>3, <1>6 DEF d, q, in

\* What is in a sorted list is in the list.
LEMMA SortedHasTheSame ==
    ASSUME NEW f
    PROVE  DOMAIN Sorted(f) = ToSet(f)
  BY DEF Sorted, ToBag, ToSet, Range

\* Requests of one content key have the model asked the same.
LEMMA OneKeyOneGeneration ==
    ASSUME NEW req \in EveryRequest, NEW other \in EveryRequest,
           contentIdempotencyKey(toGenerateVariationsInput(req))
             = contentIdempotencyKey(
                   toGenerateVariationsInput(other))
    PROVE  ToSet(Generation(
                             toGenerateVariationsInput(req)))
             = ToSet(Generation(
                                 toGenerateVariationsInput(other)))
<1> DEFINE in == toGenerateVariationsInput(req)
           jn == toGenerateVariationsInput(other)
           d == in.profile
           e == jn.profile
<1>1. /\ d = [content |-> d.content, position |-> d.position,
              keywords |-> d.keywords, analyzedAt |-> d.analyzedAt]
      /\ e = [content |-> e.content, position |-> e.position,
              keywords |-> e.keywords, analyzedAt |-> e.analyzedAt]
  BY InputOf
<1> HIDE DEF in, jn
<1>2. /\ [d EXCEPT !.analyzedAt = 0] = [e EXCEPT !.analyzedAt = 0]
      /\ Sorted(in.strategies) = Sorted(jn.strategies)
      /\ in.currency = jn.currency
  BY DEF contentIdempotencyKey, in, jn
<1> HIDE DEF d, e
<1>3. d.content = e.content /\ d.position = e.position
      /\ d.keywords = e.keywords
  BY <1>1, <1>2
<1>4. ToSet(in.strategies) = ToSet(jn.strategies)
  BY <1>2, SortedHasTheSame
<1>5. \A s : Prompt(in, s) = Prompt(jn, s)
  BY <1>2, <1>3 DEF Prompt, d, e
<1> DEFINE A == ToSet(in.strategies)
           B == ToSet(jn.strategies)
<1>6. /\ ToSet(Generation(in)) = {Prompt(in, s) : s \in A}
      /\ ToSet(Generation(jn)) = {Prompt(jn, s) : s \in B}
  BY DEF ToSet, Generation
<1> HIDE DEF A, B
<1>7. A = B
  BY <1>4 DEF A, B
<1>8. {Prompt(in, s) : s \in A} = {Prompt(jn, s) : s \in B}
  BY <1>5, <1>7
<1> QED
  BY <1>6, <1>8 DEF in, jn

\* ContentKey's Cardinality and IsFiniteSet are those of the library's theorems.
LEMMA SameCardinality ==
    ASSUME NEW S
    PROVE  Cardinality(S) = Cardinality(S)
  BY Zenon DEF Cardinality, Cardinality

LEMMA Timeless ==
    ASSUME NEW a, NEW b, NEW c, NEW e, NEW d,
           d = [content |-> a, position |-> b, keywords |-> c, analyzedAt |-> e]
    PROVE  [d EXCEPT !.analyzedAt = 0]
             = [content |-> a, position |-> b, keywords |-> c, analyzedAt |-> 0]
  OBVIOUS

LEMMA SortedOnce ==
    ASSUME NEW f, IsInjective(f)
    PROVE  Sorted(f) = [x \in ToSet(f) |-> 1]
<1>1. ASSUME NEW x \in ToSet(f)
      PROVE  Cardinality({i \in DOMAIN f : f[i] = x}) = 1
  <2>1. PICK j \in DOMAIN f : f[j] = x
    BY DEF ToSet
  <2>2. {i \in DOMAIN f : f[i] = x} = {j}
    BY <2>1 DEF IsInjective
  <2> QED
    BY <2>2, FS_Singleton, SameCardinality
<1>2. Range(f) = ToSet(f)
  BY DEF Range, ToSet
<1> QED
  BY <1>1, <1>2 DEF Sorted, ToBag

\* Valid requests without a key of their own that say the same have one key.
LEMMA OneSaidOneKey ==
    ASSUME NEW req \in EveryRequest, NEW other \in EveryRequest,
           Valid(toGenerateVariationsInput(req)),
           Valid(toGenerateVariationsInput(other)),
           Said(req) = Said(other)
    PROVE  contentIdempotencyKey(toGenerateVariationsInput(req))
             = contentIdempotencyKey(
                   toGenerateVariationsInput(other))
<1>1. ASSUME NEW r \in EveryRequest,
             Valid(toGenerateVariationsInput(r))
      PROVE  LET in == toGenerateVariationsInput(r)
                 said == Said(r)
             IN  contentIdempotencyKey(in) =
                   [profile |->
                      [content |-> said.content,
                       position |-> IF said.position = <<>> THEN ""
                                    ELSE said.position[1],
                       keywords |-> said.keywords, analyzedAt |-> 0],
                    strategies |-> [x \in said.strategies |-> 1],
                    currency |-> said.currency[1]]
  <2> DEFINE in == toGenerateVariationsInput(r)
             said == Said(r)
             d == in.profile
             q == r.profile
             pos == IF said.position = <<>> THEN "" ELSE said.position[1]
             nil == <<>>
             blank == <<"">>
  <2>1. /\ d = [content |-> d.content, position |-> d.position,
                keywords |-> d.keywords, analyzedAt |-> d.analyzedAt]
        /\ d.content = q.content /\ d.keywords = q.keywords
        /\ d.position = IF q.position = nil THEN "" ELSE q.position[1]
    BY InputOf
  <2>2. /\ said.content = q.content /\ said.keywords = q.keywords
        /\ said.position = IF q.position = blank THEN nil ELSE q.position
        /\ said.currency = IF r.ask.currency \in {nil, blank} THEN <<"USD">>
                                                           ELSE r.ask.currency
        /\ said.strategies = IF IsEmpty(r.ask.strategies)
                               THEN Strategies
                               ELSE ToSet(r.ask.strategies[1])
    BY DEF Said
  <2>3. blank[1] = "" /\ <<"USD">>[1] = "USD"
    OBVIOUS
  <2>4. /\ in.strategies = IF IsEmpty(r.ask.strategies)
                             THEN allStrategies
                             ELSE r.ask.strategies[1]
        /\ in.currency = IF r.ask.currency \in {nil, blank} THEN "USD"
                                                         ELSE r.ask.currency[1]
    BY DEF toGenerateVariationsInput
  <2> HIDE DEF in, said, q, blank, nil
  <2>5. d.position = pos
    BY <2>1, <2>2, <2>3 DEF nil
  <2>6. in.currency = said.currency[1]
    BY <2>2, <2>3, <2>4
  <2>7. ToSet(in.strategies) = said.strategies
    BY <2>2, <2>4 DEF Strategies
  <2>8. Sorted(in.strategies) = [x \in said.strategies |-> 1]
    <3>1. IsInjective(in.strategies)
      BY <1>1 DEF Valid, in
    <3> QED
      BY <2>7, <3>1, SortedOnce
  <2> HIDE DEF d, pos
  <2>9. [d EXCEPT !.analyzedAt = 0] =
          [content |-> said.content, position |-> pos,
           keywords |-> said.keywords, analyzedAt |-> 0]
    <3> DEFINE x == d.content
               y == d.position
               z == d.keywords
    <3>1. x = said.content /\ y = pos /\ z = said.keywords
      BY <2>1, <2>2, <2>5
    <3>2. d = [content |-> x, position |-> y, keywords |-> z,
               analyzedAt |-> d.analyzedAt]
      BY <2>1
    <3> HIDE DEF x, y, z
    <3>3. [d EXCEPT !.analyzedAt = 0] =
            [content |-> x, position |-> y, keywords |-> z, analyzedAt |-> 0]
      BY <3>2, Timeless
    <3> QED
      BY <3>1, <3>3
  <2>10. contentIdempotencyKey(in) =
           [profile |-> [d EXCEPT !.analyzedAt = 0],
            strategies |-> Sorted(in.strategies),
            currency |-> in.currency]
    BY DEF contentIdempotencyKey, d
  <2> QED
    BY <2>6, <2>8, <2>9, <2>10 DEF in, said, pos
<1> QED
  BY <1>1

\* A key of the client's own is never a content key.
LEMMA KeysApart ==
    ASSUME NEW req, NEW other, KeyOf(req) = KeyOf(other)
    PROVE  /\ Implicit(req) <=> Implicit(other)
           /\ Implicit(req) =>
                contentIdempotencyKey(
                    toGenerateVariationsInput(req))
                  = contentIdempotencyKey(
                        toGenerateVariationsInput(other))
           /\ DOMAIN KeyOf(req) = {"content"} <=> Implicit(req)
<1>1. ASSUME NEW r
      PROVE  \/ /\ Implicit(r)
                /\ DOMAIN KeyOf(r) = {"content"}
                /\ KeyOf(r).content =
                     contentIdempotencyKey(
                         toGenerateVariationsInput(r))
             \/ ~Implicit(r) /\ DOMAIN KeyOf(r) = {"header"}
  BY DEF KeyOf
<1> QED
  BY <1>1

LEMMA ContentStarts == ContentInit => ContentInv
<1> SUFFICES ASSUME ContentInit PROVE ContentInv
  OBVIOUS
<1>1. DOMAIN <<>> = {}
  OBVIOUS
<1> QED
  BY <1>1 DEF ContentInit, ContentInv, HeldInv, KeptInv,
              NoAnswer, ReplayIsWhatWasAsked,
              AnalysisIsWhatIsPriced

LEMMA ContentRequests ==
    ASSUME HeldInv, NEW req \in GenerateRequests
    PROVE  /\ req \in EveryRequest
           /\ req.profile \in
                Spellings(toAPISiteProfile(analyzed))
  BY DEF HeldInv, GenerateRequests, EveryRequest

\* A replay gives back what the request would have had the model asked.
LEMMA ContentReplay ==
    ASSUME ContentInv, NEW req \in GenerateRequests, Replay(req)
    PROVE  ContentInv'
<1> DEFINE in == toGenerateVariationsInput(req)
           k == KeyOf(req)
<1>1. /\ k \in DOMAIN kept
      /\ answer' = [kind |-> "replayed", implicit |-> Implicit(req),
                    asked |-> ToSet(Generation(in)),
                    generation |-> kept[k].generation]
      /\ UNCHANGED <<analyzed, held, kept>>
  BY DEF Replay, Answer
<1>2. PICK other \in EveryRequest : KeptFor(k, other)
  BY <1>1 DEF ContentInv, KeptInv
<1> DEFINE jn == toGenerateVariationsInput(other)
<1>3. /\ k = KeyOf(other)
      /\ kept[k].generation = Generation(jn)
  BY <1>2 DEF KeptFor
<1>4. req \in EveryRequest
  BY ContentRequests DEF ContentInv
<1>5. Implicit(req) =>
        ToSet(kept[k].generation)
          = ToSet(Generation(in))
  BY <1>3, <1>4, KeysApart, OneKeyOneGeneration
<1> HIDE DEF in, k, jn
<1>6. ReplayIsWhatWasAsked' /\ AnalysisIsWhatIsPriced'
  BY <1>1, <1>5
     DEF ReplayIsWhatWasAsked, AnalysisIsWhatIsPriced
<1>7. HeldInv' /\ KeptInv'
  BY <1>1 DEF ContentInv, HeldInv, KeptInv, KeptFor
<1> QED
  BY <1>6, <1>7 DEF ContentInv

\* What is generated is for what the analysis found.
LEMMA ContentGenerate ==
    ASSUME ContentInv, NEW req \in GenerateRequests, Generate(req)
    PROVE  ContentInv'
<1> DEFINE in == toGenerateVariationsInput(req)
           own == KeyOf(req)
           mapping == [generation |-> Generation(in),
                       said |-> Said(req)]
<1>1. /\ own \notin DOMAIN kept
      /\ Valid(in)
      /\ kept' = [k \in DOMAIN kept \cup {own} |->
                    IF k = own THEN mapping ELSE kept[k]]
      /\ answer' = [kind |-> "generated", implicit |-> Implicit(req),
                    asked |-> ToSet(Generation(in)),
                    generation |-> Generation(in)]
      /\ UNCHANGED <<analyzed, held>>
  BY DEF Generate, Answer
<1>2. req \in EveryRequest
      /\ req.profile \in Spellings(toAPISiteProfile(analyzed))
  BY ContentRequests DEF ContentInv
<1>3. HeldInv'
  BY <1>1 DEF ContentInv, HeldInv
<1>4. KeptInv'
  <2>1. ASSUME NEW k \in DOMAIN kept
        PROVE  \E other \in EveryRequest : KeptFor(k, other)'
    <3>1. PICK other \in EveryRequest : KeptFor(k, other)
      BY DEF ContentInv, KeptInv
    <3>2. kept'[k] = kept[k]
      BY <1>1
    <3> QED
      BY <3>1, <3>2 DEF KeptFor
  <2>2. KeptFor(own, req)'
    <3>1. kept'[own] = mapping
      BY <1>1
    <3> QED
      BY <1>1, <3>1 DEF KeptFor
  <2>3. DOMAIN kept' = DOMAIN kept \cup {own}
    BY <1>1
  <2> QED
    BY <1>2, <2>1, <2>2, <2>3 DEF KeptInv
<1>5. AnalysisIsWhatIsPriced'
  <2> DEFINE d == in.profile
             g == Generation(in)
  <2>1. d = fromAPISiteProfile(req.profile)
    BY DEF toGenerateVariationsInput
  <2>2. /\ d.content \in {analyzed.content, NoURL}
        /\ d.position = analyzed.position
        /\ IF IsEmpty(analyzed.keywords)
             THEN IsEmpty(d.keywords)
             ELSE d.keywords = analyzed.keywords
    BY <1>2, <2>1, Spelled DEF ContentInv, HeldInv
  <2>3. d.content = analyzed.content
    BY <1>1, <2>2 DEF Valid
  <2>4. ASSUME NEW i \in DOMAIN g
        PROVE  /\ g[i].content = d.content /\ g[i].position = d.position
               /\ g[i].keywords = IF IsEmpty(d.keywords) THEN <<>>
                                                              ELSE d.keywords
    BY DEF Generation, Prompt
  <2> HIDE DEF d, g
  <2>5. answer'.generation = g /\ analyzed' = analyzed
    BY <1>1 DEF g
  <2>6. ASSUME NEW i \in DOMAIN g
        PROVE  /\ g[i].content = analyzed.content
               /\ g[i].position = analyzed.position
               /\ IF IsEmpty(analyzed.keywords)
                    THEN g[i].keywords = <<>>
                    ELSE g[i].keywords = analyzed.keywords
    <3>1. IsEmpty(d.keywords) => IsEmpty(analyzed.keywords)
      BY <2>2
    <3> QED
      BY <2>2, <2>3, <2>4, <3>1
  <2> QED
    BY <2>5, <2>6 DEF AnalysisIsWhatIsPriced
<1>6. ReplayIsWhatWasAsked'
  BY <1>1 DEF ReplayIsWhatWasAsked
<1> QED
  BY <1>3, <1>4, <1>5, <1>6 DEF ContentInv

LEMMA ContentStep ==
    ContentInv /\ [ContentNext]_(contentVars) => ContentInv'
<1> SUFFICES ASSUME ContentInv, [ContentNext]_(contentVars)
             PROVE  ContentInv'
  OBVIOUS
<1>1. CASE AnalyzeSite
  BY <1>1 DEF AnalyzeSite, NoAnswer, ContentInv,
              HeldInv, KeptInv, KeptFor,
              ReplayIsWhatWasAsked, AnalysisIsWhatIsPriced
<1>2. ASSUME NEW req \in GenerateRequests,
             \/ Replay(req)
             \/ Refuse(req)
             \/ Generate(req)
      PROVE  ContentInv'
  <2>1. CASE Replay(req)
    BY <2>1, ContentReplay
  <2>2. CASE Refuse(req)
    BY <2>2 DEF Refuse, ContentInv,
                HeldInv, KeptInv, KeptFor,
                ReplayIsWhatWasAsked, AnalysisIsWhatIsPriced
  <2>3. CASE Generate(req)
    BY <2>3, ContentGenerate
  <2> QED
    BY <1>2, <2>1, <2>2, <2>3
<1>3. CASE ExpireMapping
  <2>1. PICK own \in DOMAIN kept : kept' = [k \in DOMAIN kept \ {own} |-> kept[k]]
    BY <1>3 DEF ExpireMapping
  <2>2. answer' = [kind |-> "none"] /\ UNCHANGED <<analyzed, held>>
    BY <1>3 DEF ExpireMapping, NoAnswer
  <2>3. \A k \in DOMAIN kept' : k \in DOMAIN kept /\ kept'[k] = kept[k]
    BY <2>1
  <2>4. KeptInv'
    BY <2>3 DEF ContentInv, KeptInv, KeptFor
  <2> QED
    BY <2>2, <2>4 DEF ContentInv, HeldInv,
              ReplayIsWhatWasAsked, AnalysisIsWhatIsPriced
<1>4. CASE UNCHANGED contentVars
  BY <1>4 DEF contentVars, ContentInv,
              HeldInv, KeptInv, KeptFor,
              ReplayIsWhatWasAsked, AnalysisIsWhatIsPriced
<1> QED
  BY <1>1, <1>2, <1>3, <1>4 DEF ContentNext

\* A client holds what its last analysis was answered with, and a key maps to
\* the generation of a valid request that has it, whatever clients send.
THEOREM ContentInvariance == ContentSpec => []ContentInv
  BY ContentStarts, ContentStep, PTL DEF ContentSpec

\* For any profiles, strategies and currencies: a replay to a request without a
\* key of its own has the prompts that request would have had the model asked.
THEOREM ReplayIsWhatWasAskedHolds ==
    ContentSpec => []ReplayIsWhatWasAsked
<1>1. ContentInv => ReplayIsWhatWasAsked
  BY DEF ContentInv
<1> QED
  BY <1>1, ContentInvariance, PTL

\* However a client spells the profile it was answered, what is generated is for
\* what the analysis found.
THEOREM AnalysisIsWhatIsPricedHolds ==
    ContentSpec => []AnalysisIsWhatIsPriced
<1>1. ContentInv => AnalysisIsWhatIsPriced
  BY DEF ContentInv
<1> QED
  BY <1>1, ContentInvariance, PTL

\* What requests without a key of their own say has one key, so that a second
\* generation is never kept for it.
THEOREM ResendIsReplayedHolds == ContentSpec => []ResendIsReplayed
<1>1. ASSUME ContentInv, NEW k \in DOMAIN kept, NEW l \in DOMAIN kept,
             DOMAIN k = {"content"}, DOMAIN l = {"content"},
             kept[k].said = kept[l].said
      PROVE  k = l
  <2>1. PICK req \in EveryRequest : KeptFor(k, req)
    BY <1>1 DEF ContentInv, KeptInv
  <2>2. PICK other \in EveryRequest : KeptFor(l, other)
    BY <1>1 DEF ContentInv, KeptInv
  <2> DEFINE in == toGenerateVariationsInput(req)
             jn == toGenerateVariationsInput(other)
  <2>3. /\ Valid(in) /\ Valid(jn)
        /\ Said(req) = Said(other)
        /\ k = KeyOf(req) /\ l = KeyOf(other)
    BY <1>1, <2>1, <2>2 DEF KeptFor
  <2>4. Implicit(req) /\ Implicit(other)
    BY <1>1, <2>3, KeysApart
  <2>5. contentIdempotencyKey(in) = contentIdempotencyKey(jn)
    BY <2>3, OneSaidOneKey
  <2> QED
    BY <2>3, <2>4, <2>5 DEF KeyOf
<1>2. ContentInv => ResendIsReplayed
  BY <1>1 DEF ResendIsReplayed
<1> QED
  BY <1>2, ContentInvariance, PTL

LEMMA SameFinite ==
    ASSUME NEW S
    PROVE  IsFiniteSet(S) <=> IsFiniteSet(S)
  BY Zenon DEF IsFiniteSet, IsFiniteSet

LEMMA ContentCount ==
    ASSUME MaxKeptAssumption
    PROVE  ContentSpec => []CountInv
<1> USE DEF MaxKeptAssumption
<1>1. ContentInit => CountInv
  <2> SUFFICES ASSUME ContentInit PROVE CountInv
    OBVIOUS
  <2>1. DOMAIN <<>> = {}
    OBVIOUS
  <2> QED
    BY <2>1, FS_EmptySet, SameFinite, SameCardinality
       DEF ContentInit, CountInv, NoAnswer
<1>2. CountInv /\ [ContentNext]_(contentVars) => CountInv'
  <2> SUFFICES ASSUME CountInv, [ContentNext]_(contentVars)
               PROVE  CountInv'
    OBVIOUS
  <2>1. IsFiniteSet(DOMAIN kept) /\ Cardinality(DOMAIN kept) <= MaxKept
        /\ Cardinality(DOMAIN kept) \in Nat
    BY SameFinite, SameCardinality, FS_CardinalityType DEF CountInv
  <2>2. CASE AnalyzeSite \/ UNCHANGED contentVars
    BY <2>2 DEF AnalyzeSite, NoAnswer, CountInv,
                contentVars
  <2>3. ASSUME NEW req \in GenerateRequests,
               Replay(req) \/ Refuse(req)
        PROVE  CountInv'
    BY <2>3 DEF Replay, Refuse, Answer,
                CountInv
  <2>4. ASSUME NEW req \in GenerateRequests, Generate(req)
        PROVE  CountInv'
    <3> DEFINE own == KeyOf(req)
    <3>1. /\ own \notin DOMAIN kept
          /\ DOMAIN kept' = DOMAIN kept \cup {own}
          /\ Cardinality(DOMAIN kept) < MaxKept
          /\ answer'.kind = "generated"
      BY <2>4 DEF Generate, Answer
    <3>2. /\ IsFiniteSet(DOMAIN kept')
          /\ Cardinality(DOMAIN kept') = Cardinality(DOMAIN kept) + 1
      BY <2>1, <3>1, FS_AddElement
    <3> QED
      BY <2>1, <3>1, <3>2, SameFinite, SameCardinality DEF CountInv
  <2>5. CASE ExpireMapping
    <3>1. PICK own \in DOMAIN kept : DOMAIN kept' = DOMAIN kept \ {own}
      BY <2>5 DEF ExpireMapping
    <3>2. /\ IsFiniteSet(DOMAIN kept')
          /\ Cardinality(DOMAIN kept') = Cardinality(DOMAIN kept) - 1
      BY <2>1, <3>1, FS_RemoveElement
    <3>3. answer'.kind = "none"
      BY <2>5 DEF ExpireMapping, NoAnswer
    <3> QED
      BY <2>1, <3>2, <3>3, SameFinite, SameCardinality DEF CountInv
  <2> QED
    BY <2>2, <2>3, <2>4, <2>5 DEF ContentNext
<1> QED
  BY <1>1, <1>2, PTL DEF ContentSpec

LEMMA OneElement ==
    ASSUME NEW T, NEW s \in Seq(T), Len(s) <= 1, s # <<>>
    PROVE  s[1] \in T /\ s = <<s[1]>>
<1>1. Len(s) \in Nat /\ s \in [1..Len(s) -> T]
  OBVIOUS
<1>2. Len(s) # 0
  OBVIOUS
<1>3. Len(s) = 1
  BY <1>1, <1>2
<1>4. s \in [1..1 -> T]
  BY <1>1, <1>3
<1>5. s = [i \in 1..1 |-> s[1]]
  BY <1>4
<1>6. <<s[1]>> = [i \in 1..1 |-> s[1]]
  OBVIOUS
<1> QED
  BY <1>4, <1>5, <1>6

\* The prompts of a valid request's generation.
LEMMA GenerationType ==
    ASSUME AsksAssumption, NEW req \in EveryRequest,
           Valid(toGenerateVariationsInput(req))
    PROVE  LET g == Generation(toGenerateVariationsInput(req))
           IN  /\ Len(g) \in 1..3
               /\ ToSet(g) \subseteq Prompts
<1> DEFINE in == toGenerateVariationsInput(req)
           d == in.profile
           list == in.strategies
           ask == req.ask
<1>1. ask \in Asks /\ ask \in [strategies : Json(Seq(STRING)),
                              currency : Json(STRING)]
  BY DEF EveryRequest, AsksAssumption
<1>2. /\ list = IF IsEmpty(ask.strategies) THEN allStrategies
                                                  ELSE ask.strategies[1]
      /\ in.currency = IF ask.currency \in {<<>>, <<"">>} THEN "USD"
                                                       ELSE ask.currency[1]
  BY DEF toGenerateVariationsInput
<1>3. /\ d.content # NoURL
      /\ Len(list) \in 1..3
      /\ ToSet(list) \subseteq Strategies
  BY DEF Valid
<1>4. DOMAIN list = 1..Len(list)
  <2>1. CASE IsEmpty(ask.strategies)
    <3> DEFINE all == allStrategies
    <3>1. DOMAIN all = 1..3 /\ Len(all) = 3
      BY DEF allStrategies
    <3> HIDE DEF all
    <3>2. list = all
      BY <1>2, <2>1 DEF all
    <3> HIDE DEF list
    <3> QED
      BY <3>1, <3>2
  <2>2. CASE ~IsEmpty(ask.strategies)
    <3> DEFINE s == ask.strategies
    <3>1. s \in Seq(Seq(STRING)) /\ Len(s) <= 1 /\ s # <<>>
      BY <1>1, <2>2 DEF Json, IsEmpty
    <3>2. list = s[1]
      BY <1>2, <2>2
    <3> HIDE DEF s, list
    <3>3. list \in Seq(STRING)
      BY <3>1, <3>2, OneElement
    <3> QED
      BY <3>3
  <2> QED
    BY <2>1, <2>2
<1>5. Generation(in) = [i \in 1..Len(list) |->
                                  Prompt(in, list[i])]
  BY <1>4 DEF Generation
<1>6. in.currency \in Currencies
  <2>1. CASE ask.currency \in {<<>>, <<"">>}
    BY <1>2, <2>1 DEF Currencies
  <2>2. CASE ask.currency \notin {<<>>, <<"">>}
    <3> DEFINE s == ask.currency
    <3>1. s \in Seq(STRING) /\ Len(s) <= 1 /\ s # <<>> /\ s # <<"">>
      BY <1>1, <2>2 DEF Json
    <3> HIDE DEF s
    <3>2. s = <<s[1]>>
      BY <3>1, OneElement
    <3>3. s[1] # ""
      BY <3>1, <3>2, Zenon
    <3> QED
      BY <1>1, <1>2, <2>2, <3>1, <3>3 DEF Currencies, s
  <2> QED
    BY <2>1, <2>2
<1>7. /\ d.content \in Contents
      /\ d.position \in Positions
      /\ IF IsEmpty(d.keywords) THEN TRUE
         ELSE d.keywords \in {<<<<w>>>> : w \in Words}
  <2>1. PICK p \in Profiles :
          req.profile \in Spellings(toAPISiteProfile(p))
    BY DEF EveryRequest
  <2>2. d = fromAPISiteProfile(req.profile)
    BY DEF toGenerateVariationsInput
  <2> HIDE DEF d
  <2>3. /\ d.content \in {p.content, NoURL} /\ d.position = p.position
        /\ IF IsEmpty(p.keywords) THEN IsEmpty(d.keywords)
           ELSE d.keywords = p.keywords
    BY <2>1, <2>2, Spelled
  <2>4. /\ p.content \in Contents /\ p.position \in Positions
        /\ IsEmpty(p.keywords)
           \/ p.keywords \in {<<<<w>>>> : w \in Words}
    BY DEF Profiles, IsEmpty
  <2> QED
    BY <1>3, <2>3, <2>4
<1>8. ASSUME NEW s \in Strategies
      PROVE  Prompt(in, s) \in Prompts
  <2> DEFINE words == IF IsEmpty(d.keywords) THEN <<>> ELSE d.keywords
  <2>1. words \in {<<>>} \cup {<<<<w>>>> : w \in Words}
    BY <1>7
  <2>2. Prompt(in, s) =
          [strategy |-> s, currency |-> in.currency, content |-> d.content,
           position |-> d.position, keywords |-> words]
    BY DEF Prompt
  <2> HIDE DEF words
  <2> QED
    BY <1>6, <1>7, <2>1, <2>2 DEF Prompts
<1> HIDE DEF in, d, list, ask
<1>9. \A i \in 1..Len(list) : list[i] \in Strategies
  BY <1>3, <1>4 DEF ToSet
<1>10. Len(Generation(in)) = Len(list)
  BY <1>3, <1>5
<1>11. ToSet(Generation(in)) \subseteq Prompts
  BY <1>5, <1>8, <1>9 DEF ToSet
<1> QED
  BY <1>3, <1>10, <1>11 DEF in

\* Profiles, generations and answers keep their types, and Redis its bound,
\* for whatever strategies and currencies clients ask.
THEOREM ContentTyping ==
    ASSUME MaxKeptAssumption, AsksAssumption
    PROVE  ContentSpec => []ContentTypeOK
<1>1. ASSUME ContentInv, CountInv PROVE ContentTypeOK
  <2>1. analyzed \in Profiles /\ held \in APIProfiles
    <3>1. held \in Spellings(toAPISiteProfile(analyzed))
      BY <1>1 DEF ContentInv, HeldInv, Spellings
    <3> QED
      BY <1>1, <3>1, Spelled DEF ContentInv, HeldInv
  <2>2. ASSUME NEW k \in DOMAIN kept
        PROVE  /\ Len(kept[k].generation) \in 1..3
               /\ ToSet(kept[k].generation) \subseteq Prompts
    <3>1. PICK req \in EveryRequest : KeptFor(k, req)
      BY <1>1 DEF ContentInv, KeptInv
    <3> DEFINE in == toGenerateVariationsInput(req)
    <3>2. Valid(in) /\ kept[k].generation = Generation(in)
      BY <3>1 DEF KeptFor
    <3> QED
      BY <3>2, GenerationType
  <2> QED
    BY <1>1, <2>1, <2>2 DEF ContentTypeOK, CountInv
<1> QED
  BY <1>1, ContentInvariance, ContentCount, PTL
=============================================================================
