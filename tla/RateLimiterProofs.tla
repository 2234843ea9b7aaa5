-------------------------- MODULE RateLimiterProofs --------------------------
(***************************************************************************)
(* What a refusal says, and the 2 * Limit bound, for every limit, window    *)
(* and length of run.                                                      *)
(*                                                                         *)
(* The bound speaks of calls in three different windows, and the key only  *)
(* remembers one.  The induction therefore splits the log of allowed calls *)
(* at the first call of the key's window: at most Limit calls are in it,   *)
(* and all but the last Limit calls before it lie more than a window       *)
(* before its start.  The other way around, a counter that is over the     *)
(* limit has that many logged calls of its window behind it.               *)
(***************************************************************************)
EXTENDS RateLimiter, FiniteSetTheorems, TLAPS

\* When the window of the key began.
Start == expires - Window

\* The first b allowed calls are the ones before the key's window.
Split(b) ==
    /\ Len(allowed) - b <= Limit
    /\ Len(allowed) - b <= count
    /\ \A i \in 1..b : allowed[i] < Start
    /\ \A i \in 1..b : i + Limit <= b => allowed[i] + Window < Start
    /\ \A i \in 1..Len(allowed) : i > b => Start <= allowed[i]

KeyInv ==
    /\ count = 0 => allowed = <<>>
    /\ count > 0 => Start <= now
    /\ \A i \in 1..Len(allowed) : allowed[i] <= expires
    /\ \E b \in 0..Len(allowed) : Split(b)

IInv == TypeOK /\ KeyInv /\ BurstAtMostTwice

----------------------------------------------------------------------------
(* A remainder rounds up to the next second and no further.                *)

LEMMA CeilSecondNat ==
    ASSUME NEW d \in Nat
    PROVE  CeilSecond(d) \in Nat
  BY SecondAssumption DEF CeilSecond

LEMMA TypeStep == TypeOK /\ [Next]_vars => TypeOK'
<1> SUFFICES ASSUME TypeOK, [Next]_vars
             PROVE  TypeOK'
  OBVIOUS
<1> USE LimitAssumption, WindowAssumption, BoundsAssumption DEF TypeOK
<1>1. IncrAndExpire =>
          /\ count' \in 0..(Limit + 1)
          /\ expires' \in Nat
  BY DEF IncrAndExpire, Kept, Incremented
<1>2. CASE Tick
  BY <1>2 DEF Tick, keyVars
<1>3. CASE Allow
  BY <1>1, <1>3 DEF Allow
<1>4. CASE Refuse
  <2>1. expires' - now \in Nat /\ now \in Nat
    BY <1>1, <1>4 DEF Refuse, IncrAndExpire, Incremented, Alive
  <2>2. CeilSecond(PTTL) \in Nat
    BY <2>1, CeilSecondNat DEF PTTL
  <2> QED
    BY <1>1, <1>4, <2>1, <2>2 DEF Refuse, Refusals
<1>5. CASE FailOpen
  BY <1>1, <1>5 DEF FailOpen, keyVars
<1>6. CASE UNCHANGED vars
  BY <1>6 DEF vars, keyVars
<1> QED
  BY <1>2, <1>3, <1>4, <1>5, <1>6 DEF Next, Rest

\* Every variable keeps its type: ceilSecond, PTTL and the counter included.
THEOREM Typing == Spec => []TypeOK
<1>1. Init => TypeOK
  BY LimitAssumption, BoundsAssumption DEF Init, TypeOK
<1> QED
  BY <1>1, TypeStep, PTL DEF Spec

----------------------------------------------------------------------------
(* The steps that write a log.                                             *)

LEMMA AppendFacts ==
    ASSUME NEW log \in Seq(Nat), NEW t \in Nat
    PROVE  /\ Append(log, t) \in Seq(Nat)
           /\ Len(Append(log, t)) = Len(log) + 1
           /\ \A i \in 1..Len(log) : Append(log, t)[i] = log[i]
           /\ Append(log, t)[Len(log) + 1] = t
  OBVIOUS

\* A call allowed in the window of the key.
LEMMA AllowWithin ==
    ASSUME IInv, Allow, Alive
    PROVE  KeyInv' /\ BurstAtMostTwice'
<1> USE LimitAssumption, WindowAssumption
<1>0. PICK n \in Nat : n = Len(allowed)
  BY DEF IInv, TypeOK
<1>1. /\ now \in Nat /\ count \in Nat /\ expires \in Nat
      /\ allowed \in Seq(Nat) /\ n \in Nat /\ Len(allowed) = n
      /\ \A i \in 1..n : allowed[i] \in Nat
  BY <1>0 DEF IInv, TypeOK
<1>2. /\ count' = count + 1 /\ count' <= Limit /\ count > 0
      /\ expires' = expires /\ Start' = Start /\ now' = now /\ now <= expires
  BY <1>1 DEF Allow, IncrAndExpire, Kept, Incremented, Alive, Start
<1>3. /\ Len(allowed') = n + 1
      /\ \A i \in 1..n : allowed'[i] = allowed[i]
      /\ allowed'[n + 1] = now /\ now \in Nat
  BY <1>1, AppendFacts DEF Allow
<1>4. PICK b \in 0..n : Split(b)
  BY <1>1 DEF IInv, KeyInv
<1>5. b \in 0..(n + 1) /\ b \in Int /\ Start \in Int /\ Start <= now
  BY <1>1, <1>2 DEF IInv, KeyInv, Start
<1>6. Split(b)'
  BY <1>1, <1>2, <1>3, <1>4, <1>5 DEF Split
<1>7. KeyInv'
  BY <1>1, <1>2, <1>3, <1>5, <1>6 DEF IInv, KeyInv
<1>8. ASSUME NEW i \in 1..(n + 1), i + 2 * Limit <= n + 1
      PROVE  allowed'[i + 2 * Limit] - allowed'[i] > Window
  <2>1. i \in 1..n /\ i + 2 * Limit \in 1..(n + 1)
    BY <1>1, <1>8
  <2>2. CASE i + 2 * Limit <= n
    BY <1>1, <1>3, <2>1, <2>2 DEF IInv, BurstAtMostTwice
  <2>3. CASE i + 2 * Limit = n + 1
    <3>1. i + Limit <= b
      BY <1>1, <1>2, <1>4, <1>5, <2>3 DEF Split
    <3>2. i \in 1..b
      BY <1>5, <2>1, <3>1
    <3>3. allowed[i] + Window < Start
      BY <1>4, <3>1, <3>2 DEF Split
    <3>4. /\ allowed'[i + 2 * Limit] = now /\ allowed'[i] = allowed[i]
          /\ allowed[i] \in Nat
      BY <1>1, <1>3, <2>1, <2>3
    <3> QED
      BY <1>1, <1>5, <3>3, <3>4
  <2> QED
    BY <1>1, <2>1, <2>2, <2>3
<1> QED
  BY <1>3, <1>7, <1>8 DEF BurstAtMostTwice

\* The key is gone: every call of the log is over by more than its window's
\* end, and all but the last Limit by more than a window.
LEMMA PastWindow ==
    ASSUME IInv, ~Alive
    PROVE  /\ \A i \in 1..Len(allowed) : allowed[i] < now
           /\ \A i \in 1..Len(allowed) :
                 i + Limit <= Len(allowed) => allowed[i] + Window < now
<1> USE LimitAssumption, WindowAssumption
<1>0. PICK n \in Nat : n = Len(allowed)
  BY DEF IInv, TypeOK
<1>1. /\ now \in Nat /\ count \in Nat /\ expires \in Nat
      /\ allowed \in Seq(Nat) /\ n \in Nat /\ Len(allowed) = n
      /\ \A i \in 1..n : allowed[i] \in Nat
  BY <1>0 DEF IInv, TypeOK
<1>2. CASE count = 0
  <2>1. n = 0
    BY <1>1, <1>2 DEF IInv, KeyInv
  <2> QED
    BY <1>1, <2>1
<1>3. CASE count > 0
  <2>1. expires < now
    BY <1>1, <1>3 DEF Alive
  <2>2. PICK b \in 0..n : Split(b)
    BY <1>1 DEF IInv, KeyInv
  <2>3. \A i \in 1..n : allowed[i] <= expires
    BY <1>1 DEF IInv, KeyInv
  <2>4. ASSUME NEW i \in 1..n, i + Limit <= n
        PROVE  allowed[i] + Window < now
    <3>1. i \in 1..b
      BY <1>1, <2>2, <2>4 DEF Split
    <3>2. allowed[i] < Start
      BY <2>2, <3>1 DEF Split
    <3> QED
      BY <1>1, <2>1, <2>4, <3>2 DEF Start
  <2> QED
    BY <1>1, <2>1, <2>3, <2>4
<1> QED
  BY <1>1, <1>2, <1>3

\* A call allowed as the first of a new window.
LEMMA AllowAnew ==
    ASSUME IInv, Allow, ~Alive, Window # 0
    PROVE  KeyInv' /\ BurstAtMostTwice'
<1> USE LimitAssumption, WindowAssumption
<1>0. PICK n \in Nat : n = Len(allowed)
  BY DEF IInv, TypeOK
<1>1. /\ now \in Nat /\ allowed \in Seq(Nat) /\ n \in Nat
      /\ Len(allowed) = n /\ \A i \in 1..n : allowed[i] \in Nat
  BY <1>0 DEF IInv, TypeOK
<1>2. count' = 1 /\ expires' = now + Window /\ Start' = now /\ now' = now
  BY <1>1 DEF Allow, IncrAndExpire, Kept, Incremented, Start
<1>3. /\ Len(allowed') = n + 1
      /\ \A i \in 1..n : allowed'[i] = allowed[i]
      /\ allowed'[n + 1] = now /\ now \in Nat
  BY <1>1, AppendFacts DEF Allow
<1>4. /\ \A i \in 1..n : allowed[i] < now
      /\ \A i \in 1..n : i + Limit <= n => allowed[i] + Window < now
  BY <1>1, PastWindow
<1>5. Split(n)'
  BY <1>1, <1>2, <1>3, <1>4 DEF Split
<1>6. KeyInv'
  BY <1>1, <1>2, <1>3, <1>4, <1>5 DEF KeyInv
<1>7. ASSUME NEW i \in 1..(n + 1), i + 2 * Limit <= n + 1
      PROVE  allowed'[i + 2 * Limit] - allowed'[i] > Window
  <2>1. i \in 1..n /\ i + 2 * Limit \in 1..(n + 1) /\ i + Limit <= n
    BY <1>1, <1>7
  <2>2. CASE i + 2 * Limit <= n
    BY <1>1, <1>3, <2>1, <2>2 DEF IInv, BurstAtMostTwice
  <2>3. CASE i + 2 * Limit = n + 1
    BY <1>1, <1>3, <1>4, <2>1, <2>3
  <2> QED
    BY <1>1, <2>1, <2>2, <2>3
<1> QED
  BY <1>3, <1>6, <1>7 DEF BurstAtMostTwice

\* A call that reaches Redis and is not allowed, refused or unanswered.
LEMMA CountOnly ==
    ASSUME IInv, IncrAndExpire, UNCHANGED <<now, allowed>>, Window # 0
    PROVE  KeyInv'
<1> USE LimitAssumption, WindowAssumption
<1>1. /\ now \in Nat /\ count \in Nat /\ expires \in Nat
      /\ allowed \in Seq(Nat) /\ Len(allowed) \in Nat
      /\ \A i \in 1..Len(allowed) : allowed[i] \in Nat
  BY DEF IInv, TypeOK
<1>2. CASE Alive
  <2>1. PICK b \in 0..Len(allowed) : Split(b)
    BY DEF IInv, KeyInv
  <2>2. /\ count' >= count /\ count' > 0 /\ count' \in Nat /\ count > 0
        /\ expires' = expires /\ Start' = Start
    BY <1>1, <1>2 DEF IncrAndExpire, Kept, Incremented, Alive, Start
  <2>3. Split(b)'
    BY <1>1, <2>1, <2>2 DEF Split
  <2> QED
    BY <1>1, <2>2, <2>3 DEF IInv, KeyInv
<1>3. CASE ~Alive
  <2>1. count' = 1 /\ expires' = now + Window /\ Start' = now
    BY <1>1, <1>3 DEF IncrAndExpire, Kept, Incremented, Start
  <2>2. Split(Len(allowed))'
    BY <1>1, <1>3, <2>1, PastWindow DEF Split
  <2> QED
    BY <1>1, <1>3, <2>1, <2>2, PastWindow DEF KeyInv
<1> QED
  BY <1>2, <1>3

----------------------------------------------------------------------------
\* The split is an inductive invariant, and with it the bound, where a window
\* is at least a millisecond.
THEOREM Invariance ==
    ASSUME Window # 0
    PROVE  Spec => []IInv
<1>1. Init => IInv
  <2> SUFFICES ASSUME Init PROVE IInv
    OBVIOUS
  <2>1. TypeOK
    BY LimitAssumption, BoundsAssumption DEF Init, TypeOK
  <2>2. KeyInv
    BY LimitAssumption, WindowAssumption DEF Init, KeyInv, Split, Start
  <2>3. BurstAtMostTwice
    BY LimitAssumption DEF Init, BurstAtMostTwice
  <2> QED
    BY <2>1, <2>2, <2>3 DEF IInv
<1>2. IInv /\ TypeOK' /\ [Next]_vars => IInv'
  <2> SUFFICES ASSUME IInv, TypeOK', [Next]_vars
               PROVE  KeyInv' /\ BurstAtMostTwice'
    BY DEF IInv
  <2>1. ASSUME UNCHANGED allowed
        PROVE  BurstAtMostTwice'
    BY <2>1 DEF IInv, BurstAtMostTwice
  <2>2. CASE Tick
    <3>1. KeyInv'
      <4>1. now \in Nat /\ expires \in Nat /\ count \in Nat
        BY DEF IInv, TypeOK
      <4>2. \A b : Split(b)' = Split(b)
        BY <2>2 DEF Tick, keyVars, Split, Start
      <4> QED
        BY <2>2, <4>1, <4>2, WindowAssumption
           DEF Tick, keyVars, IInv, KeyInv, Start
    <3> QED
      BY <2>1, <2>2, <3>1 DEF Tick
  <2>3. CASE Allow
    BY <2>3, AllowWithin, AllowAnew
  <2>4. CASE Refuse
    BY <2>1, <2>4, CountOnly DEF Refuse
  <2>5. CASE FailOpen
    <3>1. CASE IncrAndExpire
      BY <2>1, <2>5, <3>1, CountOnly DEF FailOpen
    <3>2. CASE UNCHANGED keyVars
      BY <2>1, <2>5, <3>2 DEF FailOpen, keyVars, IInv, KeyInv, Split, Start
    <3> QED
      BY <2>5, <3>1, <3>2 DEF FailOpen
  <2>6. CASE UNCHANGED vars
    BY <2>1, <2>6 DEF vars, keyVars, IInv, KeyInv, Split, Start
  <2> QED
    BY <2>2, <2>3, <2>4, <2>5, <2>6 DEF Next, Rest
<1> QED
  BY <1>1, <1>2, Typing, PTL DEF Spec

\* No 2 * Limit + 1 calls are allowed within a window's length, for every
\* limit and window of a millisecond or more: the comment of RedisRateLimiter,
\* for any run.
THEOREM BurstAtMostTwiceHolds ==
    ASSUME Window # 0
    PROVE  Spec => []BurstAtMostTwice
<1>1. IInv => BurstAtMostTwice
  BY DEF IInv
<1> QED
  BY <1>1, Invariance, PTL

----------------------------------------------------------------------------
(* Refusals.                                                               *)

Since(log, t) == {i \in 1..Len(log) : log[i] >= t}

\* The calls logged since t.
Logged(t) == Cardinality(Since(allowed, t)) + Cardinality(Since(opened, t))

\* The counter is backed by the calls logged in its window.
CountInv ==
    count > 0 =>
        /\ Start <= now
        /\ Logged(Start) >= IF count > Limit THEN Limit ELSE count

RefusalInv == TypeOK /\ CountInv /\ RefusalIsEarned

LEMMA SinceFinite ==
    ASSUME NEW log \in Seq(Nat), NEW t
    PROVE  IsFiniteSet(Since(log, t)) /\ Cardinality(Since(log, t)) \in Nat
<1>1. Len(log) \in Nat
  OBVIOUS
<1>2. IsFiniteSet(1..Len(log))
  BY <1>1, FS_Interval
<1>3. IsFiniteSet(Since(log, t))
  BY <1>2, FS_Subset DEF Since
<1> QED
  BY <1>3, FS_CardinalityType

\* A log only grows, and a call made at now is one more since any time before.
LEMMA SinceAppend ==
    ASSUME NEW log \in Seq(Nat), NEW c \in Nat, NEW t \in Int
    PROVE  /\ Cardinality(Since(Append(log, c), t)) >= Cardinality(Since(log, t))
           /\ c >= t => Cardinality(Since(Append(log, c), t))
                          = Cardinality(Since(log, t)) + 1
<1>1. PICK n \in Nat : n = Len(log)
  OBVIOUS
<1>2. /\ Append(log, c) \in Seq(Nat) /\ Len(Append(log, c)) = n + 1
      /\ \A i \in 1..n : Append(log, c)[i] = log[i]
      /\ Append(log, c)[n + 1] = c
  BY <1>1, AppendFacts
<1>3. Since(log, t) = {i \in 1..n : log[i] >= t}
  BY <1>1 DEF Since
<1>4. Since(Append(log, c), t) = {i \in 1..(n + 1) : Append(log, c)[i] >= t}
  BY <1>2 DEF Since
<1>5. IsFiniteSet(Since(log, t)) /\ Cardinality(Since(log, t)) \in Nat
  BY SinceFinite
<1>6. n + 1 \notin Since(log, t)
  BY <1>3
<1>7. CASE c >= t
  <2>1. Since(Append(log, c), t) = Since(log, t) \cup {n + 1}
    BY <1>2, <1>3, <1>4, <1>7
  <2>2. Cardinality(Since(Append(log, c), t)) = Cardinality(Since(log, t)) + 1
    BY <1>5, <1>6, <2>1, FS_AddElement
  <2> QED
    BY <1>5, <2>2
<1>8. CASE ~(c >= t)
  <2>1. Since(Append(log, c), t) = Since(log, t)
    BY <1>2, <1>3, <1>4, <1>8
  <2>2. Cardinality(Since(Append(log, c), t)) = Cardinality(Since(log, t))
    BY <2>1
  <2> QED
    BY <1>5, <1>8, <2>2
<1> QED
  BY <1>7, <1>8

LEMMA LoggedType ==
    ASSUME TypeOK, NEW t
    PROVE  /\ Logged(t) \in Nat
           /\ Cardinality(Since(allowed, t)) \in Nat
           /\ Cardinality(Since(opened, t)) \in Nat
  BY SinceFinite DEF TypeOK, Logged

LEMMA LoggedTypeNext ==
    ASSUME TypeOK', NEW t
    PROVE  Logged(t)' \in Nat
<1>1. allowed' \in Seq(Nat) /\ opened' \in Seq(Nat)
  BY DEF TypeOK
<1>2. /\ Cardinality(Since(allowed', t)) \in Nat
      /\ Cardinality(Since(opened', t)) \in Nat
  BY <1>1, SinceFinite
<1>3. Logged(t)' = Cardinality(Since(allowed', t)) + Cardinality(Since(opened', t))
  BY DEF Logged, Since
<1> QED
  BY <1>2, <1>3

\* What a step does to the number of calls logged since t.
LEMMA LoggedGrows ==
    ASSUME TypeOK, [Next]_vars, NEW t \in Int
    PROVE  /\ Logged(t)' >= Logged(t)
           /\ (Allow \/ FailOpen) /\ now >= t => Logged(t)' = Logged(t) + 1
<1>1. /\ allowed \in Seq(Nat) /\ opened \in Seq(Nat) /\ now \in Nat
      /\ Logged(t) \in Nat
      /\ Cardinality(Since(allowed, t)) \in Nat
      /\ Cardinality(Since(opened, t)) \in Nat
  BY LoggedType DEF TypeOK
<1>2. CASE Allow
  <2>1. allowed' = Append(allowed, now) /\ opened' = opened
    BY <1>2 DEF Allow
  <2>2. Since(allowed, t)' = Since(Append(allowed, now), t)
        /\ Since(opened, t)' = Since(opened, t)
    BY <2>1 DEF Since
  <2>3. IsFiniteSet(Since(Append(allowed, now), t))
        /\ Cardinality(Since(Append(allowed, now), t)) \in Nat
    BY <1>1, AppendFacts, SinceFinite
  <2> QED
    BY <1>1, <2>2, <2>3, SinceAppend DEF Logged
<1>3. CASE FailOpen
  <2>1. opened' = Append(opened, now) /\ allowed' = allowed
    BY <1>3 DEF FailOpen
  <2>2. Since(opened, t)' = Since(Append(opened, now), t)
        /\ Since(allowed, t)' = Since(allowed, t)
    BY <2>1 DEF Since
  <2>3. IsFiniteSet(Since(Append(opened, now), t))
        /\ Cardinality(Since(Append(opened, now), t)) \in Nat
    BY <1>1, AppendFacts, SinceFinite
  <2> QED
    BY <1>1, <2>2, <2>3, SinceAppend DEF Logged
<1>4. CASE ~(Allow \/ FailOpen)
  <2>1. allowed' = allowed /\ opened' = opened
    BY <1>4 DEF Next, Tick, Refuse, Rest, vars
  <2>2. Logged(t)' = Logged(t)
    BY <2>1 DEF Logged, Since
  <2> QED
    BY <1>1, <1>4, <2>2
<1> QED
  BY <1>2, <1>3, <1>4

\* The counter of a key that goes on counting, or of a new one.
LEMMA CountStep ==
    ASSUME TypeOK, CountInv, [Next]_vars
    PROVE  CountInv'
<1> USE LimitAssumption, WindowAssumption
<1>1. /\ now \in Nat /\ count \in Nat /\ expires \in Nat
      /\ now' \in Nat /\ now <= now'
  BY DEF TypeOK, Next, Tick, Allow, Refuse, FailOpen, Rest, vars
<1>2. PICK s \in Int : s = IF Alive \/ UNCHANGED keyVars THEN Start ELSE now
  <2>1. Start \in Int /\ now \in Int
    BY <1>1 DEF Start
  <2>2. (IF Alive \/ UNCHANGED keyVars THEN Start ELSE now) \in Int
    BY <2>1
  <2> QED
    BY <2>2
<1>3. /\ Logged(s) \in Nat
      /\ Logged(s)' >= Logged(s) /\ Logged(s)' \in Int
      /\ (Allow \/ FailOpen) /\ now >= s => Logged(s)' = Logged(s) + 1
  <2>1. Logged(s) \in Nat /\ Logged(s)' \in Nat
    BY LoggedType, LoggedTypeNext, TypeStep
  <2> QED
    BY <2>1, LoggedGrows
<1>4. ASSUME Start' = s PROVE Logged(Start)' = Logged(s)'
  BY <1>4 DEF Logged
<1>5. ASSUME Start = s PROVE Logged(Start) = Logged(s)
  BY <1>5 DEF Logged
<1>6. CASE UNCHANGED keyVars
  <2>1. Start' = Start /\ count' = count /\ s = Start
    BY <1>2, <1>6 DEF keyVars, Start
  <2> QED
    BY <1>1, <1>3, <1>4, <1>5, <2>1 DEF CountInv
<1>7. CASE IncrAndExpire /\ Alive /\ (Allow \/ FailOpen \/ Refuse)
  <2>1. /\ count > 0 /\ Start' = Start /\ s = Start /\ now' = now
        /\ count' = IF count > Limit THEN count ELSE count + 1
    BY <1>1, <1>2, <1>7
       DEF IncrAndExpire, Kept, Incremented, Alive, Start, Allow, FailOpen,
           Refuse
  <2>2. Start <= now /\ Logged(s) >= IF count > Limit THEN Limit ELSE count
    BY <1>5, <2>1 DEF CountInv
  <2>3. CASE Allow \/ FailOpen
    <3>1. Logged(s)' = Logged(s) + 1
      BY <1>3, <2>1, <2>2, <2>3
    <3> QED
      BY <1>1, <1>3, <1>4, <2>1, <2>2, <3>1 DEF CountInv
  <2>4. CASE Refuse
    <3>1. count >= Limit
      BY <1>1, <1>7, <2>4 DEF Refuse, Incremented
    <3> QED
      BY <1>1, <1>3, <1>4, <2>1, <2>2, <3>1 DEF CountInv
  <2> QED
    BY <1>7, <2>3, <2>4
<1>8. CASE IncrAndExpire /\ ~Alive /\ (Allow \/ FailOpen \/ Refuse)
  <2>1. Incremented = 1 /\ now' = now
    BY <1>8 DEF Incremented, Allow, FailOpen, Refuse
  <2>2. Allow \/ FailOpen
    BY <1>8, <2>1 DEF Refuse
  <2>3. CASE count' = 0
    BY <2>3 DEF CountInv
  <2>4. CASE count' # 0
    <3>1. count' = 1 /\ expires' = now + Window
      BY <2>1, <2>4, <1>8 DEF IncrAndExpire, Kept
    <3>2. Start' = now
      BY <1>1, <3>1 DEF Start
    <3>3. ~(UNCHANGED keyVars)
      BY <1>1, <1>8, <3>1 DEF Alive, keyVars
    <3>4. s = now
      BY <1>2, <1>8, <3>3
    <3>5. Logged(s)' >= 1
      BY <1>1, <1>3, <2>2, <3>4
    <3> QED
      BY <1>1, <1>4, <2>1, <3>1, <3>2, <3>4, <3>5 DEF CountInv
  <2> QED
    BY <2>3, <2>4
<1> QED
  BY <1>6, <1>7, <1>8 DEF Next, Tick, Allow, Refuse, FailOpen, Rest, vars

LEMMA RefusalStep ==
    ASSUME TypeOK, TypeOK', CountInv', RefusalIsEarned, [Next]_vars
    PROVE  RefusalIsEarned'
<1> USE LimitAssumption, WindowAssumption
<1> SUFFICES ASSUME NEW r \in refused'
             PROVE  (Logged(r.ends - Window) >= Limit)'
  BY DEF RefusalIsEarned, Logged, Since
<1>1. r.ends \in Nat
  BY DEF TypeOK, Refusals
<1>2. PICK s \in Int : s = r.ends - Window
  BY <1>1
<1>3. CASE Refuse
  <2>1. r.ends = expires'
    BY <1>3 DEF Refuse
  <2>2. Start' = s
    BY <1>2, <2>1 DEF Start
  <2>3. Incremented > Limit
    BY <1>3 DEF Refuse
  <2>4. count' = Incremented /\ Incremented \in Nat
    BY <1>3, <2>3 DEF Refuse, IncrAndExpire, Kept, Incremented, TypeOK
  <2>5. Logged(Start)' >= Limit
    BY <2>3, <2>4 DEF CountInv
  <2> QED
    BY <1>2, <2>2, <2>5 DEF Logged
<1>4. CASE ~Refuse
  <2>1. r \in refused
    BY <1>4 DEF Next, Tick, Allow, FailOpen, Rest, vars
  <2>2. Logged(s) >= Limit
    BY <1>2, <2>1 DEF RefusalIsEarned, Logged, Since
  <2>3. Logged(s) \in Nat /\ Logged(s)' \in Nat /\ Logged(s)' >= Logged(s)
    BY LoggedType, LoggedTypeNext, LoggedGrows
  <2> QED
    BY <1>2, <2>2, <2>3 DEF Logged
<1> QED
  BY <1>3, <1>4

\* A caller is refused only after Limit calls have been let through in the
\* window that refuses it, for every limit and window, 0 included.
THEOREM RefusalIsEarnedHolds == Spec => []RefusalIsEarned
<1>1. Init => RefusalInv
  <2> SUFFICES ASSUME Init PROVE RefusalInv
    OBVIOUS
  <2>1. TypeOK
    BY LimitAssumption, BoundsAssumption DEF Init, TypeOK
  <2> QED
    BY <2>1 DEF Init, RefusalInv, CountInv, RefusalIsEarned
<1>2. RefusalInv /\ [Next]_vars => RefusalInv'
  BY TypeStep, CountStep, RefusalStep DEF RefusalInv
<1>3. RefusalInv => RefusalIsEarned
  BY DEF RefusalInv
<1> QED
  BY <1>1, <1>2, <1>3, PTL DEF Spec

\* A remainder rounds up, and by less than a second.
LEMMA CeilSecondBounds ==
    ASSUME NEW d \in Nat
    PROVE  CeilSecond(d) >= d /\ CeilSecond(d) < d + Second
<1> USE SecondAssumption
<1>1. PICK q \in Nat, m \in 0..(Second - 1) :
         d = q * Second + m /\ q = d \div Second /\ m = d % Second
  BY SMTT(30)
<1>2. (q + 1) * Second = q * Second + Second
  BY SMTT(30)
<1>3. q * Second \in Nat
  BY SMTT(30)
<1> QED
  BY <1>1, <1>2, <1>3 DEF CeilSecond

\* Retry-After covers the rest of the window, and no second more, for every
\* limit and window.
THEOREM RetryAfterCoversHolds == Spec => []RetryAfterCovers
<1>1. Init => RetryAfterCovers
  BY DEF Init, RetryAfterCovers
<1>2. TypeOK /\ RetryAfterCovers /\ [Next]_vars => RetryAfterCovers'
  <2> SUFFICES ASSUME TypeOK, RetryAfterCovers, [Next]_vars
               PROVE  RetryAfterCovers'
    OBVIOUS
  <2> USE LimitAssumption, WindowAssumption, SecondAssumption
  <2>1. CASE Refuse
    <3>1. /\ now \in Nat /\ expires' \in Nat /\ expires' - now \in Nat
          /\ PTTL = expires' - now
      BY <2>1 DEF TypeOK, Refuse, IncrAndExpire, Kept, Incremented, Alive, PTTL
    <3>2. /\ CeilSecond(PTTL) >= PTTL /\ CeilSecond(PTTL) < PTTL + Second
          /\ CeilSecond(PTTL) \in Nat
      BY <3>1, CeilSecondBounds, CeilSecondNat
    <3>3. refused' = {[at |-> now, retryAfter |-> CeilSecond(PTTL),
                       ends |-> expires']}
      BY <2>1 DEF Refuse
    <3> QED
      BY <3>1, <3>2, <3>3 DEF RetryAfterCovers
  <2>2. CASE ~Refuse
    BY <2>2 DEF RetryAfterCovers, Next, Tick, Allow, FailOpen, Rest, vars
  <2> QED
    BY <2>1, <2>2
<1> QED
  BY <1>1, <1>2, Typing, PTL DEF Spec
=============================================================================
