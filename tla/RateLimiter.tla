----------------------------- MODULE RateLimiter -----------------------------
(***************************************************************************)
(* The fixed-window rate limiter of POST /v1/analyze and /v1/generate, for *)
(* the callers behind one client IP: the EVAL script and its answer        *)
(* (internal/adapter/cache/redis_rate_limiter.go) and what checkRateLimit  *)
(* makes of it (internal/adapter/httpapi/ratelimit.go).                    *)
(*                                                                         *)
(* The script is one step: Redis runs it whole, and its clock stands still *)
(* meanwhile.  Time is Redis's, in milliseconds.                           *)
(***************************************************************************)
EXTENDS Integers, Sequences, FiniteSets

CONSTANTS
    Limit,          \* calls allowed per window (RATE_LIMIT_REQUESTS)
    Window,         \* whole milliseconds of a window (RATE_LIMIT_WINDOW)
    Second,         \* milliseconds of a second
    FallibleStore,  \* whether the EVAL may return an error
    MaxTime,        \* bound: the last millisecond
    MaxCalls        \* bound: calls let through

\* Config.validate.  A positive window may be less than a millisecond, and
\* Milliseconds() then makes it 0.
ASSUME LimitAssumption == Limit \in Nat \ {0}
ASSUME WindowAssumption == Window \in Nat
ASSUME SecondAssumption == Second \in Nat \ {0}
ASSUME FallibleStoreAssumption == FallibleStore \in BOOLEAN
ASSUME BoundsAssumption == MaxTime \in Nat /\ MaxCalls \in Nat

VARIABLES
    now,            \* Redis's clock
    count,          \* the key's counter (Limit + 1 stands for any larger)
    expires,        \* when the key expires
    allowed,        \* times of the calls the script allowed
    opened,         \* times of the calls let through for want of an answer
    refused         \* the last 429, if any

keyVars == <<count, expires>>
vars == <<now, keyVars, allowed, opened, refused>>

----------------------------------------------------------------------------
Init ==
    /\ now = 0
    /\ count = 0
    /\ expires = 0
    /\ allowed = <<>>
    /\ opened = <<>>
    /\ refused = {}

Tick ==
    /\ now < MaxTime
    /\ now' = now + 1
    /\ UNCHANGED <<keyVars, allowed, opened, refused>>

\* Redis keeps a key through the millisecond it expires in.
Alive == count > 0 /\ now <= expires

\* The value INCR returns.
Incremented == IF ~Alive THEN 1 ELSE IF count > Limit THEN count ELSE count + 1

\* The counter after PEXPIRE, which deletes a key whose time is up at once.
Kept == IF Incremented = 1 /\ Window = 0 THEN 0 ELSE Incremented

\* As if every call pushed the expiry back.
IncrAndAlwaysExpire ==
    /\ count' = Kept
    /\ expires' = now + Window

\* INCR, and PEXPIRE for a key it has just created.
IncrAndExpire ==
    /\ count' = Kept
    /\ expires' = IF Incremented = 1 THEN now + Window ELSE expires

\* What PTTL returns after them.  The key is alive there and has an expiry,
\* so the script's test for a negative answer never holds.
PTTL == expires' - now

\* As if the remainder were dropped.
FloorSecond(d) == (d \div Second) * Second

\* ceilSecond; checkRateLimit, which rounds again, leaves a whole second be.
CeilSecond(d) ==
    IF d % Second = 0 THEN d ELSE (d \div Second + 1) * Second

----------------------------------------------------------------------------
\* As if the script compared the count before INCR.
AllowOneMore ==
    /\ Incremented <= Limit + 1
    /\ Len(allowed) + Len(opened) < MaxCalls
    /\ IncrAndExpire
    /\ allowed' = Append(allowed, now)
    /\ UNCHANGED <<now, opened, refused>>

\* The script answers {1, 0}: the handler goes on.
Allow ==
    /\ Incremented <= Limit
    /\ Len(allowed) + Len(opened) < MaxCalls
    /\ IncrAndExpire
    /\ allowed' = Append(allowed, now)
    /\ UNCHANGED <<now, opened, refused>>

\* The script answers {0, PTTL}: the handler writes 429 and Retry-After.
Refuse ==
    /\ Incremented > Limit
    /\ IncrAndExpire
    /\ refused' = {[at |-> now, retryAfter |-> CeilSecond(PTTL),
                    ends |-> expires']}
    /\ UNCHANGED <<now, allowed, opened>>

\* The EVAL returns an error, whether or not Redis ran it: the handler lets
\* the call through.
FailOpen ==
    /\ FallibleStore
    /\ Len(allowed) + Len(opened) < MaxCalls
    /\ IncrAndExpire \/ UNCHANGED keyVars
    /\ opened' = Append(opened, now)
    /\ UNCHANGED <<now, allowed, refused>>

\* The bound on time is reached.
Rest == now = MaxTime /\ UNCHANGED vars

Next == Tick \/ Allow \/ Refuse \/ FailOpen \/ Rest

Spec == Init /\ [][Next]_vars

----------------------------------------------------------------------------
(* Properties.                                                             *)

Refusals == [at : Nat, retryAfter : Nat, ends : Nat]

TypeOK ==
    /\ now \in 0..MaxTime
    /\ count \in 0..(Limit + 1)
    /\ expires \in Nat
    /\ allowed \in Seq(Nat)
    /\ opened \in Seq(Nat)
    /\ refused \in SUBSET Refusals

\* RedisRateLimiter's comment: a caller can burst up to twice the limit
\* across a boundary, and no more.  Any 2 * Limit + 1 calls the script allows
\* take longer than a window, wherever its windows begin, whatever refused or
\* unanswered calls come between.
BurstAtMostTwice ==
    \A i \in 1..Len(allowed) :
        i + 2 * Limit <= Len(allowed) =>
            allowed[i + 2 * Limit] - allowed[i] > Window

\* A caller is refused only after Limit calls have been let through in the
\* window that refuses it, the ones whose answer was lost included.
RefusalIsEarned ==
    \A r \in refused :
        LET since(log) == {i \in 1..Len(log) : log[i] >= r.ends - Window}
        IN  Cardinality(since(allowed)) + Cardinality(since(opened)) >= Limit

\* checkRateLimit, "ceil rather than truncate so a sub-second remainder never
\* rounds down to 0 and tells a rejected caller to retry immediately".
RetryIsLater == \A r \in refused : r.retryAfter > 0

\* Config.RateLimitRequests, "how many calls a single client (identified by
\* IP) may make to a rate-limited endpoint ... per RateLimitWindow": even a
\* window of half a millisecond has no more than two boundaries in one, and
\* less than four times the limit.
FewPerMillisecond ==
    \A i \in 1..Len(allowed) :
        i + 4 * Limit <= Len(allowed) => allowed[i + 4 * Limit] > allowed[i]

\* Retry-After never sends a caller back before the window that refused it
\* ends, and never makes it wait a second longer than that: INCR leaves the
\* expiry alone and the remainder is rounded up.
RetryAfterCovers ==
    \A r \in refused :
        /\ r.at + r.retryAfter >= r.ends
        /\ r.at + r.retryAfter < r.ends + Second
=============================================================================
