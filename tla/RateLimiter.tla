---------------------------- MODULE RateLimiter ----------------------------
(***************************************************************************)
(* RateLimiter (internal/middleware/middleware.go): a token bucket per     *)
(* client IP, refilled at limit / window when a request comes.  The bucket *)
(* is read and changed under its lock, the clock too, so a request is one  *)
(* step; LoadOrStore makes one bucket per IP whoever comes first.          *)
(*                                                                         *)
(* Time is counted in ticks.  The code counts tokens as float64; here a    *)
(* token is Window units, so that a tick adds Limit units and all is exact. *)
(***************************************************************************)
EXTENDS Integers, Sequences, FiniteSets

CONSTANTS
  IPs,
  Limit,     \* requests per window
  Window,    \* the window, in ticks
  MaxTime,   \* bound: ticks of the clock
  NoBucket   \* an IP that is not in the map yet

ASSUME RateAssumption ==
  /\ Limit \in Nat \ {0}
  /\ Window \in Nat \ {0}
  /\ MaxTime \in Nat

Full == Limit * Window

Bucket == [tokens : 0..Full, lastCheck : 0..MaxTime]

ASSUME NoBucketAssumption == NoBucket \notin Bucket

VARIABLES
  now,        \* the monotonic clock
  buckets,    \* the sync.Map
  admitted,   \* history: the times of the requests let through, oldest first
  refused     \* history: the time of the last 429 answer, -1 before the first

vars == <<now, buckets, admitted, refused>>

\* The types: a bucket holds between no token and limit tokens (RateLimiter).
TypeOK ==
  /\ now \in 0..MaxTime
  /\ buckets \in [IPs -> Bucket \cup {NoBucket}]
  /\ admitted \in [IPs -> Seq(0..MaxTime)]
  /\ refused \in [IPs -> -1..MaxTime]

Init ==
  /\ now = 0
  /\ buckets = [ip \in IPs |-> NoBucket]
  /\ admitted = [ip \in IPs |-> <<>>]
  /\ refused = [ip \in IPs |-> -1]

Tick ==
  /\ now < MaxTime
  /\ now' = now + 1
  /\ UNCHANGED <<buckets, admitted, refused>>

\* Mutant: a new bucket starts empty.
LoadedEmpty(ip) ==
  IF buckets[ip] = NoBucket THEN [tokens |-> 0, lastCheck |-> now] ELSE buckets[ip]

\* LoadOrStore: a new bucket starts full.
Loaded(ip) ==
  IF buckets[ip] = NoBucket THEN [tokens |-> Full, lastCheck |-> now] ELSE buckets[ip]

\* Mutant: tokens pile up without bound while a client is idle.
RefilledUncapped(ip) == Loaded(ip).tokens + (now - Loaded(ip).lastCheck) * Limit

\* The tokens after the refill, at most the limit.
Refilled(ip) ==
  LET tokens == Loaded(ip).tokens + (now - Loaded(ip).lastCheck) * Limit
  IN  IF tokens > Full THEN Full ELSE tokens

\* Mutant: a refused request leaves lastCheck, its refill is counted again.
CheckedAtKept(ip) == Loaded(ip).lastCheck

\* bucket.lastCheck = now, before the decision.
CheckedAt(ip) == now

Admit(ip) ==
  /\ Refilled(ip) >= Window
  /\ buckets' = [buckets EXCEPT ![ip] =
                   [tokens |-> Refilled(ip) - Window, lastCheck |-> now]]
  /\ admitted' = [admitted EXCEPT ![ip] = Append(@, now)]
  /\ UNCHANGED <<now, refused>>

Refuse(ip) ==
  /\ Refilled(ip) < Window
  /\ buckets' = [buckets EXCEPT ![ip] =
                   [tokens |-> Refilled(ip), lastCheck |-> CheckedAt(ip)]]
  /\ refused' = [refused EXCEPT ![ip] = now]
  /\ UNCHANGED <<now, admitted>>

Next == Tick \/ \E ip \in IPs : Admit(ip) \/ Refuse(ip)

Spec == Init /\ [][Next]_vars

-----------------------------------------------------------------------------
\* Between any two admitted requests of an IP, both included, there are at most a full
\* bucket plus what the time between them refills: never more than the limit at
\* once, whatever idle time, refusals and bursts went before (the refill of RateLimiter).
BurstBounded ==
  \A ip \in IPs : \A i, k \in 1..Len(admitted[ip]) :
    i <= k => (k - i + 1) * Window
                <= Full + (admitted[ip][k] - admitted[ip][i]) * Limit

\* A request is refused only to an IP that had its limit within the last window: a
\* client that keeps to limit requests per window never sees a 429 (RateLimiter).
RefusalIsEarned ==
  \A ip \in IPs :
    refused[ip] >= 0
      => Cardinality({i \in 1..Len(admitted[ip]) :
                        /\ admitted[ip][i] > refused[ip] - Window
                        /\ admitted[ip][i] <= refused[ip]}) >= Limit

-----------------------------------------------------------------------------
(* What makes these inductive: the book of a bucket b whose requests were let *)
(* through at the times a.                                                   *)

\* The requests let through after time t.
Since(a, t) == {i \in 1..Len(a) : a[i] > t}

\* A bucket never holds more than a full one, refilled since any request, less what that
\* request and those after it took.
NotTooMany(a, b) ==
  \A i \in 1..Len(a) :
    b.tokens + (Len(a) - i + 1) * Window <= Full + (b.lastCheck - a[i]) * Limit

\* Nor less than what it was refilled with since any time, up to a full one, less what the
\* requests after that time took.
NotTooFew(a, b) ==
  \A t \in -Window..b.lastCheck :
    LET held == b.tokens + Cardinality(Since(a, t)) * Window
    IN  held >= Full \/ held >= (b.lastCheck - t) * Limit

BookIsKept(a, b) ==
  /\ \A i \in 1..Len(a) : a[i] <= b.lastCheck
  /\ NotTooMany(a, b)
  /\ NotTooFew(a, b)

\* The inductive invariant of RateProofs: refills, the cap and the tokens taken are
\* accounted for by the times of the requests let through (the refill of RateLimiter).
RateInv ==
  /\ TypeOK
  /\ BurstBounded
  /\ RefusalIsEarned
  /\ \A ip \in IPs :
       IF buckets[ip] = NoBucket THEN admitted[ip] = <<>>
       ELSE buckets[ip].lastCheck <= now /\ BookIsKept(admitted[ip], buckets[ip])
=============================================================================
