---------------------------- MODULE RateLimiter ----------------------------
(***************************************************************************)
(* The API server's token bucket rate limiter (internal/middleware).  The  *)
(* mutex is held over the whole of a request's accounting, so a request is *)
(* one step.  Time is counted in ticks, a tick being the time in which one *)
(* unit, the Unit-th part of a token, is refilled: "elapsed * rate" is     *)
(* then the number of ticks elapsed.  Float rounding is left out.          *)
(***************************************************************************)
EXTENDS Integers

CONSTANTS Users,       \* authenticated users
          Addrs,       \* remote addresses, host:port
          Unit,        \* ticks it takes to refill a token (60 s / RPM)
          Burst,       \* rate_burst
          MaxTime,     \* bound: the clock
          MaxRequests  \* bound: requests

ASSUME UnitAssumption == Unit \in Nat \ {0}

ASSUME BurstAssumption == Burst \in Nat

VARIABLES buckets,   \* the map from keys to buckets, created on demand
          now,       \* time.Now()
          requests,  \* requests served, for the bound

          (* What an observer who starts counting at time since has seen. *)
          since,     \* start of the observed window
          granted,   \* units of the admitted requests, by key
          refused    \* units paid by the requests refused since the last
                     \* admitted one, by key

limiterVars == <<buckets, requests>>

observerVars == <<since, granted, refused>>

vars == <<limiterVars, now, observerVars>>

Keys == Users \cup Addrs

Capacity == Burst * Unit

Bucket == [tokens : Int, lastRefill : Nat]

TypeOK == /\ DOMAIN buckets \subseteq Keys
          /\ buckets \in [DOMAIN buckets -> Bucket]
          /\ now \in Nat /\ since \in Nat /\ requests \in Nat
          /\ granted \in [Keys -> Nat]
          /\ refused \in [Keys -> Nat]

Init == /\ buckets = [k \in {} |-> [tokens |-> 0, lastRefill |-> 0]]
        /\ now = 0 /\ requests = 0
        /\ since = 0
        /\ granted = [k \in Keys |-> 0]
        /\ refused = [k \in Keys |-> 0]

-----------------------------------------------------------------------------
\* (mutant) there is no fallback to the address.
KeyOfContext(ctxUser, addr) == ctxUser

\* The user in the request's context, else the remote address.
KeyOf(ctxUser, addr) == IF ctxUser \in Users THEN ctxUser ELSE addr

\* A bucket that is not there yet is created full.
BucketOf(k) == IF k \in DOMAIN buckets
                 THEN buckets[k]
                 ELSE [tokens |-> Capacity, lastRefill |-> now]

\* (mutant) the amount is not limited to the burst.
RefilledUncapped(b) == b.tokens + (now - b.lastRefill)

\* (mutant) a bucket in debt is not refilled.
RefilledSolvent(b) == IF b.tokens < 0 \/ b.tokens + (now - b.lastRefill) <= Capacity
                        THEN b.tokens + IF b.tokens < 0 THEN 0 ELSE now - b.lastRefill
                        ELSE Capacity

\* Tokens earned since the last refill, up to the burst.
Refilled(b) == IF b.tokens + (now - b.lastRefill) > Capacity
                 THEN Capacity
                 ELSE b.tokens + (now - b.lastRefill)

\* The accounting of a request of key k.  A refused request pays as well, so
\* the number of tokens may become negative.
TokensLeft(k) == Refilled(BucketOf(k)) - Unit

Consume(k) ==
  buckets' = [x \in DOMAIN buckets \cup {k} |->
                IF x = k THEN [tokens |-> TokensLeft(k), lastRefill |-> now]
                         ELSE buckets[x]]

Limit(ctxUser, addr) ==
  LET k       == KeyOf(ctxUser, addr)
      allowed == TokensLeft(k) >= 0
  IN /\ requests < MaxRequests
     /\ requests' = requests + 1
     /\ Consume(k)
     /\ granted' = [granted EXCEPT ![k] = @ + IF allowed THEN Unit ELSE 0]
     /\ refused' = [refused EXCEPT ![k] = IF allowed THEN 0 ELSE @ + Unit]
     /\ UNCHANGED <<now, since>>

\* NewMux wraps Auth in Limit: no user is in the context yet.
ServeHTTP(addr) == Limit("", addr)

Tick == /\ now < MaxTime
        /\ now' = now + 1
        /\ UNCHANGED <<limiterVars, observerVars>>

\* The observer starts a new window.
Observe == /\ since' = now
           /\ granted' = [k \in Keys |-> 0]
           /\ UNCHANGED <<limiterVars, now, refused>>

Next == \/ \E a \in Addrs : ServeHTTP(a)
        \/ Tick
        \/ Observe

Spec == Init /\ [][Next]_vars

-----------------------------------------------------------------------------
\* In every window of time, whenever it starts and whatever happened before, a
\* bucket admits at most the burst and what is refilled within the window:
\* Limit's cap, its refill and its check before the unlock together.
WindowBound == \A k \in Keys : granted[k] <= Capacity + (now - since)

\* A refused request pays too, and the next must wait for that as well; but no
\* client is locked out: after the time of one token, and of one for each refusal
\* since the last admission, the next request is admitted, whatever came before.
\* (Retry-After promises it after the time of one token.)
PatienceRewarded ==
  \A k \in DOMAIN buckets :
    Burst > 0 /\ now - buckets[k].lastRefill >= Unit + refused[k]
      => TokensLeft(k) >= 0

=============================================================================
