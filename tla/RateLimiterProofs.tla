------------------------- MODULE RateLimiterProofs -------------------------
(***************************************************************************)
(* The two promises of RateLimiter, for every rate, burst, number of keys  *)
(* and length of the run: no window of time admits too much, and no client *)
(* is kept out for longer than its refused requests explain.               *)
(***************************************************************************)
EXTENDS RateLimiter, TLAPS

(***************************************************************************)
(* WindowBound is not inductive: it says nothing about the tokens left.    *)
(* The invariant adds that what was granted in the window and what is left *)
(* in the bucket never exceed the capacity and the refill up to the        *)
(* bucket's last request.  For PatienceRewarded it adds that a bucket's    *)
(* debt is covered by what refused requests have paid.                     *)
(***************************************************************************)
\* Bucket b of key k when its last request was in the window.
InWindow(k, b) == /\ granted[k] + b.tokens <= Capacity + (b.lastRefill - since)
                  /\ granted[k] <= Capacity + (b.lastRefill - since)

KeyInv(k) ==
  IF k \in DOMAIN buckets
    THEN /\ buckets[k].tokens <= Capacity
         /\ buckets[k].lastRefill <= now
         /\ buckets[k].tokens + refused[k] >= 0
         /\ IF buckets[k].lastRefill >= since
              THEN InWindow(k, buckets[k])
              ELSE granted[k] = 0
    ELSE granted[k] = 0

Inv == /\ TypeOK
       /\ since <= now
       /\ \A k \in Keys : KeyInv(k)

\* The burst is a number of units.
LEMMA CapacityNat == Capacity \in Nat /\ Unit \in Nat /\ Unit > 0
BY UnitAssumption, BurstAssumption DEF Capacity

\* A burst of one token or more has room for a token.
LEMMA RoomForOne == Burst > 0 => Capacity >= Unit
<1> SUFFICES ASSUME Burst > 0 PROVE Capacity >= Unit
  OBVIOUS
<1>1. Burst \in Nat /\ Unit \in Nat
  BY UnitAssumption, BurstAssumption
<1>2. Burst * Unit = (Burst - 1) * Unit + Unit /\ (Burst - 1) * Unit >= 0
  BY <1>1
<1>3. QED
  BY <1>1, <1>2 DEF Capacity

\* What a request of key k finds and leaves, given a bucket as KeyInv has it.
LEMMA Account ==
  ASSUME Inv, NEW k \in Keys
  PROVE  /\ TokensLeft(k) \in Int
         /\ TokensLeft(k) <= Capacity
         /\ granted[k] + TokensLeft(k) + Unit <= Capacity + (now - since)
         /\ granted[k] <= Capacity + (now - since)
         /\ TokensLeft(k) + refused[k] + Unit >= 0
<1> USE CapacityNat
<1>1. /\ now \in Nat /\ since \in Nat /\ since <= now
      /\ granted[k] \in Nat /\ refused[k] \in Nat
  BY DEF Inv, TypeOK
<1>2. CASE k \notin DOMAIN buckets
  <2>1. granted[k] = 0
    BY <1>2 DEF Inv, KeyInv
  <2>2. Refilled(BucketOf(k)) = Capacity
    BY <1>1, <1>2 DEF BucketOf, Refilled
  <2>3. QED
    BY <1>1, <2>1, <2>2 DEF TokensLeft
<1>3. CASE k \in DOMAIN buckets
  <2> DEFINE b == buckets[k]
  <2>1. b.tokens \in Int /\ b.lastRefill \in Nat
    BY <1>3 DEF Inv, TypeOK, Bucket
  <2>2. BucketOf(k) = b
    BY <1>3 DEF BucketOf
  <2>3. /\ b.lastRefill <= now /\ b.tokens + refused[k] >= 0
        /\ IF b.lastRefill >= since THEN InWindow(k, b) ELSE granted[k] = 0
    BY <1>3 DEF Inv, KeyInv
  <2>4. /\ Refilled(b) \in Int
        /\ Refilled(b) <= Capacity
        /\ Refilled(b) <= b.tokens + (now - b.lastRefill)
        /\ Refilled(b) >= b.tokens \/ Refilled(b) = Capacity
    BY <1>1, <2>1, <2>3 DEF Refilled
  <2>5. QED
    BY <1>1, <2>1, <2>2, <2>3, <2>4 DEF TokensLeft, InWindow
<1>4. QED
  BY <1>2, <1>3

\* A request keeps the invariant.
LEMMA LimitStep ==
  ASSUME Inv, NEW ctxUser, NEW addr \in Addrs, Limit(ctxUser, addr)
  PROVE  Inv'
<1> USE CapacityNat
<1> DEFINE k == KeyOf(ctxUser, addr)
           cost == IF TokensLeft(k) >= 0 THEN Unit ELSE 0
           debt == IF TokensLeft(k) >= 0 THEN 0 ELSE refused[k] + Unit
           nb == [tokens |-> TokensLeft(k), lastRefill |-> now]
<1>1. k \in Keys
  BY DEF KeyOf, Keys
<1>2. /\ TokensLeft(k) \in Int
      /\ TokensLeft(k) <= Capacity
      /\ granted[k] + TokensLeft(k) + Unit <= Capacity + (now - since)
      /\ granted[k] <= Capacity + (now - since)
      /\ TokensLeft(k) + refused[k] + Unit >= 0
  BY <1>1, Account
<1>3. /\ now \in Nat /\ since \in Nat /\ since <= now
      /\ granted \in [Keys -> Nat] /\ refused \in [Keys -> Nat]
      /\ requests \in Nat
  BY DEF Inv, TypeOK
<1>4. /\ buckets' = [x \in DOMAIN buckets \cup {k} |->
                       IF x = k THEN nb ELSE buckets[x]]
      /\ granted' = [granted EXCEPT ![k] = @ + cost]
      /\ refused' = [refused EXCEPT ![k] = debt]
      /\ requests' = requests + 1
      /\ UNCHANGED <<now, since>>
  BY DEF Limit, Consume
<1>5. cost \in Nat /\ debt \in Nat /\ TokensLeft(k) + debt >= 0
  BY <1>1, <1>2, <1>3
<1>6. TypeOK'
  <2>1. granted' \in [Keys -> Nat] /\ refused' \in [Keys -> Nat]
    BY <1>1, <1>3, <1>4, <1>5
  <2>2. nb \in Bucket
    BY <1>2, <1>3 DEF Bucket
  <2>3. /\ DOMAIN buckets' = DOMAIN buckets \cup {k}
        /\ \A x \in DOMAIN buckets' : buckets'[x] \in Bucket
    BY <1>4, <2>2 DEF Inv, TypeOK
  <2>4. buckets' \in [DOMAIN buckets' -> Bucket]
    BY <1>4, <2>3
  <2>5. QED
    BY <1>1, <1>3, <1>4, <2>1, <2>3, <2>4 DEF Inv, TypeOK
<1>7. ASSUME NEW x \in Keys PROVE KeyInv(x)'
  <2>1. CASE x = k
    <3>1. /\ x \in DOMAIN buckets' /\ buckets'[x] = nb
          /\ granted'[x] = granted[k] + cost /\ refused'[x] = debt
      BY <1>1, <1>3, <1>4, <2>1
    <3>2. granted[k] \in Nat
      BY <1>1, <1>3
    <3>3. /\ granted'[x] + TokensLeft(k) <= Capacity + (now - since)
          /\ granted'[x] <= Capacity + (now - since)
      BY <1>2, <1>3, <3>1, <3>2
    <3>4. QED
      BY <1>2, <1>3, <1>4, <1>5, <3>1, <3>3 DEF KeyInv, InWindow
  <2>2. CASE x # k
    <3>1. /\ (x \in DOMAIN buckets') <=> (x \in DOMAIN buckets)
          /\ x \in DOMAIN buckets => buckets'[x] = buckets[x]
          /\ granted'[x] = granted[x] /\ refused'[x] = refused[x]
      BY <1>1, <1>3, <1>4, <2>2
    <3>2. KeyInv(x)
      BY DEF Inv
    <3>3. QED
      BY <1>4, <3>1, <3>2 DEF KeyInv, InWindow
  <2>3. QED
    BY <2>1, <2>2
<1>8. QED
  BY <1>3, <1>4, <1>6, <1>7 DEF Inv

\* Every step keeps the invariant.
LEMMA Invariance == Spec => []Inv
<1> USE CapacityNat
<1>1. Init => Inv
  BY DEF Init, Inv, TypeOK, KeyInv
<1>2. Inv /\ [Next]_vars => Inv'
  <2> SUFFICES ASSUME Inv, [Next]_vars PROVE Inv'
    OBVIOUS
  <2>1. CASE UNCHANGED vars
    BY <2>1 DEF vars, limiterVars, observerVars, Inv, TypeOK, KeyInv, InWindow
  <2>2. ASSUME NEW a \in Addrs, ServeHTTP(a) PROVE Inv'
    BY <2>2, LimitStep DEF ServeHTTP
  <2>3. CASE Tick
    <3>1. /\ UNCHANGED <<buckets, requests, since, granted, refused>>
          /\ now' = now + 1 /\ now \in Nat
      BY <2>3 DEF Tick, limiterVars, observerVars, Inv, TypeOK
    <3>2. TypeOK' /\ (since <= now)'
      BY <3>1 DEF Inv, TypeOK
    <3>3. ASSUME NEW k \in Keys PROVE KeyInv(k)'
      <4>1. k \in DOMAIN buckets => buckets[k].lastRefill \in Nat
        BY DEF Inv, TypeOK, Bucket
      <4>2. QED
        BY <3>1, <4>1 DEF Inv, KeyInv, InWindow
    <3>4. QED
      BY <3>2, <3>3 DEF Inv
  <2>4. CASE Observe
    <3>1. /\ UNCHANGED <<buckets, requests, now, refused>> /\ since' = now
          /\ now \in Nat /\ granted' = [k \in Keys |-> 0]
      BY <2>4 DEF Observe, limiterVars, Inv, TypeOK
    <3>2. TypeOK' /\ (since <= now)'
      BY <3>1 DEF Inv, TypeOK
    <3>3. ASSUME NEW k \in Keys PROVE KeyInv(k)'
      <4>1. k \in DOMAIN buckets =>
              buckets[k].lastRefill \in Nat /\ buckets[k].tokens \in Int
        BY DEF Inv, TypeOK, Bucket
      <4>2. granted'[k] = 0
        BY <3>1
      <4>3. QED
        BY <3>1, <4>1, <4>2 DEF Inv, KeyInv, InWindow
    <3>4. QED
      BY <3>2, <3>3 DEF Inv
  <2>5. QED
    BY <2>1, <2>2, <2>3, <2>4 DEF Next
<1>3. QED
  BY <1>1, <1>2, PTL DEF Spec

\* The limiter's state is well typed: the buckets are those of remote addresses
\* and users, whatever requests come.
THEOREM TypeCorrect == Spec => []TypeOK
<1>1. Inv => TypeOK
  BY DEF Inv
<1>2. QED
  BY <1>1, Invariance, PTL

\* In every window of time a bucket admits at most the burst and the refill of
\* the window.
THEOREM WindowIsBounded == Spec => []WindowBound
<1>1. Inv => WindowBound
  BY Account DEF WindowBound
<1>2. QED
  BY <1>1, Invariance, PTL

\* A client that has waited for one token, and for one for each refusal since it
\* was last admitted, is admitted.
THEOREM PatienceIsRewarded == Spec => []PatienceRewarded
<1>1. Inv => PatienceRewarded
  <2> SUFFICES ASSUME Inv, NEW k \in DOMAIN buckets, Burst > 0,
                      now - buckets[k].lastRefill >= Unit + refused[k]
               PROVE  TokensLeft(k) >= 0
    BY DEF PatienceRewarded
  <2> USE CapacityNat
  <2>1. k \in Keys /\ now \in Nat /\ refused[k] \in Nat
    BY DEF Inv, TypeOK
  <2>2. buckets[k].tokens \in Int /\ buckets[k].lastRefill \in Nat
    BY DEF Inv, TypeOK, Bucket
  <2>3. buckets[k].tokens + refused[k] >= 0
    BY <2>1 DEF Inv, KeyInv
  <2>4. Refilled(buckets[k]) >= Unit
    BY <2>1, <2>2, <2>3, RoomForOne DEF Refilled
  <2>5. BucketOf(k) = buckets[k] /\ Refilled(buckets[k]) \in Int
    BY <2>1, <2>2 DEF BucketOf, Refilled
  <2>6. QED
    BY <2>4, <2>5 DEF TokensLeft
<1>2. QED
  BY <1>1, Invariance, PTL

=============================================================================
