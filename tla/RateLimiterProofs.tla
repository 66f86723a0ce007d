------------------------- MODULE RateLimiterProofs --------------------------
(***************************************************************************)
(* Proofs about RateLimiter, for every set of peers, configuration and     *)
(* bound.  The window bounds are not inductive: what is, is that the       *)
(* requests granted in the window AND the tokens left in the bucket are    *)
(* within what the bucket got since the window was opened; and that a peer *)
(* without a bucket has credit for a full one.                             *)
(***************************************************************************)
EXTENDS RateLimiter, Integers, TLAPS

PeerCredit(p) ==
    \/ granted[p] = 0
    \/ /\ peerBuckets[p] = NoBucket
       /\ granted[p] + Burst <= Burst * (1 + resets[p]) + Rate * (now - winStart)
    \/ /\ peerBuckets[p] # NoBucket
       /\ peerBuckets[p].lastRefill >= winStart
       /\ granted[p] + peerBuckets[p].tokens
             <= Burst * (1 + resets[p]) + Rate * (peerBuckets[p].lastRefill - winStart)

GlobalCredit ==
    \/ total = 0
    \/ /\ globalBucket.lastRefill >= winStart
       /\ total + globalBucket.tokens
             <= GlobalFactor * Burst + (GlobalFactor * Rate) * (globalBucket.lastRefill - winStart)

Inv == /\ TypeOK
       /\ \A p \in Peers : PeerCredit(p)
       /\ GlobalCredit
       /\ NoSlotLeak
-----------------------------------------------------------------------------
LEMMA MulNat == \A a, b \in Nat : a * b \in Nat
  OBVIOUS

LEMMA MulMono ==
    ASSUME NEW a \in Nat, NEW b \in Nat, NEW c \in Nat, b <= c
    PROVE  a * b <= a * c
  <1>1. a * (c - b) \in Nat
    BY MulNat
  <1> QED
    BY <1>1

LEMMA MulAdd == \A a, b, c \in Int : a * (b + c) = a * b + a * c
  OBVIOUS

LEMMA MulSucc == \A a, b \in Nat : a * (1 + b) = a + a * b
  OBVIOUS

(* A refilled bucket is within its capacity, and has got no more than the  *)
(* rate since it was last refilled.                                        *)
LEMMA RefillType ==
    ASSUME NEW max \in Nat, NEW rate \in Nat, now \in Nat,
           NEW b \in [tokens: 0..max, lastRefill: 0..now]
    PROVE  /\ Refill(b, max, rate) \in [tokens: 0..max, lastRefill: 0..now]
           /\ Refill(b, max, rate).lastRefill = now
           /\ Refill(b, max, rate).tokens <= b.tokens + rate * (now - b.lastRefill)
  <1>1. now - b.lastRefill \in Nat /\ b.tokens \in Nat /\ b.tokens <= max
    OBVIOUS
  <1>2. (now - b.lastRefill) * rate \in Nat
    BY <1>1, MulNat
  <1>3. (now - b.lastRefill) * rate = rate * (now - b.lastRefill)
    BY <1>1
  <1> QED
    BY <1>1, <1>2, <1>3 DEF Refill

LEMMA TakeType ==
    ASSUME NEW max \in Nat, NEW t \in Nat, NEW n \in Nat,
           NEW b \in [tokens: 0..max, lastRefill: 0..t]
    PROVE  /\ Take(b, n) \in [tokens: 0..max, lastRefill: 0..t]
           /\ Take(b, n).lastRefill = b.lastRefill
           /\ Take(b, n).tokens = IF b.tokens >= n THEN b.tokens - n ELSE b.tokens
  BY DEF Take

(* The bucket that an operation works on. *)
LEMMA RequestBucketType ==
    ASSUME TypeOK, NEW p \in Peers
    PROVE  /\ RequestBucket(p) \in [tokens: 0..Burst, lastRefill: 0..now]
           /\ RequestBucket(p).lastRefill = now
           /\ peerBuckets[p] # NoBucket =>
                /\ peerBuckets[p] \in [tokens: 0..Burst, lastRefill: 0..now]
                /\ RequestBucket(p).tokens
                     <= peerBuckets[p].tokens + Rate * (now - peerBuckets[p].lastRefill)
  <1>1. now \in Nat /\ Burst \in Nat /\ Rate \in Nat
    BY LimiterAssumption DEF TypeOK
  <1>2. CASE peerBuckets[p] = NoBucket
    BY <1>1, <1>2 DEF RequestBucket, NewTokenBucket
  <1>3. CASE peerBuckets[p] # NoBucket
    <2>1. peerBuckets[p] \in [tokens: 0..Burst, lastRefill: 0..now]
      BY <1>3 DEF TypeOK
    <2>2. RequestBucket(p) = Refill(peerBuckets[p], Burst, Rate)
      BY <1>3 DEF RequestBucket
    <2> QED
      BY <1>1, <1>3, <2>1, <2>2, RefillType
  <1> QED
    BY <1>2, <1>3

LEMMA ByteBucketType ==
    ASSUME TypeOK, NEW p \in Peers
    PROVE  ByteBucket(p) \in [tokens: 0..ByteRate, lastRefill: 0..now]
  <1>1. now \in Nat /\ ByteRate \in Nat
    BY LimiterAssumption DEF TypeOK
  <1>2. CASE byteBuckets[p] = NoBucket
    BY <1>1, <1>2 DEF ByteBucket, NewTokenBucket
  <1>3. CASE byteBuckets[p] # NoBucket
    <2>1. byteBuckets[p] \in [tokens: 0..ByteRate, lastRefill: 0..now]
      BY <1>3 DEF TypeOK
    <2> QED
      BY <1>1, <1>3, <2>1, RefillType DEF ByteBucket
  <1> QED
    BY <1>2, <1>3

LEMMA GlobalBucketType ==
    ASSUME TypeOK
    PROVE  /\ GlobalBucket \in [tokens: 0..(GlobalFactor * Burst), lastRefill: 0..now]
           /\ GlobalBucket.lastRefill = now
           /\ GlobalBucket.tokens
                <= globalBucket.tokens + (GlobalFactor * Rate) * (now - globalBucket.lastRefill)
  <1>1. now \in Nat /\ GlobalFactor * Burst \in Nat /\ GlobalFactor * Rate \in Nat
    BY LimiterAssumption, MulNat DEF TypeOK
  <1>2. globalBucket \in [tokens: 0..(GlobalFactor * Burst), lastRefill: 0..now]
    BY DEF TypeOK
  <1> DEFINE gb == GlobalFactor * Burst
             gr == GlobalFactor * Rate
  <1>3. gb \in Nat /\ gr \in Nat /\ globalBucket \in [tokens: 0..gb, lastRefill: 0..now]
    BY <1>1, <1>2
  <1>4. GlobalBucket = Refill(globalBucket, gb, gr)
    BY DEF GlobalBucket
  <1> HIDE DEF gb, gr
  <1>5. /\ GlobalBucket \in [tokens: 0..gb, lastRefill: 0..now]
        /\ GlobalBucket.lastRefill = now
        /\ GlobalBucket.tokens <= globalBucket.tokens + gr * (now - globalBucket.lastRefill)
    BY <1>1, <1>3, <1>4, RefillType
  <1> QED
    BY <1>5 DEF gb, gr
-----------------------------------------------------------------------------
(* The numbers that all steps reason about. *)
LEMMA Numbers ==
    ASSUME TypeOK
    PROVE  /\ Burst \in Nat /\ Rate \in Nat /\ now \in Nat /\ winStart \in Nat
           /\ now - winStart \in Nat /\ Rate * (now - winStart) \in Nat
           /\ \A p \in Peers : granted[p] \in Nat /\ resets[p] \in Nat
                              /\ Burst * resets[p] \in Nat
                              /\ Burst * (1 + resets[p]) = Burst + Burst * resets[p]
  <1>1. /\ Burst \in Nat /\ Rate \in Nat /\ now \in Nat /\ winStart \in Nat
        /\ now - winStart \in Nat
        /\ \A p \in Peers : granted[p] \in Nat /\ resets[p] \in Nat
    BY LimiterAssumption DEF TypeOK
  <1>2. Rate * (now - winStart) \in Nat
    BY <1>1, MulNat
  <1>3. \A p \in Peers : Burst * resets[p] \in Nat
    BY <1>1, MulNat
  <1>4. \A p \in Peers : Burst * (1 + resets[p]) = Burst + Burst * resets[p]
    BY <1>1, MulSucc
  <1> QED
    BY <1>1, <1>2, <1>3, <1>4

(* The credit of a peer, at the moment its bucket has been refilled. *)
LEMMA PeerCreditNow ==
    ASSUME TypeOK, NEW p \in Peers, PeerCredit(p)
    PROVE  granted[p] + RequestBucket(p).tokens
              <= Burst * (1 + resets[p]) + Rate * (now - winStart)
  <1> DEFINE t == RequestBucket(p).tokens
             B == Burst * (1 + resets[p])
             w == Rate * (now - winStart)
  <1>1. t \in Nat /\ t <= Burst
    BY RequestBucketType, Numbers
  <1>2. /\ granted[p] \in Nat /\ Burst \in Nat /\ w \in Nat
        /\ B = Burst + Burst * resets[p] /\ Burst * resets[p] \in Nat
    BY Numbers
  <1>3. CASE granted[p] = 0
    BY <1>1, <1>2, <1>3
  <1>4. CASE granted[p] + Burst <= B + w
    <2> HIDE DEF B, w, t
    <2>1. B \in Nat
      BY <1>2
    <2>2. granted[p] + t <= B + w
      BY <1>1, <1>2, <1>4, <2>1
    <2> QED
      BY <2>2 DEF B, w, t
  <1>5. CASE /\ peerBuckets[p] # NoBucket
             /\ peerBuckets[p].lastRefill >= winStart
             /\ granted[p] + peerBuckets[p].tokens <= B + Rate * (peerBuckets[p].lastRefill - winStart)
    <2> DEFINE l == peerBuckets[p].lastRefill
               k == peerBuckets[p].tokens
    <2>1. /\ t <= k + Rate * (now - l)
          /\ l \in Nat /\ k \in Nat /\ l <= now
      BY <1>5, RequestBucketType, Numbers
    <2>2. Rate * (l - winStart) \in Nat /\ Rate * (now - l) \in Nat
      BY <1>5, <2>1, Numbers, MulNat
    <2>3. w = Rate * (l - winStart) + Rate * (now - l)
      <3>1. /\ l - winStart \in Int /\ now - l \in Int /\ Rate \in Int
            /\ now - winStart = (l - winStart) + (now - l)
        BY <2>1, Numbers
      <3> QED
        BY <3>1, MulAdd
    <2>4. granted[p] + k <= B + Rate * (l - winStart)
      BY <1>5
    <2> HIDE DEF B, w, t, k, l
    <2>5. B \in Nat
      BY <1>2
    <2>6. granted[p] + t <= B + w
      BY <1>1, <1>2, <2>1, <2>2, <2>3, <2>4, <2>5
    <2> QED
      BY <2>6 DEF B, w, t
  <1> QED
    BY <1>3, <1>4, <1>5 DEF PeerCredit

LEMMA GlobalCreditNow ==
    ASSUME TypeOK, GlobalCredit
    PROVE  total + GlobalBucket.tokens
              <= GlobalFactor * Burst + (GlobalFactor * Rate) * (now - winStart)
  <1> DEFINE t == GlobalBucket.tokens
             B == GlobalFactor * Burst
             R == GlobalFactor * Rate
             l == globalBucket.lastRefill
             k == globalBucket.tokens
  <1>1. /\ t \in Nat /\ t <= B /\ B \in Nat /\ R \in Nat /\ total \in Nat
        /\ l \in Nat /\ k \in Nat /\ l <= now /\ now \in Nat /\ winStart \in Nat
        /\ winStart <= now
    BY GlobalBucketType, LimiterAssumption, MulNat DEF TypeOK
  <1>2. t <= k + R * (now - l)
    BY GlobalBucketType
  <1>3. GlobalCredit = \/ total = 0
                       \/ l >= winStart /\ total + k <= B + R * (l - winStart)
    BY DEF GlobalCredit
  <1> HIDE DEF t, B, R, l, k
  <1>4. R * (now - winStart) \in Nat
    BY <1>1, MulNat
  <1>5. CASE total = 0
    BY <1>1, <1>4, <1>5 DEF t, B, R
  <1>6. CASE l >= winStart /\ total + k <= B + R * (l - winStart)
    <2>1. R * (l - winStart) \in Nat /\ R * (now - l) \in Nat
      BY <1>1, <1>6, MulNat
    <2>2. /\ l - winStart \in Int /\ now - l \in Int /\ R \in Int
          /\ now - winStart = (l - winStart) + (now - l)
      BY <1>1
    <2>3. R * (now - winStart) = R * (l - winStart) + R * (now - l)
      BY <2>2, MulAdd
    <2>4. total + t <= B + R * (now - winStart)
      BY <1>1, <1>2, <1>6, <2>1, <2>3
    <2> QED
      BY <2>4 DEF t, B, R
  <1> QED
    BY <1>3, <1>5, <1>6

(* The credit bounds what was granted. *)
LEMMA CreditBound ==
    ASSUME Inv
    PROVE  RequestWindowBound /\ GlobalWindowBound
  <1>1. ASSUME NEW p \in Peers
        PROVE  granted[p] <= Burst * (1 + resets[p]) + Rate * (now - winStart)
    <2>1. RequestBucket(p).tokens \in Nat
      BY RequestBucketType, Numbers DEF Inv
    <2>2. granted[p] \in Nat /\ Burst * (1 + resets[p]) \in Nat /\ Rate * (now - winStart) \in Nat
      BY Numbers DEF Inv
    <2>3. granted[p] + RequestBucket(p).tokens
              <= Burst * (1 + resets[p]) + Rate * (now - winStart)
      BY PeerCreditNow DEF Inv
    <2> QED
      BY <2>1, <2>2, <2>3
  <1>2. GlobalWindowBound
    <2>1. /\ GlobalBucket.tokens \in Nat /\ total \in Nat
          /\ GlobalFactor * Burst \in Nat
      BY GlobalBucketType, LimiterAssumption, MulNat DEF Inv, TypeOK
    <2>2. (GlobalFactor * Rate) * (now - winStart) \in Nat
      BY LimiterAssumption, MulNat DEF Inv, TypeOK
    <2>3. total + GlobalBucket.tokens
              <= GlobalFactor * Burst + (GlobalFactor * Rate) * (now - winStart)
      BY GlobalCreditNow DEF Inv
    <2> QED
      BY <2>1, <2>2, <2>3 DEF GlobalWindowBound
  <1> QED
    BY <1>1, <1>2 DEF RequestWindowBound
-----------------------------------------------------------------------------
LEMMA InvInit == Init => Inv
  <1> SUFFICES ASSUME Init PROVE Inv
    OBVIOUS
  <1>1. GlobalFactor * Burst \in Nat
    BY LimiterAssumption, MulNat
  <1>2. TypeOK
    BY <1>1, LimiterAssumption DEF Init, TypeOK
  <1>3. (\A p \in Peers : PeerCredit(p)) /\ GlobalCredit
    BY DEF Init, PeerCredit, GlobalCredit
  <1>4. connections = [p \in Peers |-> 0] /\ open = [p \in Peers |-> 0]
    BY DEF Init
  <1>5. ASSUME NEW p \in Peers PROVE connections[p] <= open[p]
    <2>1. connections[p] = 0 /\ open[p] = 0
      BY <1>4
    <2> QED
      BY ONLY <2>1
  <1>6. NoSlotLeak
    BY <1>5 DEF NoSlotLeak
  <1> QED
    BY <1>2, <1>3, <1>6 DEF Inv

(* What a step that leaves a peer's bucket, grants and resets alone, in a  *)
(* window that only grows, leaves of its credit.                           *)
LEMMA PeerCreditKept ==
    ASSUME TypeOK, NEW p \in Peers, PeerCredit(p),
           now' \in Nat, now <= now', winStart' = winStart,
           granted'[p] = granted[p], peerBuckets'[p] = peerBuckets[p],
           resets'[p] = resets[p]
    PROVE  PeerCredit(p)'
  <1>1. /\ now - winStart \in Nat /\ now' - winStart \in Nat
        /\ now - winStart <= now' - winStart
    BY Numbers
  <1>2. Rate * (now - winStart) <= Rate * (now' - winStart)
    BY <1>1, MulMono, Numbers
  <1>3. /\ Rate * (now - winStart) \in Nat /\ Rate * (now' - winStart) \in Nat
        /\ Burst * (1 + resets[p]) \in Nat /\ granted[p] \in Nat /\ Burst \in Nat
    BY <1>1, Numbers, MulNat
  <1>4. CASE granted[p] = 0
    BY <1>4 DEF PeerCredit
  <1>5. CASE /\ peerBuckets[p] = NoBucket
             /\ granted[p] + Burst <= Burst * (1 + resets[p]) + Rate * (now - winStart)
    <2>1. granted[p] + Burst <= Burst * (1 + resets[p]) + Rate * (now' - winStart)
      BY <1>2, <1>3, <1>5
    <2> QED
      BY <1>5, <2>1 DEF PeerCredit
  <1>6. CASE /\ peerBuckets[p] # NoBucket
             /\ peerBuckets[p].lastRefill >= winStart
             /\ granted[p] + peerBuckets[p].tokens
                  <= Burst * (1 + resets[p]) + Rate * (peerBuckets[p].lastRefill - winStart)
    BY <1>6 DEF PeerCredit
  <1> QED
    BY <1>4, <1>5, <1>6 DEF PeerCredit

(* A peer's bucket was refilled and g requests of it granted. *)
LEMMA PeerCreditRefilled ==
    ASSUME TypeOK, NEW p \in Peers, PeerCredit(p), NEW g \in Nat,
           now' = now, winStart' = winStart, resets'[p] = resets[p],
           granted'[p] = granted[p] + g,
           peerBuckets'[p] # NoBucket,
           peerBuckets'[p].lastRefill = now,
           peerBuckets'[p].tokens \in Nat,
           peerBuckets'[p].tokens + g = RequestBucket(p).tokens
    PROVE  PeerCredit(p)'
  <1>1. granted[p] + RequestBucket(p).tokens
           <= Burst * (1 + resets[p]) + Rate * (now - winStart)
    BY PeerCreditNow
  <1>2. granted'[p] + peerBuckets'[p].tokens = granted[p] + RequestBucket(p).tokens
    BY Numbers
  <1>3. now >= winStart
    BY DEF TypeOK
  <1>4. /\ peerBuckets'[p].lastRefill >= winStart'
        /\ granted'[p] + peerBuckets'[p].tokens
             <= Burst * (1 + resets'[p]) + Rate * (peerBuckets'[p].lastRefill - winStart')
    BY <1>1, <1>2, <1>3
  <1> QED
    BY <1>4 DEF PeerCredit

LEMMA GlobalCreditKept ==
    ASSUME GlobalCredit, total' = total, globalBucket' = globalBucket, winStart' = winStart
    PROVE  GlobalCredit'
  BY DEF GlobalCredit
-----------------------------------------------------------------------------
(* Every action preserves the invariant. *)
LEMMA AllowRequestInv ==
    ASSUME Inv, NEW p \in Peers, AllowRequest(p)
    PROVE  Inv'
  <1> DEFINE g == GlobalBucket
             b == RequestBucket(p)
             B == GlobalFactor * Burst
             R == GlobalFactor * Rate
  <1>0. TypeOK
    BY DEF Inv
  <1>1. /\ g \in [tokens: 0..B, lastRefill: 0..now] /\ g.lastRefill = now
        /\ B \in Nat /\ R \in Nat /\ total \in Nat
        /\ total + g.tokens <= B + R * (now - winStart)
    BY <1>0, GlobalBucketType, GlobalCreditNow, LimiterAssumption, MulNat DEF Inv, TypeOK
  <1>2. b \in [tokens: 0..Burst, lastRefill: 0..now] /\ b.lastRefill = now
    BY <1>0, RequestBucketType
  <1>3. /\ now \in Nat /\ winStart \in Nat /\ winStart <= now /\ Burst \in Nat
        /\ R * (now - winStart) \in Nat
    BY <1>0, <1>1, LimiterAssumption, MulNat DEF TypeOK
  <1> HIDE DEF g, b, B, R
  <1>4. /\ globalBucket' = Take(g, 1)
        /\ \/ g.tokens < 1 /\ UNCHANGED <<peerBuckets, granted, total>>
           \/ /\ g.tokens >= 1
              /\ peerBuckets' = [peerBuckets EXCEPT ![p] = Take(b, 1)]
              /\ IF b.tokens >= 1
                 THEN granted' = [granted EXCEPT ![p] = @ + 1] /\ total' = total + 1
                 ELSE UNCHANGED <<granted, total>>
        /\ UNCHANGED <<byteBuckets, connections, now, winStart, bytes, resets, forgotten,
                       open>>
    BY DEF AllowRequest, g, b
  <1>5. /\ Take(g, 1) \in [tokens: 0..B, lastRefill: 0..now]
        /\ Take(g, 1).lastRefill = now
        /\ Take(g, 1).tokens = IF g.tokens >= 1 THEN g.tokens - 1 ELSE g.tokens
    BY <1>1, <1>3, TakeType
  <1>6. /\ Take(b, 1) \in [tokens: 0..Burst, lastRefill: 0..now]
        /\ Take(b, 1).lastRefill = now
        /\ Take(b, 1).tokens = IF b.tokens >= 1 THEN b.tokens - 1 ELSE b.tokens
    BY <1>2, <1>3, TakeType
  <1>7. TypeOK'
    <2>1. globalBucket' \in [tokens: 0..(GlobalFactor * Burst), lastRefill: 0..now]
      BY <1>4, <1>5 DEF B
    <2>2. peerBuckets' \in [Peers -> [tokens: 0..Burst, lastRefill: 0..now] \cup {NoBucket}]
      <3>1. peerBuckets \in [Peers -> [tokens: 0..Burst, lastRefill: 0..now] \cup {NoBucket}]
        BY <1>0 DEF TypeOK
      <3> QED
        BY <1>4, <1>6, <3>1
    <2>3. granted' \in [Peers -> Nat] /\ total' \in Nat
      <3>1. granted \in [Peers -> Nat]
        BY <1>0 DEF TypeOK
      <3> QED
        BY <1>1, <1>4, <3>1
    <2> QED
      BY <1>0, <1>4, <2>1, <2>2, <2>3 DEF TypeOK
  <1>8. GlobalCredit'
    <2>1. total' + globalBucket'.tokens <= B + R * (now - winStart)
      BY <1>1, <1>3, <1>4, <1>5
    <2> QED
      BY <1>3, <1>4, <1>5, <2>1 DEF GlobalCredit, B, R
  <1>9. ASSUME NEW q \in Peers PROVE PeerCredit(q)'
    <2>1. PeerCredit(q)
      BY DEF Inv
    <2>2. peerBuckets \in [Peers -> [tokens: 0..Burst, lastRefill: 0..now] \cup {NoBucket}]
          /\ granted \in [Peers -> Nat]
      BY <1>0 DEF TypeOK
    <2>3. CASE q # p \/ g.tokens < 1
      <3>1. granted'[q] = granted[q] /\ peerBuckets'[q] = peerBuckets[q]
            /\ resets'[q] = resets[q] /\ now' = now /\ winStart' = winStart
        BY <1>1, <1>4, <2>2, <2>3
      <3>2. now' \in Nat /\ now <= now'
        BY <1>3, <3>1
      <3> QED
        BY ONLY <1>0, <2>1, <3>1, <3>2, PeerCreditKept, q \in Peers
    <2>4. CASE q = p /\ g.tokens >= 1
      <3>1. peerBuckets'[q] = Take(b, 1) /\ resets'[q] = resets[q] /\ now' = now
            /\ winStart' = winStart
        BY <1>1, <1>4, <2>2, <2>4
      <3>2. Take(b, 1) # NoBucket
        BY <1>3, <1>6, LimiterAssumption
      <3>3. b.tokens \in Nat
        BY <1>2, <1>3
      <3>4. CASE b.tokens >= 1
        <4>1. granted'[q] = granted[q] + 1
          BY <1>1, <1>4, <2>2, <2>4, <3>4
        <4>2. Take(b, 1).tokens \in Nat /\ Take(b, 1).tokens + 1 = RequestBucket(q).tokens
          BY <1>6, <2>4, <3>3, <3>4 DEF b
        <4>3. 1 \in Nat
          OBVIOUS
        <4> QED
          BY ONLY <1>0, <1>6, <2>1, <3>1, <3>2, <4>1, <4>2, <4>3, PeerCreditRefilled, q \in Peers
      <3>5. CASE ~(b.tokens >= 1)
        <4>1. granted'[q] = granted[q] + 0
          BY <1>1, <1>4, <2>2, <2>4, <3>5
        <4>2. Take(b, 1).tokens \in Nat /\ Take(b, 1).tokens + 0 = RequestBucket(q).tokens
          BY <1>6, <2>4, <3>3, <3>5 DEF b
        <4>3. 0 \in Nat
          OBVIOUS
        <4> QED
          BY ONLY <1>0, <1>6, <2>1, <3>1, <3>2, <4>1, <4>2, <4>3, PeerCreditRefilled, q \in Peers
      <3> QED
        BY <3>4, <3>5
    <2> QED
      BY <1>1, <1>3, <2>3, <2>4
  <1>10. NoSlotLeak'
    BY <1>4 DEF Inv, NoSlotLeak
  <1> QED
    BY <1>7, <1>8, <1>9, <1>10 DEF Inv

(* A step that leaves the request buckets and the history alone. *)
LEMMA CreditsKept ==
    ASSUME Inv, UNCHANGED <<peerBuckets, globalBucket, now, winStart, granted, total, resets>>
    PROVE  (\A p \in Peers : PeerCredit(p)') /\ GlobalCredit'
  BY DEF Inv, PeerCredit, GlobalCredit

LEMMA AllowBytesInv ==
    ASSUME Inv, NEW p \in Peers, NEW n \in ByteSizes, AllowBytes(p, n)
    PROVE  Inv'
  <1>1. TypeOK /\ n \in Nat /\ ByteRate \in Nat /\ now \in Nat
    BY LimiterAssumption DEF Inv, TypeOK
  <1>2. ByteBucket(p) \in [tokens: 0..ByteRate, lastRefill: 0..now]
    BY <1>1, ByteBucketType
  <1>3. Take(ByteBucket(p), n) \in [tokens: 0..ByteRate, lastRefill: 0..now]
    BY <1>1, <1>2, TakeType
  <1>4. TypeOK'
    BY <1>1, <1>3 DEF AllowBytes, TypeOK
  <1>5. (\A q \in Peers : PeerCredit(q)') /\ GlobalCredit'
    BY CreditsKept DEF AllowBytes
  <1>6. NoSlotLeak'
    BY DEF AllowBytes, Inv, NoSlotLeak
  <1> QED
    BY <1>4, <1>5, <1>6 DEF Inv

LEMMA ConnectionInv ==
    ASSUME Inv, NEW p \in Peers, AllowConnection(p) \/ ReleaseConnection(p)
    PROVE  Inv'
  <1>1. /\ TypeOK /\ MaxConns \in Nat
        /\ connections \in [Peers -> 0..MaxConns] /\ open \in [Peers -> Nat]
    BY LimiterAssumption DEF Inv, TypeOK
  <1>2. UNCHANGED <<buckets, now, history>>
    BY DEF AllowConnection, ReleaseConnection
  <1>3. connections' \in [Peers -> 0..MaxConns] /\ open' \in [Peers -> Nat]
    BY <1>1 DEF AllowConnection, ReleaseConnection
  <1>4. TypeOK'
    BY <1>1, <1>2, <1>3 DEF TypeOK, buckets, history
  <1>5. (\A q \in Peers : PeerCredit(q)') /\ GlobalCredit'
    BY <1>2, CreditsKept DEF buckets, history
  <1>6. NoSlotLeak'
    BY <1>1 DEF AllowConnection, ReleaseConnection, Inv, NoSlotLeak
  <1> QED
    BY <1>4, <1>5, <1>6 DEF Inv

(* WaitForRequest and GetPeerStats refill what is there. *)
LEMMA ReportInv ==
    ASSUME Inv, NEW p \in Peers, WaitForRequest(p) \/ GetPeerStats(p)
    PROVE  Inv'
  <1>0. /\ TypeOK /\ now \in Nat
        /\ peerBuckets \in [Peers -> [tokens: 0..Burst, lastRefill: 0..now] \cup {NoBucket}]
        /\ byteBuckets \in [Peers -> [tokens: 0..ByteRate, lastRefill: 0..now] \cup {NoBucket}]
    BY DEF Inv, TypeOK
  <1>1. UNCHANGED <<globalBucket, connections, now, history, open>>
    BY DEF WaitForRequest, GetPeerStats
  <1>2. peerBuckets' = [peerBuckets EXCEPT ![p] = IF @ = NoBucket THEN @ ELSE RequestBucket(p)]
    BY <1>0 DEF WaitForRequest, GetPeerStats
  <1>3. \/ byteBuckets' = byteBuckets
        \/ byteBuckets' = [byteBuckets EXCEPT ![p] = IF @ = NoBucket THEN @ ELSE ByteBucket(p)]
    BY DEF WaitForRequest, GetPeerStats
  <1>4. /\ RequestBucket(p) \in [tokens: 0..Burst, lastRefill: 0..now]
        /\ RequestBucket(p).lastRefill = now
        /\ ByteBucket(p) \in [tokens: 0..ByteRate, lastRefill: 0..now]
    BY <1>0, RequestBucketType, ByteBucketType
  <1>5. TypeOK'
    <2>1. peerBuckets' \in [Peers -> [tokens: 0..Burst, lastRefill: 0..now] \cup {NoBucket}]
      BY <1>0, <1>2, <1>4
    <2>2. byteBuckets' \in [Peers -> [tokens: 0..ByteRate, lastRefill: 0..now] \cup {NoBucket}]
      BY <1>0, <1>3, <1>4
    <2> QED
      BY <1>0, <1>1, <2>1, <2>2 DEF TypeOK, history
  <1>6. ASSUME NEW q \in Peers PROVE PeerCredit(q)'
    <2>1. PeerCredit(q)
      BY DEF Inv
    <2>2. /\ resets'[q] = resets[q] /\ now' = now /\ winStart' = winStart
          /\ granted'[q] = granted[q] /\ granted[q] \in Nat
      BY <1>0, <1>1, Numbers DEF history
    <2>3. CASE q # p \/ peerBuckets[q] = NoBucket
      <3>1. peerBuckets'[q] = peerBuckets[q]
        BY <1>0, <1>2, <2>3
      <3>2. now' \in Nat /\ now <= now'
        BY <1>0, <2>2
      <3> QED
        BY ONLY <1>0, <2>1, <2>2, <3>1, <3>2, PeerCreditKept, q \in Peers
    <2>4. CASE q = p /\ peerBuckets[q] # NoBucket
      <3>1. peerBuckets'[q] = RequestBucket(q)
        BY <1>0, <1>2, <2>4
      <3>2. RequestBucket(q) # NoBucket
        BY <1>0, <1>4, <2>4, LimiterAssumption
      <3>3. /\ 0 \in Nat /\ granted'[q] = granted[q] + 0
            /\ RequestBucket(q).lastRefill = now /\ RequestBucket(q).tokens \in Nat
            /\ RequestBucket(q).tokens + 0 = RequestBucket(q).tokens
        BY <1>0, <1>4, <2>2, <2>4, LimiterAssumption
      <3> QED
        BY ONLY <1>0, <2>1, <2>2, <3>1, <3>2, <3>3, PeerCreditRefilled, q \in Peers
    <2> QED
      BY <2>3, <2>4
  <1>7. GlobalCredit'
    BY <1>1, GlobalCreditKept DEF Inv, history
  <1>8. NoSlotLeak'
    BY <1>1 DEF Inv, NoSlotLeak
  <1> QED
    BY <1>5, <1>6, <1>7, <1>8 DEF Inv

(* Cleanup deletes a bucket only when it would be full again. *)
LEMMA StaleFull ==
    ASSUME TypeOK, NEW p \in Peers, PeerCredit(p), Stale(p)
    PROVE  \/ granted[p] = 0
           \/ granted[p] + Burst <= Burst * (1 + resets[p]) + Rate * (now - winStart)
  <1> DEFINE l == peerBuckets[p].lastRefill
             k == peerBuckets[p].tokens
             B == Burst * (1 + resets[p])
  <1>1. /\ peerBuckets[p] # NoBucket /\ now - l > MaxAge
        /\ peerBuckets[p] \in [tokens: 0..Burst, lastRefill: 0..now]
    BY RequestBucketType DEF Stale
  <1>2. /\ l \in Nat /\ l <= now /\ k \in Nat /\ now \in Nat /\ winStart \in Nat
        /\ Burst \in Nat /\ Rate \in Nat /\ MaxAge \in Nat /\ granted[p] \in Nat /\ B \in Nat
        /\ Rate * MaxAge >= Burst
    BY <1>1, Numbers, LimiterAssumption
  <1>3. Rate * MaxAge <= Rate * (now - l)
    BY <1>1, <1>2, MulMono
  <1>4. SUFFICES ASSUME l >= winStart, granted[p] + k <= B + Rate * (l - winStart)
                 PROVE  granted[p] + Burst <= B + Rate * (now - winStart)
    BY <1>1 DEF PeerCredit
  <1> HIDE DEF l, k, B
  <1>5. /\ l - winStart \in Int /\ now - l \in Int /\ Rate \in Int
        /\ now - winStart = (l - winStart) + (now - l)
    BY <1>2
  <1>6. Rate * (now - winStart) = Rate * (l - winStart) + Rate * (now - l)
    BY <1>5, MulAdd
  <1>7. Rate * (l - winStart) \in Nat /\ Rate * (now - l) \in Nat /\ Rate * MaxAge \in Nat
    BY <1>2, <1>4, MulNat
  <1> QED
    BY <1>2, <1>3, <1>4, <1>6, <1>7

LEMMA CleanupInv ==
    ASSUME Inv, Cleanup
    PROVE  Inv'
  <1>0. TypeOK
    BY DEF Inv
  <1>1. UNCHANGED <<globalBucket, now, winStart, granted, bytes, total, resets, open>>
    BY DEF Cleanup
  <1>2. TypeOK'
    <2>1. 0 \in 0..MaxConns
      BY LimiterAssumption
    <2> QED
      BY <1>0, <1>1, <2>1 DEF Cleanup, TypeOK
  <1>3. ASSUME NEW p \in Peers PROVE PeerCredit(p)'
    <2>1. PeerCredit(p)
      BY DEF Inv
    <2>2. /\ resets'[p] = resets[p] /\ now' = now /\ winStart' = winStart
          /\ granted'[p] = granted[p]
      BY <1>1
    <2>3. CASE Stale(p)
      <3>1. peerBuckets'[p] = NoBucket
        BY <2>3 DEF Cleanup
      <3>2. \/ granted[p] = 0
            \/ granted[p] + Burst <= Burst * (1 + resets[p]) + Rate * (now - winStart)
        BY <1>0, <2>1, <2>3, StaleFull
      <3> QED
        BY <2>2, <3>1, <3>2 DEF PeerCredit
    <2>4. CASE ~Stale(p)
      <3>1. peerBuckets'[p] = peerBuckets[p]
        BY <2>4 DEF Cleanup
      <3>2. now' \in Nat /\ now <= now'
        BY <1>0, <2>2 DEF TypeOK
      <3> QED
        BY ONLY <1>0, <2>1, <2>2, <3>1, <3>2, PeerCreditKept, p \in Peers
    <2> QED
      BY <2>3, <2>4
  <1>4. GlobalCredit'
    BY <1>1, GlobalCreditKept DEF Inv
  <1>5. NoSlotLeak'
    <2>1. connections \in [Peers -> 0..MaxConns] /\ open \in [Peers -> Nat] /\ NoSlotLeak
      BY DEF Inv, TypeOK
    <2>2. connections' = [p \in Peers |-> IF Stale(p) THEN 0 ELSE connections[p]] /\ open' = open
      BY DEF Cleanup
    <2> QED
      BY <2>1, <2>2 DEF NoSlotLeak
  <1> QED
    BY <1>2, <1>3, <1>4, <1>5 DEF Inv

(* A Reset adds a burst to what the peer may be granted. *)
LEMMA ResetInv ==
    ASSUME Inv, NEW S \in SUBSET Peers, ResetPeers(S)
    PROVE  Inv'
  <1>0. TypeOK
    BY DEF Inv
  <1>1. UNCHANGED <<globalBucket, now, winStart, granted, bytes, total, open>>
    BY DEF ResetPeers
  <1>2. TypeOK'
    <2>1. 0 \in 0..MaxConns
      BY LimiterAssumption
    <2> QED
      BY <1>0, <1>1, <2>1 DEF ResetPeers, TypeOK
  <1>3. ASSUME NEW p \in Peers PROVE PeerCredit(p)'
    <2>1. PeerCredit(p)
      BY DEF Inv
    <2>2. now' = now /\ winStart' = winStart /\ granted'[p] = granted[p]
      BY <1>1
    <2>3. CASE p \in S
      <3>1. peerBuckets'[p] = NoBucket /\ resets'[p] = 1 + resets[p]
        BY <1>0, <2>3, Numbers DEF ResetPeers
      <3> DEFINE t == RequestBucket(p).tokens
                 B == Burst * (1 + resets[p])
                 w == Rate * (now - winStart)
      <3>2. granted[p] + t <= B + w /\ t \in Nat
        BY <1>0, <2>1, PeerCreditNow, RequestBucketType, Numbers
      <3>3. /\ granted[p] \in Nat /\ B \in Nat /\ w \in Nat /\ Burst \in Nat /\ resets[p] \in Nat
        BY <1>0, Numbers
      <3>4. Burst * (1 + (1 + resets[p])) = Burst + B
        BY <3>3, MulSucc
      <3> HIDE DEF t, B, w
      <3>5. granted[p] + Burst <= (Burst + B) + w
        BY <3>2, <3>3
      <3>6. granted'[p] + Burst <= Burst * (1 + resets'[p]) + Rate * (now' - winStart')
        BY <2>2, <3>1, <3>4, <3>5 DEF w
      <3> QED
        BY <3>1, <3>6 DEF PeerCredit
    <2>4. CASE p \notin S
      <3>1. peerBuckets'[p] = peerBuckets[p] /\ resets'[p] = resets[p]
        BY <2>4 DEF ResetPeers
      <3>2. now' \in Nat /\ now <= now'
        BY <1>0, <2>2 DEF TypeOK
      <3> QED
        BY ONLY <1>0, <2>1, <2>2, <3>1, <3>2, PeerCreditKept, p \in Peers
    <2> QED
      BY <2>3, <2>4
  <1>4. GlobalCredit'
    BY <1>1, GlobalCreditKept DEF Inv
  <1>5. NoSlotLeak'
    <2>1. connections \in [Peers -> 0..MaxConns] /\ open \in [Peers -> Nat] /\ NoSlotLeak
      BY DEF Inv, TypeOK
    <2>2. connections' = [p \in Peers |-> IF p \in S THEN 0 ELSE connections[p]] /\ open' = open
      BY DEF ResetPeers
    <2> QED
      BY <2>1, <2>2 DEF NoSlotLeak
  <1> QED
    BY <1>2, <1>3, <1>4, <1>5 DEF Inv

LEMMA TickInv ==
    ASSUME Inv, Tick
    PROVE  Inv'
  <1>0. /\ TypeOK /\ now \in Nat /\ now' = now + 1
        /\ UNCHANGED <<buckets, connections, history, open>>
    BY DEF Inv, Tick, TypeOK
  <1>1. TypeOK'
    <2>1. 0..now \subseteq 0..now'
      BY <1>0
    <2>2. [tokens: 0..(GlobalFactor * Burst), lastRefill: 0..now]
             \subseteq [tokens: 0..(GlobalFactor * Burst), lastRefill: 0..now']
      BY <2>1
    <2>3. [tokens: 0..Burst, lastRefill: 0..now] \subseteq [tokens: 0..Burst, lastRefill: 0..now']
      BY <2>1
    <2>4. [tokens: 0..ByteRate, lastRefill: 0..now] \subseteq [tokens: 0..ByteRate, lastRefill: 0..now']
      BY <2>1
    <2>5. winStart' \in 0..now' /\ now' \in Nat
      BY <1>0, <2>1 DEF TypeOK, history
    <2>6. globalBucket' \in [tokens: 0..(GlobalFactor * Burst), lastRefill: 0..now']
      BY <1>0, <2>2 DEF TypeOK, buckets
    <2>7. peerBuckets' \in [Peers -> [tokens: 0..Burst, lastRefill: 0..now'] \cup {NoBucket}]
      BY <1>0, <2>3 DEF TypeOK, buckets
    <2>8. byteBuckets' \in [Peers -> [tokens: 0..ByteRate, lastRefill: 0..now'] \cup {NoBucket}]
      BY <1>0, <2>4 DEF TypeOK, buckets
    <2> QED
      BY <1>0, <2>5, <2>6, <2>7, <2>8 DEF TypeOK, history
  <1>2. ASSUME NEW p \in Peers PROVE PeerCredit(p)'
    <2>1. PeerCredit(p)
      BY DEF Inv
    <2>2. /\ winStart' = winStart /\ granted'[p] = granted[p] /\ resets'[p] = resets[p]
          /\ peerBuckets'[p] = peerBuckets[p] /\ now' \in Nat /\ now <= now'
      BY <1>0 DEF history, buckets
    <2> QED
      BY ONLY <1>0, <2>1, <2>2, PeerCreditKept, p \in Peers
  <1>3. GlobalCredit'
    BY <1>0, GlobalCreditKept DEF Inv, history, buckets
  <1>4. NoSlotLeak'
    BY <1>0 DEF Inv, NoSlotLeak
  <1> QED
    BY <1>1, <1>2, <1>3, <1>4 DEF Inv

LEMMA OpenWindowInv ==
    ASSUME Inv, OpenWindow
    PROVE  Inv'
  <1>1. TypeOK'
    BY DEF OpenWindow, Inv, TypeOK, buckets
  <1>2. (\A p \in Peers : PeerCredit(p)') /\ GlobalCredit'
    BY DEF OpenWindow, PeerCredit, GlobalCredit
  <1>3. NoSlotLeak'
    BY DEF OpenWindow, Inv, NoSlotLeak
  <1> QED
    BY <1>1, <1>2, <1>3 DEF Inv

LEMMA InvNext == Inv /\ [Next]_vars => Inv'
  <1> SUFFICES ASSUME Inv, [Next]_vars PROVE Inv'
    OBVIOUS
  <1>1. CASE UNCHANGED vars
    <2>1. TypeOK'
      BY <1>1 DEF vars, buckets, history, Inv, TypeOK
    <2>2. (\A p \in Peers : PeerCredit(p)') /\ GlobalCredit'
      BY <1>1, CreditsKept DEF vars, buckets, history
    <2>3. NoSlotLeak'
      BY <1>1 DEF vars, Inv, NoSlotLeak
    <2> QED
      BY <2>1, <2>2, <2>3 DEF Inv
  <1>2. ASSUME NEW p \in Peers, AllowRequest(p) PROVE Inv'
    BY <1>2, AllowRequestInv
  <1>3. ASSUME NEW p \in Peers, NEW n \in ByteSizes, AllowBytes(p, n) PROVE Inv'
    BY <1>3, AllowBytesInv
  <1>4. ASSUME NEW p \in Peers, AllowConnection(p) \/ ReleaseConnection(p) PROVE Inv'
    BY <1>4, ConnectionInv
  <1>5. ASSUME NEW p \in Peers, WaitForRequest(p) \/ GetPeerStats(p) PROVE Inv'
    BY <1>5, ReportInv
  <1>6. ASSUME NEW p \in Peers, Reset(p) PROVE Inv'
    <2>1. {p} \in SUBSET Peers /\ ResetPeers({p})
      BY <1>6 DEF Reset
    <2> QED
      BY <2>1, ResetInv
  <1>7. CASE Cleanup
    BY <1>7, CleanupInv
  <1>8. CASE ResetAll
    <2>1. Peers \in SUBSET Peers /\ ResetPeers(Peers)
      BY <1>8 DEF ResetAll
    <2> QED
      BY <2>1, ResetInv
  <1>9. CASE Tick
    BY <1>9, TickInv
  <1>10. CASE OpenWindow
    BY <1>10, OpenWindowInv
  <1> QED
    BY <1>1, <1>2, <1>3, <1>4, <1>5, <1>6, <1>7, <1>8, <1>9, <1>10 DEF Next

LEMMA InvAlways == Spec => []Inv
  BY InvInit, InvNext, PTL DEF Spec
-----------------------------------------------------------------------------
(* Buckets never hold more tokens than their capacity, nor are refilled in *)
(* the future, whatever AllowRequest, AllowBytes, Cleanup and Reset do.    *)
THEOREM TypeCorrect == Spec => []TypeOK
  <1>1. Inv => TypeOK
    BY DEF Inv
  <1> QED
    BY <1>1, InvAlways, PTL

(* In any window of time a peer is allowed at most its burst, the rate     *)
(* times the window and one more burst for each Reset: deleting idle       *)
(* buckets in Cleanup gives nobody more (limiter.go, AllowRequest).        *)
THEOREM RequestsBounded == Spec => []RequestWindowBound
  <1>1. Inv => RequestWindowBound
    BY CreditBound
  <1> QED
    BY <1>1, InvAlways, PTL

(* The same for all peers together and the global bucket, which no Reset   *)
(* and no Cleanup touches.                                                 *)
THEOREM GlobalRequestsBounded == Spec => []GlobalWindowBound
  <1>1. Inv => GlobalWindowBound
    BY CreditBound
  <1> QED
    BY <1>1, InvAlways, PTL

(* The counter of AllowConnection and ReleaseConnection never exceeds the  *)
(* connections that are open: no slot is lost to a peer.                   *)
THEOREM SlotsNotLeaked == Spec => []NoSlotLeak
  <1>1. Inv => NoSlotLeak
    BY DEF Inv
  <1> QED
    BY <1>1, InvAlways, PTL
-----------------------------------------------------------------------------
(* The bytes of a peer, in the same way.  Each Reset, and each byte bucket *)
(* that Cleanup deleted, is worth a burst.                                 *)
Deletions(p) == resets[p] + forgotten[p]

ByteCredit(p) ==
    \/ bytes[p] = 0
    \/ /\ byteBuckets[p] = NoBucket
       /\ bytes[p] + ByteRate <= ByteRate * (1 + Deletions(p)) + ByteRate * (now - winStart)
    \/ /\ byteBuckets[p] # NoBucket
       /\ byteBuckets[p].lastRefill >= winStart
       /\ bytes[p] + byteBuckets[p].tokens
             <= ByteRate * (1 + Deletions(p)) + ByteRate * (byteBuckets[p].lastRefill - winStart)

LEMMA ByteNumbers ==
    ASSUME TypeOK, NEW p \in Peers
    PROVE  /\ ByteRate \in Nat /\ now \in Nat /\ winStart \in Nat /\ now - winStart \in Nat
           /\ ByteRate * (now - winStart) \in Nat
           /\ bytes[p] \in Nat /\ Deletions(p) \in Nat
           /\ ByteRate * (1 + Deletions(p)) \in Nat
           /\ ByteRate <= ByteRate * (1 + Deletions(p))
  <1>1. /\ ByteRate \in Nat /\ now \in Nat /\ winStart \in Nat /\ now - winStart \in Nat
        /\ bytes[p] \in Nat /\ Deletions(p) \in Nat
    BY LimiterAssumption DEF TypeOK, Deletions
  <1>2. ByteRate * (now - winStart) \in Nat /\ ByteRate * Deletions(p) \in Nat
    BY <1>1, MulNat
  <1>3. ByteRate * (1 + Deletions(p)) = ByteRate + ByteRate * Deletions(p)
    BY <1>1, MulSucc
  <1> QED
    BY <1>1, <1>2, <1>3

LEMMA ByteBucketRefilled ==
    ASSUME TypeOK, NEW p \in Peers
    PROVE  /\ ByteBucket(p).tokens \in Nat /\ ByteBucket(p).tokens <= ByteRate
           /\ ByteBucket(p).lastRefill = now
           /\ ByteBucket(p) # NoBucket
           /\ byteBuckets[p] # NoBucket =>
                /\ byteBuckets[p].tokens \in Nat /\ byteBuckets[p].lastRefill \in 0..now
                /\ ByteBucket(p).tokens
                     <= byteBuckets[p].tokens + ByteRate * (now - byteBuckets[p].lastRefill)
  <1>1. now \in Nat /\ ByteRate \in Nat /\ NoBucket \notin [tokens: Nat, lastRefill: Nat]
    BY LimiterAssumption DEF TypeOK
  <1>2. ByteBucket(p) \in [tokens: 0..ByteRate, lastRefill: 0..now]
    BY ByteBucketType
  <1>3. CASE byteBuckets[p] = NoBucket
    BY <1>1, <1>2, <1>3 DEF ByteBucket, NewTokenBucket
  <1>4. CASE byteBuckets[p] # NoBucket
    <2>1. byteBuckets[p] \in [tokens: 0..ByteRate, lastRefill: 0..now]
      BY <1>4 DEF TypeOK
    <2>2. ByteBucket(p) = Refill(byteBuckets[p], ByteRate, ByteRate)
      BY <1>4 DEF ByteBucket
    <2>3. /\ ByteBucket(p).lastRefill = now
          /\ ByteBucket(p).tokens
               <= byteBuckets[p].tokens + ByteRate * (now - byteBuckets[p].lastRefill)
      BY <1>1, <2>1, <2>2, RefillType
    <2>4. /\ ByteBucket(p).tokens \in Nat /\ ByteBucket(p).tokens <= ByteRate
          /\ ByteBucket(p) # NoBucket
      BY <1>1, <1>2
    <2>5. byteBuckets[p].tokens \in Nat /\ byteBuckets[p].lastRefill \in 0..now
      BY <1>1, <2>1
    <2> QED
      BY <2>3, <2>4, <2>5
  <1> QED
    BY <1>3, <1>4

(* The credit at the moment the byte bucket has been refilled. *)
LEMMA ByteCreditNow ==
    ASSUME TypeOK, NEW p \in Peers, ByteCredit(p)
    PROVE  bytes[p] + ByteBucket(p).tokens
              <= ByteRate * (1 + Deletions(p)) + ByteRate * (now - winStart)
  <1> DEFINE t == ByteBucket(p).tokens
             B == ByteRate * (1 + Deletions(p))
             w == ByteRate * (now - winStart)
  <1>1. /\ t \in Nat /\ t <= ByteRate /\ ByteRate \in Nat /\ bytes[p] \in Nat
        /\ B \in Nat /\ w \in Nat /\ ByteRate <= B
    BY ByteBucketRefilled, ByteNumbers
  <1>2. CASE bytes[p] = 0
    <2> HIDE DEF t, B, w
    <2>1. bytes[p] + t <= B + w
      BY <1>1, <1>2
    <2> QED
      BY <2>1 DEF t, B, w
  <1>3. CASE bytes[p] + ByteRate <= B + w
    <2> HIDE DEF t, B, w
    <2>1. bytes[p] + t <= B + w
      BY <1>1, <1>3
    <2> QED
      BY <2>1 DEF t, B, w
  <1>4. CASE /\ byteBuckets[p] # NoBucket
             /\ byteBuckets[p].lastRefill >= winStart
             /\ bytes[p] + byteBuckets[p].tokens
                  <= B + ByteRate * (byteBuckets[p].lastRefill - winStart)
    <2> DEFINE l == byteBuckets[p].lastRefill
               k == byteBuckets[p].tokens
    <2>1. /\ t <= k + ByteRate * (now - l) /\ k \in Nat /\ l \in Nat /\ l <= now
          /\ l >= winStart /\ now \in Nat /\ winStart \in Nat
          /\ bytes[p] + k <= B + ByteRate * (l - winStart)
      BY <1>4, ByteBucketRefilled, ByteNumbers
    <2> HIDE DEF t, B, l, k
    <2>2. /\ l - winStart \in Nat /\ now - l \in Nat
          /\ now - winStart = (l - winStart) + (now - l)
      BY <2>1
    <2>3. w = ByteRate * (l - winStart) + ByteRate * (now - l)
      BY <1>1, <2>2, MulAdd
    <2>4. ByteRate * (l - winStart) \in Nat /\ ByteRate * (now - l) \in Nat
      BY <1>1, <2>2, MulNat
    <2> HIDE DEF w
    <2>5. bytes[p] + t <= B + w
      BY <1>1, <2>1, <2>3, <2>4
    <2> QED
      BY <2>5 DEF t, B, w
  <1> QED
    BY <1>2, <1>3, <1>4 DEF ByteCredit

(* The peer's byte bucket is left alone in a window that only grows. *)
LEMMA ByteCreditKept ==
    ASSUME TypeOK, NEW p \in Peers, ByteCredit(p),
           now' \in Nat, now <= now', winStart' = winStart,
           bytes'[p] = bytes[p], byteBuckets'[p] = byteBuckets[p],
           Deletions(p)' = Deletions(p)
    PROVE  ByteCredit(p)'
  <1>1. now' - winStart \in Nat /\ now - winStart <= now' - winStart
    BY ByteNumbers
  <1>2. ByteRate * (now - winStart) <= ByteRate * (now' - winStart)
    BY <1>1, MulMono, ByteNumbers
  <1>3. ByteRate * (now' - winStart) \in Nat
    BY <1>1, MulNat, ByteNumbers
  <1>4. ASSUME bytes[p] + ByteRate <= ByteRate * (1 + Deletions(p)) + ByteRate * (now - winStart)
        PROVE  bytes[p] + ByteRate <= ByteRate * (1 + Deletions(p)) + ByteRate * (now' - winStart)
    BY <1>2, <1>3, <1>4, ByteNumbers
  <1> QED
    BY <1>4 DEF ByteCredit

(* It is refilled, and n bytes of it are granted. *)
LEMMA ByteCreditRefilled ==
    ASSUME TypeOK, NEW p \in Peers, ByteCredit(p), NEW n \in Nat,
           now' = now, winStart' = winStart, Deletions(p)' = Deletions(p),
           bytes'[p] = bytes[p] + n,
           byteBuckets'[p] # NoBucket,
           byteBuckets'[p].lastRefill = now,
           byteBuckets'[p].tokens \in Nat,
           byteBuckets'[p].tokens + n = ByteBucket(p).tokens
    PROVE  ByteCredit(p)'
  <1>1. bytes[p] + ByteBucket(p).tokens
           <= ByteRate * (1 + Deletions(p)) + ByteRate * (now - winStart)
    BY ByteCreditNow
  <1>2. bytes'[p] + byteBuckets'[p].tokens = bytes[p] + ByteBucket(p).tokens
    BY ByteNumbers
  <1>3. now >= winStart
    BY DEF TypeOK
  <1>4. /\ byteBuckets'[p].lastRefill >= winStart'
        /\ bytes'[p] + byteBuckets'[p].tokens
             <= ByteRate * (1 + Deletions(p)') + ByteRate * (byteBuckets'[p].lastRefill - winStart')
    BY <1>1, <1>2, <1>3
  <1> QED
    BY <1>4 DEF ByteCredit

(* It is deleted. *)
LEMMA ByteCreditDeleted ==
    ASSUME TypeOK, NEW p \in Peers, ByteCredit(p),
           now' = now, winStart' = winStart, bytes'[p] = bytes[p],
           byteBuckets'[p] = NoBucket, Deletions(p)' = 1 + Deletions(p)
    PROVE  ByteCredit(p)'
  <1> DEFINE t == ByteBucket(p).tokens
             B == ByteRate * (1 + Deletions(p))
             w == ByteRate * (now - winStart)
  <1>1. /\ bytes[p] + t <= B + w /\ t \in Nat /\ ByteRate \in Nat /\ bytes[p] \in Nat
        /\ B \in Nat /\ w \in Nat /\ Deletions(p) \in Nat
    BY ByteCreditNow, ByteBucketRefilled, ByteNumbers
  <1>2. ByteRate * (1 + (1 + Deletions(p))) = ByteRate + B
    BY <1>1, MulSucc
  <1> HIDE DEF t, B, w
  <1>3. bytes[p] + ByteRate <= (ByteRate + B) + w
    BY <1>1
  <1>4. bytes'[p] + ByteRate <= ByteRate * (1 + Deletions(p)') + ByteRate * (now' - winStart')
    BY <1>2, <1>3 DEF w
  <1> QED
    BY <1>4 DEF ByteCredit

LEMMA AllowBytesCredit ==
    ASSUME TypeOK, NEW p \in Peers, ByteCredit(p), NEW n \in ByteSizes, AllowBytes(p, n)
    PROVE  ByteCredit(p)'
  <1> DEFINE b == ByteBucket(p)
  <1>1. /\ b \in [tokens: 0..ByteRate, lastRefill: 0..now] /\ b.lastRefill = now
        /\ n \in Nat /\ now \in Nat /\ ByteRate \in Nat
        /\ NoBucket \notin [tokens: Nat, lastRefill: Nat]
    BY ByteBucketType, ByteBucketRefilled, ByteNumbers, LimiterAssumption
  <1>2. /\ byteBuckets \in [Peers -> [tokens: 0..ByteRate, lastRefill: 0..now] \cup {NoBucket}]
        /\ bytes \in [Peers -> Nat]
    BY DEF TypeOK
  <1>3. /\ byteBuckets'[p] = Take(b, n)
        /\ bytes'[p] = IF b.tokens >= n THEN bytes[p] + n ELSE bytes[p]
        /\ now' = now /\ winStart' = winStart /\ Deletions(p)' = Deletions(p)
    BY <1>2 DEF AllowBytes, Deletions
  <1> HIDE DEF b
  <1>4. /\ Take(b, n) \in [tokens: 0..ByteRate, lastRefill: 0..now]
        /\ Take(b, n).lastRefill = now
        /\ Take(b, n).tokens = IF b.tokens >= n THEN b.tokens - n ELSE b.tokens
    BY <1>1, TakeType
  <1>5. Take(b, n).tokens \in Nat /\ Take(b, n) # NoBucket /\ b.tokens \in Nat /\ bytes[p] \in Nat
    BY <1>1, <1>2, <1>4
  <1>6. CASE b.tokens >= n
    <2>1. bytes'[p] = bytes[p] + n /\ byteBuckets'[p].tokens + n = ByteBucket(p).tokens
      BY <1>1, <1>3, <1>4, <1>5, <1>6 DEF b
    <2> QED
      BY ONLY TypeOK, ByteCredit(p), p \in Peers, <1>1, <1>3, <1>4, <1>5, <2>1, ByteCreditRefilled
  <1>7. CASE ~(b.tokens >= n)
    <2>1. /\ 0 \in Nat /\ bytes'[p] = bytes[p] + 0
          /\ byteBuckets'[p].tokens + 0 = ByteBucket(p).tokens
      BY <1>1, <1>3, <1>4, <1>5, <1>7 DEF b
    <2> QED
      BY ONLY TypeOK, ByteCredit(p), p \in Peers, <1>1, <1>3, <1>4, <1>5, <2>1, ByteCreditRefilled
  <1> QED
    BY <1>6, <1>7

(* One step, as far as the bytes of peer p are concerned. *)
LEMMA ByteNext ==
    ASSUME TypeOK, NEW p \in Peers, ByteCredit(p), [Next]_vars
    PROVE  ByteCredit(p)'
  <1>0. now \in Nat /\ bytes[p] \in Nat /\ resets[p] \in Nat /\ forgotten[p] \in Nat
    BY DEF TypeOK
  <1>1. ASSUME now' \in {now, now + 1}, UNCHANGED <<winStart, resets, forgotten>>,
               bytes'[p] = bytes[p], byteBuckets'[p] = byteBuckets[p]
        PROVE  ByteCredit(p)'
    <2>1. /\ now' \in Nat /\ now <= now' /\ winStart' = winStart
          /\ Deletions(p)' = Deletions(p)
      BY <1>0, <1>1 DEF Deletions
    <2> QED
      BY ONLY TypeOK, ByteCredit(p), p \in Peers, <1>1, <2>1, ByteCreditKept
  <1>2. CASE UNCHANGED vars \/ Tick
    BY <1>1, <1>2 DEF vars, Tick, buckets, history
  <1>3. ASSUME NEW q \in Peers,
               AllowRequest(q) \/ AllowConnection(q) \/ ReleaseConnection(q) \/ WaitForRequest(q)
        PROVE  ByteCredit(p)'
    BY <1>1, <1>3 DEF AllowRequest, AllowConnection, ReleaseConnection, WaitForRequest,
                      buckets, history
  <1>4. ASSUME NEW q \in Peers, NEW n \in ByteSizes, AllowBytes(q, n)
        PROVE  ByteCredit(p)'
    <2>1. CASE q = p
      BY <1>4, <2>1, AllowBytesCredit
    <2>2. CASE q # p
      BY <1>1, <1>4, <2>2 DEF AllowBytes, TypeOK
    <2> QED
      BY <2>1, <2>2
  <1>5. ASSUME NEW q \in Peers, GetPeerStats(q)
        PROVE  ByteCredit(p)'
    <2>1. CASE q # p \/ byteBuckets[p] = NoBucket
      BY <1>1, <1>5, <2>1 DEF GetPeerStats, history, TypeOK
    <2>2. CASE q = p /\ byteBuckets[p] # NoBucket
      <3>1. /\ byteBuckets'[p] = ByteBucket(p) /\ bytes'[p] = bytes[p] + 0
            /\ now' = now /\ winStart' = winStart /\ Deletions(p)' = Deletions(p)
        BY <1>0, <1>5, <2>2 DEF GetPeerStats, history, TypeOK, Deletions
      <3>2. /\ 0 \in Nat /\ ByteBucket(p).tokens \in Nat /\ ByteBucket(p).lastRefill = now
            /\ ByteBucket(p) # NoBucket /\ ByteBucket(p).tokens + 0 = ByteBucket(p).tokens
        BY ByteBucketRefilled
      <3> QED
        BY ONLY TypeOK, ByteCredit(p), p \in Peers, <3>1, <3>2, ByteCreditRefilled
    <2> QED
      BY <2>1, <2>2
  <1>6. CASE Cleanup
    <2>1. CASE Stale(p) /\ byteBuckets[p] # NoBucket
      <3>1. /\ byteBuckets'[p] = NoBucket /\ bytes'[p] = bytes[p]
            /\ now' = now /\ winStart' = winStart
            /\ resets'[p] = resets[p] /\ forgotten'[p] = forgotten[p] + 1
        BY <1>6, <2>1 DEF Cleanup
      <3>2. Deletions(p)' = 1 + Deletions(p)
        BY <1>0, <3>1 DEF Deletions
      <3> QED
        BY ONLY TypeOK, ByteCredit(p), p \in Peers, <3>1, <3>2, ByteCreditDeleted
    <2>2. CASE ~(Stale(p) /\ byteBuckets[p] # NoBucket)
      <3>1. /\ byteBuckets'[p] = byteBuckets[p] /\ bytes'[p] = bytes[p]
            /\ now' = now /\ winStart' = winStart
            /\ resets'[p] = resets[p] /\ forgotten'[p] = forgotten[p]
        BY <1>6, <2>2 DEF Cleanup
      <3>2. now' \in Nat /\ now <= now' /\ Deletions(p)' = Deletions(p)
        BY <1>0, <3>1 DEF Deletions
      <3> QED
        BY ONLY TypeOK, ByteCredit(p), p \in Peers, <3>1, <3>2, ByteCreditKept
    <2> QED
      BY <2>1, <2>2
  <1>7. ASSUME NEW S \in SUBSET Peers, ResetPeers(S)
        PROVE  ByteCredit(p)'
    <2>1. now' = now /\ winStart' = winStart /\ bytes'[p] = bytes[p] /\ forgotten'[p] = forgotten[p]
      BY <1>7 DEF ResetPeers
    <2>2. CASE p \in S
      <3>1. byteBuckets'[p] = NoBucket /\ resets'[p] = resets[p] + 1
        BY <1>7, <2>2 DEF ResetPeers
      <3>2. Deletions(p)' = 1 + Deletions(p)
        BY <1>0, <2>1, <3>1 DEF Deletions
      <3> QED
        BY ONLY TypeOK, ByteCredit(p), p \in Peers, <2>1, <3>1, <3>2, ByteCreditDeleted
    <2>3. CASE p \notin S
      <3>1. byteBuckets'[p] = byteBuckets[p] /\ resets'[p] = resets[p]
        BY <1>7, <2>3 DEF ResetPeers
      <3>2. now' \in Nat /\ now <= now' /\ Deletions(p)' = Deletions(p)
        BY <1>0, <2>1, <3>1 DEF Deletions
      <3> QED
        BY ONLY TypeOK, ByteCredit(p), p \in Peers, <2>1, <3>1, <3>2, ByteCreditKept
    <2> QED
      BY <2>2, <2>3
  <1>8. CASE OpenWindow
    BY <1>8 DEF OpenWindow, ByteCredit
  <1>9. ASSUME NEW q \in Peers, Reset(q) PROVE ByteCredit(p)'
    BY <1>7, <1>9 DEF Reset
  <1>10. CASE ResetAll
    BY <1>7, <1>10 DEF ResetAll
  <1> QED
    BY <1>2, <1>3, <1>4, <1>5, <1>6, <1>8, <1>9, <1>10 DEF Next

ByteInv == TypeOK /\ \A p \in Peers : ByteCredit(p)

(* In any window of time the bytes allowed to a peer are at most its burst *)
(* and the rate times the window, and one more burst for each Reset and    *)
(* for each of its byte buckets that Cleanup deleted (limiter.go,          *)
(* AllowBytes).                                                            *)
THEOREM BytesBounded == Spec => []ByteWindowBound
  <1>1. Init => \A p \in Peers : ByteCredit(p)
    BY DEF Init, ByteCredit
  <1>2. ByteInv /\ [Next]_vars /\ TypeOK' => ByteInv'
    BY ByteNext DEF ByteInv
  <1>3. Init /\ TypeOK => ByteInv
    BY <1>1 DEF ByteInv
  <1>4. ByteInv => ByteWindowBound
    <2> SUFFICES ASSUME ByteInv, NEW p \in Peers
                 PROVE  bytes[p] <= ByteRate * (1 + resets[p] + forgotten[p])
                                      + ByteRate * (now - winStart)
      BY DEF ByteWindowBound
    <2>1. /\ bytes[p] + ByteBucket(p).tokens
               <= ByteRate * (1 + Deletions(p)) + ByteRate * (now - winStart)
          /\ ByteBucket(p).tokens \in Nat /\ bytes[p] \in Nat
          /\ ByteRate * (1 + Deletions(p)) \in Nat /\ ByteRate * (now - winStart) \in Nat
      BY ByteCreditNow, ByteBucketRefilled, ByteNumbers DEF ByteInv
    <2>2. 1 + Deletions(p) = 1 + resets[p] + forgotten[p]
      BY DEF ByteInv, TypeOK, Deletions
    <2> HIDE DEF Deletions
    <2>3. bytes[p] <= ByteRate * (1 + Deletions(p)) + ByteRate * (now - winStart)
      BY <2>1
    <2> QED
      BY <2>2, <2>3
  <1> QED
    BY <1>2, <1>3, <1>4, TypeCorrect, PTL DEF Spec
=============================================================================
