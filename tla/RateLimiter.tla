---------------------------- MODULE RateLimiter -----------------------------
(***************************************************************************)
(* The relay's rate limiter, src/internal/relay/limiter.go: a token bucket *)
(* of requests and one of bytes per peer, a global bucket of requests, and *)
(* a count of connections per peer.  Every operation runs under r.mu and   *)
(* is one action.  Time is counted in ticks and tokens in units for which  *)
(* the refill of a tick is a whole number.                                 *)
(***************************************************************************)
EXTENDS Naturals

CONSTANTS Peers,
          NoBucket,      \* a peer without an entry in the map of buckets
          Burst,         \* config.MaxBurstSize
          Rate,          \* config.MaxRequestsPerSecond, per tick
          ByteRate,      \* config.MaxBytesPerSecond, per tick: rate and burst
          ByteSizes,     \* sizes of the transfers asked for
          MaxConns,      \* config.MaxConnectionsPerPeer
          GlobalFactor,  \* the global bucket is this many times a peer's (10)
          MaxAge,        \* cleanupLoop's argument of Cleanup
          MaxNow,        \* bound on the clock
          MaxResets,     \* bound on administrative resets of a peer
          MaxOpen        \* bound on connections open at once

(* The configuration is sound: a bucket that Cleanup may delete would have *)
(* been full again (in the code, 200 <= 100/s * 24h).                      *)
ASSUME LimiterAssumption ==
    /\ Burst \in Nat \ {0} /\ Rate \in Nat /\ ByteRate \in Nat /\ ByteSizes \subseteq Nat
    /\ MaxConns \in Nat /\ GlobalFactor \in Nat \ {0} /\ MaxAge \in Nat /\ MaxNow \in Nat
    /\ MaxResets \in Nat /\ MaxOpen \in Nat
    /\ Rate * MaxAge >= Burst
    /\ NoBucket \notin [tokens: Nat, lastRefill: Nat]

VARIABLES peerBuckets, byteBuckets, globalBucket, connections,
          now,
          winStart,   \* history: start of the window of observation
          granted,    \* history: requests of each peer allowed in the window
          bytes,      \* history: bytes of each peer allowed in the window
          total,      \* history: requests allowed in the window
          resets,     \* history: Reset and ResetAll of each peer in the window
          forgotten,  \* history: byte buckets of each peer that Cleanup deleted in it
          open        \* history: connections each peer really has open

buckets == <<peerBuckets, byteBuckets, globalBucket>>
history == <<winStart, granted, bytes, total, resets, forgotten>>
vars == <<buckets, connections, now, history, open>>
-----------------------------------------------------------------------------
Bucket == [tokens: Nat, lastRefill: Nat]

(* NewTokenBucket: a new bucket is full. *)
NewTokenBucket(max) == [tokens |-> max, lastRefill |-> now]

(* Mutants: the capacity is forgotten; lastRefill is not advanced. *)
RefillUncapped(b, max, rate) ==
    [tokens |-> b.tokens + (now - b.lastRefill) * rate, lastRefill |-> now]
RefillAgain(b, max, rate) ==
    LET t == b.tokens + (now - b.lastRefill) * rate
    IN [b EXCEPT !.tokens = IF t > max THEN max ELSE t]

(* refill *)
Refill(b, max, rate) ==
    LET t == b.tokens + (now - b.lastRefill) * rate
    IN [tokens |-> IF t > max THEN max ELSE t, lastRefill |-> now]

(* AllowN takes n tokens from a refilled bucket that has them. *)
Take(b, n) == IF b.tokens >= n THEN [b EXCEPT !.tokens = @ - n] ELSE b

(* The bucket an operation on peer p works on: the peer's, or a new one.   *)
RequestBucket(p) == IF peerBuckets[p] = NoBucket THEN NewTokenBucket(Burst)
                    ELSE Refill(peerBuckets[p], Burst, Rate)
ByteBucket(p) == IF byteBuckets[p] = NoBucket THEN NewTokenBucket(ByteRate)
                 ELSE Refill(byteBuckets[p], ByteRate, ByteRate)
GlobalBucket == Refill(globalBucket, GlobalFactor * Burst, GlobalFactor * Rate)

Init == /\ peerBuckets = [p \in Peers |-> NoBucket]
        /\ byteBuckets = [p \in Peers |-> NoBucket]
        /\ now = 0
        /\ globalBucket = [tokens |-> GlobalFactor * Burst, lastRefill |-> 0]
        /\ connections = [p \in Peers |-> 0]
        /\ winStart = 0
        /\ granted = [p \in Peers |-> 0]
        /\ bytes = [p \in Peers |-> 0]
        /\ total = 0
        /\ resets = [p \in Peers |-> 0]
        /\ forgotten = [p \in Peers |-> 0]
        /\ open = [p \in Peers |-> 0]
-----------------------------------------------------------------------------
(* AllowRequest. The global token is taken even when the peer's own bucket *)
(* then refuses the request.                                               *)
AllowRequest(p) ==
    /\ globalBucket' = Take(GlobalBucket, 1)
    /\ \/ /\ GlobalBucket.tokens < 1
          /\ UNCHANGED <<peerBuckets, granted, total>>
       \/ /\ GlobalBucket.tokens >= 1
          /\ peerBuckets' = [peerBuckets EXCEPT ![p] = Take(RequestBucket(p), 1)]
          /\ IF RequestBucket(p).tokens >= 1
             THEN granted' = [granted EXCEPT ![p] = @ + 1] /\ total' = total + 1
             ELSE UNCHANGED <<granted, total>>
    /\ UNCHANGED <<byteBuckets, connections, now, winStart, bytes, resets, forgotten,
                   open>>

(* AllowBytes *)
AllowBytes(p, n) ==
    /\ byteBuckets' = [byteBuckets EXCEPT ![p] = Take(ByteBucket(p), n)]
    /\ bytes' = [bytes EXCEPT ![p] = IF ByteBucket(p).tokens >= n THEN @ + n ELSE @]
    /\ UNCHANGED <<peerBuckets, globalBucket, connections, now, winStart, granted, total,
                   resets, forgotten, open>>

(* AllowConnection; a refused peer opens no connection. *)
AllowConnection(p) ==
    /\ connections[p] < MaxConns
    /\ open[p] < MaxOpen
    /\ connections' = [connections EXCEPT ![p] = @ + 1]
    /\ open' = [open EXCEPT ![p] = @ + 1]
    /\ UNCHANGED <<buckets, now, history>>

(* Mutant: the last slot is never given back (> 1 for > 0). *)
ReleaseButLast(p) ==
    /\ open[p] > 0
    /\ connections' = [connections EXCEPT ![p] = IF @ > 1 THEN @ - 1 ELSE @]
    /\ open' = [open EXCEPT ![p] = @ - 1]
    /\ UNCHANGED <<buckets, now, history>>

(* ReleaseConnection, called once for every connection that was allowed. *)
ReleaseConnection(p) ==
    /\ open[p] > 0
    /\ connections' = [connections EXCEPT ![p] = IF @ > 0 THEN @ - 1 ELSE @]
    /\ open' = [open EXCEPT ![p] = @ - 1]
    /\ UNCHANGED <<buckets, now, history>>

(* WaitForRequest and GetPeerStats only report, but they refill. *)
WaitForRequest(p) ==
    /\ peerBuckets[p] # NoBucket
    /\ peerBuckets' = [peerBuckets EXCEPT ![p] = RequestBucket(p)]
    /\ UNCHANGED <<byteBuckets, globalBucket, connections, now, history, open>>

GetPeerStats(p) ==
    /\ peerBuckets' = [peerBuckets EXCEPT ![p] = IF @ = NoBucket THEN @ ELSE RequestBucket(p)]
    /\ byteBuckets' = [byteBuckets EXCEPT ![p] = IF @ = NoBucket THEN @ ELSE ByteBucket(p)]
    /\ UNCHANGED <<globalBucket, connections, now, history, open>>

(* Mutant: the age of a bucket is not looked at. *)
StaleAtOnce(p) == peerBuckets[p] # NoBucket

(* Cleanup: the age of the request bucket decides over all data of a peer. *)
Stale(p) == peerBuckets[p] # NoBucket /\ now - peerBuckets[p].lastRefill > MaxAge

Cleanup ==
    /\ peerBuckets' = [p \in Peers |-> IF Stale(p) THEN NoBucket ELSE peerBuckets[p]]
    /\ byteBuckets' = [p \in Peers |-> IF Stale(p) THEN NoBucket ELSE byteBuckets[p]]
    /\ connections' = [p \in Peers |-> IF Stale(p) THEN 0 ELSE connections[p]]
    /\ forgotten' = [p \in Peers |-> IF Stale(p) /\ byteBuckets[p] # NoBucket
                                     THEN forgotten[p] + 1 ELSE forgotten[p]]
    /\ UNCHANGED <<globalBucket, now, winStart, granted, bytes, total, resets, open>>

(* Reset of one peer and ResetAll. *)
ResetPeers(S) ==
    /\ \A p \in S : resets[p] < MaxResets
    /\ peerBuckets' = [p \in Peers |-> IF p \in S THEN NoBucket ELSE peerBuckets[p]]
    /\ byteBuckets' = [p \in Peers |-> IF p \in S THEN NoBucket ELSE byteBuckets[p]]
    /\ connections' = [p \in Peers |-> IF p \in S THEN 0 ELSE connections[p]]
    /\ resets' = [p \in Peers |-> IF p \in S THEN resets[p] + 1 ELSE resets[p]]
    /\ UNCHANGED <<globalBucket, now, winStart, granted, bytes, total, forgotten, open>>

Reset(p) == ResetPeers({p})
ResetAll == ResetPeers(Peers)

Tick == /\ now < MaxNow
        /\ now' = now + 1
        /\ UNCHANGED <<buckets, connections, history, open>>

(* An observer starts to count, at any time. *)
OpenWindow == /\ winStart' = now
              /\ granted' = [p \in Peers |-> 0]
              /\ bytes' = [p \in Peers |-> 0]
              /\ total' = 0
              /\ resets' = [p \in Peers |-> 0]
              /\ forgotten' = [p \in Peers |-> 0]
              /\ UNCHANGED <<buckets, connections, now, open>>

Next == \/ \E p \in Peers : \/ AllowRequest(p)
                            \/ \E n \in ByteSizes : AllowBytes(p, n)
                            \/ AllowConnection(p)
                            \/ ReleaseConnection(p)
                            \/ WaitForRequest(p)
                            \/ GetPeerStats(p)
                            \/ Reset(p)
        \/ Cleanup
        \/ ResetAll
        \/ Tick
        \/ OpenWindow

Spec == Init /\ [][Next]_vars
-----------------------------------------------------------------------------
(* Type invariant: buckets never hold more tokens than their capacity nor  *)
(* were refilled in the future.                                            *)
TypeOK ==
    /\ now \in Nat /\ winStart \in 0..now /\ total \in Nat
    /\ globalBucket \in [tokens: 0..(GlobalFactor * Burst), lastRefill: 0..now]
    /\ peerBuckets \in [Peers -> [tokens: 0..Burst, lastRefill: 0..now] \cup {NoBucket}]
    /\ byteBuckets \in [Peers -> [tokens: 0..ByteRate, lastRefill: 0..now] \cup {NoBucket}]
    /\ connections \in [Peers -> 0..MaxConns]
    /\ granted \in [Peers -> Nat] /\ bytes \in [Peers -> Nat]
    /\ resets \in [Peers -> Nat] /\ forgotten \in [Peers -> Nat]
    /\ open \in [Peers -> Nat]

(* The promise of the limiter, for the requests of a peer: in any window   *)
(* of time at most the burst and the rate times the length of the window   *)
(* are allowed, and one more burst for every administrative Reset.  That   *)
(* Cleanup deletes an idle peer's bucket, and AllowRequest then starts a   *)
(* full one, gives no peer more.                                           *)
RequestWindowBound ==
    \A p \in Peers : granted[p] <= Burst * (1 + resets[p]) + Rate * (now - winStart)

(* The same for the requests of all peers together; no Reset, of one peer  *)
(* or of all, touches the global bucket.                                   *)
GlobalWindowBound ==
    total <= GlobalFactor * Burst + GlobalFactor * Rate * (now - winStart)

(* AllowConnection and ReleaseConnection never leak a slot: whatever       *)
(* Cleanup and Reset do to the counter in between, it never exceeds the    *)
(* connections that are open, so a peer that closed all its connections    *)
(* can open MaxConns again.                                                *)
NoSlotLeak == \A p \in Peers : connections[p] <= open[p]

(* The bytes of a peer obey a weaker bound: Cleanup deletes a byte bucket  *)
(* by the age of the request bucket, so that one in use may go, and every  *)
(* such deletion is worth one more burst; nothing else is.                 *)
ByteWindowBound ==
    \A p \in Peers : bytes[p] <= ByteRate * (1 + resets[p] + forgotten[p])
                                 + ByteRate * (now - winStart)
=============================================================================
