-------------------------- MODULE RateLimitProofs --------------------------
(***************************************************************************)
(* The rate limiter keeps its promises for any number of clients, requests *)
(* and sweeps at a time, any configuration and any timeouts.               *)
(***************************************************************************)
EXTENDS RateLimit, FiniteSetTheorems, TLAPS

-----------------------------------------------------------------------------
(* The inductive invariant *)

CountersOK ==
    /\ rps \in Nat \ {0} /\ burst \in Nat \ {0}
    /\ opsSince \in 0..MaxRequests
    /\ lastSweep \in {-SweepInterval - 1} \cup 0..MaxTime
    /\ now \in 0..MaxTime /\ requests \in 0..MaxRequests
    /\ opsSince <= requests

TablesOK ==
    /\ buckets \in [Host -> EntryId \cup {NULL}]
    /\ entries \in [EntryId -> Entry]
    /\ admitted \in [Host -> Nat]
    /\ served \subseteq Host /\ wentIdle \subseteq Host

ThreadsOK ==
    /\ pc \in [Goroutine -> {"idle", "lookup", "touch", "allow"}]
    /\ request \in [Goroutine -> Arrivals \cup {NULL}]
    /\ entry \in [Goroutine -> EntryId \cup {NULL}]
    /\ \A g \in Goroutine : /\ pc[g] # "idle" <=> request[g] # NULL
                            /\ pc[g] \in {"touch", "allow"} <=> entry[g] # NULL

SweepsOK ==
    sweeps \in [Sweeper -> [pc : {"idle", "start", "range", "delete", "reset"},
                            cutoff : Int, left : SUBSET Host, key : Host \cup {NULL}]]

(* Entry i is the bucket of key k: in the map, or in the hands of a request. *)
Holds(i, k) == \/ buckets[k] = i
               \/ \E g \in Goroutine : entry[g] = i /\ BucketKey(request[g]) = k

(* No two clients share a bucket, and the requests of one client share one *)
(* unless it went idle.                                                    *)
OwnerInv ==
    /\ \A i \in EntryId : \A h, k \in Host : Holds(i, h) /\ Holds(i, k) => h = k
    /\ \A g \in Goroutine :
         entry[g] # NULL /\ BucketKey(request[g]) \notin wentIdle =>
           buckets[BucketKey(request[g])] = entry[g]

(* No entry is ahead of the clock, and one that was drawn from in this     *)
(* second has let a request through in it.                                 *)
ClockInv == \A i \in EntryId : entries[i].last <= now /\ entries[i].lastSeen <= now

ServedInv ==
    \A i \in EntryId : \A k \in Host :
      Holds(i, k) /\ entries[i].last = now /\ entries[i].tokens < burst => k \in served

(* What was let through and what is left is what the bucket has been given. *)
CreditInv ==
    \A h \in Host \ (TrustedProxies \cup wentIdle) :
      /\ buckets[h] = NULL => admitted[h] = 0
      /\ buckets[h] # NULL =>
           admitted[h] + entries[buckets[h]].tokens
             <= burst + rps * entries[buckets[h]].last

IdleInv == \A h \in Host : IsIdle(h, now - IdleTimeout) => h \in wentIdle

(* A sweep deletes only keys that went idle, and has missed none so far. *)
SweepInv(s) ==
    /\ sweeps[s].pc \in {"range", "delete"} =>
         /\ sweeps[s].cutoff <= now - IdleTimeout
         /\ \A h \in Host : IsIdle(h, sweeps[s].cutoff) =>
              h \in sweeps[s].left \/ (sweeps[s].pc = "delete" /\ h = sweeps[s].key)
    /\ sweeps[s].pc = "delete" => sweeps[s].key \in wentIdle

RateInv ==
    /\ CountersOK /\ TablesOK /\ ThreadsOK /\ SweepsOK
    /\ OwnerInv /\ ClockInv /\ ServedInv /\ CreditInv /\ IdleInv
    /\ \A s \in Sweeper : SweepInv(s)
    /\ NoIdleStorm

-----------------------------------------------------------------------------
(* Arithmetic *)

LEMMA TimesNat == ASSUME NEW a \in Nat, NEW b \in Nat PROVE a * b \in Nat
OBVIOUS

LEMMA TimesMono ==
  ASSUME NEW a \in Nat, NEW b \in Nat, NEW c \in Nat, b <= c
  PROVE  a * b <= a * c
<1>1. a * (c - b) \in Nat
  BY TimesNat
<1>2. a * (c - b) = a * c - a * b
  OBVIOUS
<1> QED
  BY <1>1, <1>2

(* The bucket at time now: what it holds, and when it is empty. *)
LEMMA TokensNow ==
  ASSUME CountersOK, NEW e \in Entry, e.last <= now
  PROVE  /\ TokensAt(e, now) \in Nat
         /\ TokensAt(e, now) <= burst
         /\ TokensAt(e, now) <= e.tokens + rps * now - rps * e.last
         /\ TokensAt(e, now) < 1 => e.last = now /\ e.tokens < burst
<1> DEFINE d == now - e.last
           refill == rps * d
<1>1. /\ e.tokens \in Nat /\ e.last \in Nat /\ now \in Nat /\ d \in Nat
      /\ rps \in Nat /\ rps >= 1 /\ burst \in Nat /\ burst >= 1
  BY RateLimitAssumption DEF CountersOK, Entry
<1>2. refill \in Nat
  BY <1>1, TimesNat
<1> DEFINE full == rps * now
           spent == rps * e.last
<1>3. refill = full - spent
  BY <1>1
<1>4. d >= 1 => refill >= 1
  <2>1. SUFFICES ASSUME d >= 1 PROVE refill >= 1
    OBVIOUS
  <2>2. rps * 1 <= rps * d
    BY <1>1, <2>1, TimesMono
  <2> QED
    BY <1>1, <2>2
<1>5. d = 0 => refill = 0
  BY <1>1
<1>6. full \in Int /\ spent \in Int
  BY <1>1
<1>7. TokensAt(e, now) = IF e.tokens + refill > burst THEN burst ELSE e.tokens + refill
  BY DEF TokensAt
<1>8. d = now - e.last
  OBVIOUS
<1> HIDE DEF refill, full, spent, d
<1>9. TokensAt(e, now) \in Nat /\ TokensAt(e, now) <= burst
  BY <1>1, <1>2, <1>7
<1>10. TokensAt(e, now) <= e.tokens + full - spent
  BY <1>1, <1>2, <1>3, <1>6, <1>7
<1>11. TokensAt(e, now) < 1 => e.last = now /\ e.tokens < burst
  <2>1. SUFFICES ASSUME TokensAt(e, now) < 1 PROVE e.last = now /\ e.tokens < burst
    OBVIOUS
  <2>2. refill < 1 /\ e.tokens < 1
    BY <1>1, <1>2, <1>7, <2>1
  <2>3. d = 0
    BY <1>1, <1>2, <1>4, <2>2
  <2> QED
    BY <1>1, <1>8, <2>2, <2>3
<1> QED
  BY <1>9, <1>10, <1>11 DEF full, spent

-----------------------------------------------------------------------------
(* The key of a request is an address, and the peer's own unless the peer  *)
(* is trusted.                                                             *)
LEMMA KeyOfRequest ==
  ASSUME NEW r \in Arrivals
  PROVE  /\ BucketKey(r) \in Host
         /\ r.peer \in Host
         /\ r.peer \notin TrustedProxies => BucketKey(r) = r.peer
<1>1. r \in [peer : Host, forwarded : Host \cup {NULL, Blank}, real : Host \cup {NULL}]
  BY RateLimitAssumption
<1> QED
  BY <1>1 DEF BucketKey, GetRealIP

LEMMA KeyOfGoroutine ==
  ASSUME ThreadsOK, NEW g \in Goroutine, pc[g] # "idle"
  PROVE  request[g] \in Arrivals /\ BucketKey(request[g]) \in Host
BY KeyOfRequest DEF ThreadsOK

(* There is always an entry that nothing refers to. *)
LEMMA FreshEntry ==
  ASSUME TablesOK, ThreadsOK
  PROVE  EntryId \ Referenced(buckets, entry) # {}
<1> DEFINE A == {buckets[h] : h \in Host}
           B == {entry[g] : g \in Goroutine}
           a == Cardinality(Host)
           b == Cardinality(Goroutine)
<1>1. IsFiniteSet(A) /\ Cardinality(A) <= a
  <2>1. buckets \in Surjection(Host, A)
    BY DEF TablesOK, Surjection
  <2> QED
    BY <2>1, FS_Surjection, RateLimitAssumption
<1>2. IsFiniteSet(B) /\ Cardinality(B) <= b
  <2>1. entry \in Surjection(Goroutine, B)
    BY DEF ThreadsOK, Surjection
  <2> QED
    BY <2>1, FS_Surjection, RateLimitAssumption
<1>3. a \in Nat /\ b \in Nat /\ Cardinality(A) \in Nat /\ Cardinality(B) \in Nat
  BY <1>1, <1>2, FS_CardinalityType, RateLimitAssumption
<1>4. IsFiniteSet(A \cup B) /\ Cardinality(A \cup B) <= a + b
  <2>1. IsFiniteSet(A \cap B)
    BY <1>1, FS_Subset
  <2>2. Cardinality(A \cap B) \in Nat
    BY <2>1, FS_CardinalityType
  <2>3. /\ IsFiniteSet(A \cup B)
        /\ Cardinality(A \cup B) = Cardinality(A) + Cardinality(B) - Cardinality(A \cap B)
    BY <1>1, <1>2, FS_Union
  <2> HIDE DEF A, B, a, b
  <2> QED
    BY <1>1, <1>2, <1>3, <2>2, <2>3
<1>5. Cardinality(EntryId) = a + b + 1
  BY <1>3, FS_Interval DEF EntryId
<1>6. ASSUME EntryId \subseteq A \cup B PROVE FALSE
  <2>1. Cardinality(EntryId) <= Cardinality(A \cup B)
    BY <1>4, <1>6, FS_Subset
  <2>2. Cardinality(A \cup B) \in Nat
    BY <1>4, FS_CardinalityType
  <2> HIDE DEF A, B, a, b
  <2> QED
    BY <1>3, <1>4, <1>5, <2>1, <2>2
<1> QED
  BY <1>6 DEF Referenced

(* Initially nobody has been here. *)
LEMMA RateInitInv == Init => RateInv
<1> SUFFICES ASSUME Init PROVE RateInv
  OBVIOUS
<1>1. CountersOK
  <2>1. PICK cfg \in Configs : cfg.Requests > 0 /\ rps \in Rps(cfg) /\ burst = cfg.Requests
    BY DEF Init
  <2>2. cfg.Requests \in Int /\ cfg.Duration \in Int
    BY RateLimitAssumption
  <2>3. RatePerSec(cfg) \subseteq Int
    BY <2>2 DEF RatePerSec, MaxInt
  <2>4. rps \in Nat \ {0}
    BY <2>1, <2>3 DEF Rps
  <2> QED
    BY <2>1, <2>2, <2>4, RateLimitAssumption DEF Init, CountersOK
<1>2. TablesOK
  BY RateLimitAssumption DEF Init, TablesOK, Garbage, Entry
<1>3. ThreadsOK
  BY DEF Init, ThreadsOK
<1>4. SweepsOK
  BY DEF Init, SweepsOK, NoSweep
<1>5. EntryId \subseteq Nat
  BY FS_CardinalityType, RateLimitAssumption DEF EntryId
<1>6. \A i \in EntryId : \A k \in Host : ~Holds(i, k)
  BY <1>5, RateLimitAssumption DEF Init, Holds
<1>7. OwnerInv /\ ServedInv
  BY <1>6 DEF Init, OwnerInv, ServedInv
<1>8. ClockInv /\ CreditInv /\ IdleInv
  BY DEF Init, ClockInv, CreditInv, IdleInv, IsIdle, Garbage
<1>9. \A s \in Sweeper : SweepInv(s)
  BY DEF Init, SweepInv, NoSweep
<1>10. NoIdleStorm
  BY RateLimitAssumption DEF Init, NoIdleStorm
<1> QED
  BY <1>1, <1>2, <1>3, <1>4, <1>7, <1>8, <1>9, <1>10 DEF RateInv

LEMMA EntryIds == EntryId \subseteq Nat /\ NULL \notin EntryId
BY FS_CardinalityType, RateLimitAssumption DEF EntryId

-----------------------------------------------------------------------------
(* One lemma per action. *)

LEMMA ArriveInv ==
  ASSUME RateInv, NEW g \in Goroutine, Arrive(g)
  PROVE  RateInv'
<1> USE RateLimitAssumption DEF RateInv
<1>1. PICK r \in Arrivals : request' = [request EXCEPT ![g] = r]
  BY DEF Arrive
<1>2. /\ pc[g] = "idle" /\ pc' = [pc EXCEPT ![g] = "lookup"]
      /\ requests < MaxRequests /\ requests' = requests + 1 /\ opsSince' = opsSince + 1
      /\ UNCHANGED <<rps, burst, buckets, entries, lastSweep, now, entry, admitted, served,
                     wentIdle>>
  BY DEF Arrive
<1>3. \/ SweepDue /\ \E s \in Sweeper : sweeps[s].pc = "idle"
                                        /\ sweeps' = [sweeps EXCEPT ![s].pc = "start"]
      \/ ~SweepDue /\ UNCHANGED sweeps
  BY DEF Arrive
<1>4. CountersOK'
  BY <1>2 DEF CountersOK
<1>5. TablesOK'
  BY <1>2 DEF TablesOK
<1>6. ThreadsOK' /\ entry[g] = NULL
  BY <1>1, <1>2 DEF ThreadsOK
<1>7. SweepsOK'
  BY <1>3 DEF SweepsOK
<1>8. \A q \in Goroutine : entry'[q] # NULL => q # g /\ request'[q] = request[q]
  BY <1>1, <1>2, <1>6 DEF ThreadsOK
<1>9. \A i \in EntryId, k \in Host : Holds(i, k)' => Holds(i, k)
  BY <1>2, <1>8, EntryIds DEF Holds
<1>10. OwnerInv'
  BY <1>2, <1>8, <1>9 DEF OwnerInv
<1>11. ServedInv' /\ ClockInv' /\ CreditInv' /\ IdleInv'
  BY <1>2, <1>9 DEF ServedInv, ClockInv, CreditInv, IdleInv, IsIdle
<1>12. ASSUME NEW s \in Sweeper PROVE SweepInv(s)'
  <2>1. sweeps'[s] = sweeps[s] \/ sweeps'[s].pc = "start"
    BY <1>3 DEF SweepsOK
  <2> QED
    BY <1>2, <2>1 DEF SweepInv, IsIdle
<1>13. NoIdleStorm'
  BY <1>2, <1>3 DEF NoIdleStorm, SweepDue, SweepsOK, CountersOK
<1> QED
  BY <1>4, <1>5, <1>6, <1>7, <1>10, <1>11, <1>12, <1>13

(* LoadOrStore finds the entry of the key. *)
LEMMA LoadInv ==
  ASSUME RateInv, NEW g \in Goroutine, pc[g] = "lookup",
         buckets[BucketKey(request[g])] # NULL,
         entry' = [entry EXCEPT ![g] = buckets[BucketKey(request[g])]],
         pc' = [pc EXCEPT ![g] = "touch"],
         UNCHANGED <<rps, burst, buckets, entries, opsSince, lastSweep, now, request,
                     sweeps, requests, admitted, served, wentIdle>>
  PROVE  RateInv'
<1> DEFINE key == BucketKey(request[g])
<1> USE DEF RateInv
<1>1. key \in Host /\ buckets[key] \in EntryId /\ entry[g] = NULL
  BY KeyOfGoroutine DEF TablesOK, ThreadsOK
<1>2. CountersOK' /\ TablesOK' /\ SweepsOK'
  BY DEF CountersOK, TablesOK, SweepsOK
<1>3. ThreadsOK'
  BY <1>1, EntryIds DEF ThreadsOK
<1>4. \A q \in Goroutine : entry'[q] = IF q = g THEN buckets[key] ELSE entry[q]
  BY DEF ThreadsOK
<1>5. \A i \in EntryId, k \in Host : Holds(i, k)' => Holds(i, k)
  BY <1>1, <1>4 DEF Holds
<1>6. OwnerInv'
  BY <1>4, <1>5 DEF OwnerInv
<1>7. ServedInv' /\ ClockInv' /\ CreditInv' /\ IdleInv'
  BY <1>5 DEF ServedInv, ClockInv, CreditInv, IdleInv, IsIdle
<1>8. \A s \in Sweeper : SweepInv(s)'
  BY DEF SweepInv, IsIdle
<1>9. NoIdleStorm'
  BY DEF NoIdleStorm
<1> QED
  BY <1>2, <1>3, <1>6, <1>7, <1>8, <1>9

(* LoadOrStore stores a full bucket. *)
LEMMA StoreInv ==
  ASSUME RateInv, NEW g \in Goroutine, pc[g] = "lookup",
         buckets[BucketKey(request[g])] = NULL,
         StoreEntry(g), pc' = [pc EXCEPT ![g] = "touch"],
         UNCHANGED <<rps, burst, opsSince, lastSweep, now, request, sweeps, requests,
                     admitted, served, wentIdle>>
  PROVE  RateInv'
<1> DEFINE key == BucketKey(request[g])
<1> USE DEF RateInv
<1>1. key \in Host /\ entry[g] = NULL
  BY KeyOfGoroutine DEF TablesOK, ThreadsOK
<1>2. PICK new \in EntryId \ Referenced(buckets, entry) :
        /\ entries' = [entries EXCEPT ![new] = mkEntry]
        /\ buckets' = [buckets EXCEPT ![key] = new]
        /\ entry' = [entry EXCEPT ![g] = new]
  BY FreshEntry DEF StoreEntry
<1>3. /\ \A h \in Host : buckets[h] # new
      /\ \A q \in Goroutine : entry[q] # new
  BY <1>2 DEF Referenced
<1>4. /\ \A h \in Host : buckets'[h] = IF h = key THEN new ELSE buckets[h]
      /\ \A q \in Goroutine : entry'[q] = IF q = g THEN new ELSE entry[q]
      /\ \A i \in EntryId : entries'[i] = IF i = new THEN mkEntry ELSE entries[i]
  BY <1>2 DEF TablesOK, ThreadsOK
<1>5. /\ mkEntry.tokens = burst /\ mkEntry.last = now /\ mkEntry.lastSeen = now
      /\ mkEntry \in Entry /\ now \in Int /\ burst \in Nat
  BY DEF mkEntry, Entry, CountersOK
<1>6. CountersOK' /\ SweepsOK'
  BY DEF CountersOK, SweepsOK
<1>7. TablesOK'
  BY <1>2, <1>5 DEF TablesOK
<1>8. ThreadsOK'
  BY <1>2, EntryIds DEF ThreadsOK
<1>9. \A i \in EntryId, k \in Host : Holds(i, k)' =>
        IF i = new THEN k = key ELSE Holds(i, k)
  BY <1>3, <1>4 DEF Holds
<1>10. OwnerInv'
  <2>1. \A i \in EntryId : \A h, k \in Host : Holds(i, h)' /\ Holds(i, k)' => h = k
    BY <1>9 DEF OwnerInv
  <2>2. ASSUME NEW q \in Goroutine, entry'[q] # NULL, BucketKey(request[q]) \notin wentIdle
        PROVE  buckets'[BucketKey(request[q])] = entry'[q]
    <3>1. CASE q = g
      BY <1>1, <1>4, <3>1
    <3>2. CASE q # g
      <4>1. entry[q] # NULL /\ buckets[BucketKey(request[q])] = entry[q]
        BY <1>4, <2>2, <3>2 DEF OwnerInv
      <4>2. BucketKey(request[q]) \in Host
        BY <4>1, KeyOfGoroutine DEF ThreadsOK
      <4> QED
        BY <1>4, <3>2, <4>1, <4>2
    <3> QED
      BY <3>1, <3>2
  <2> QED
    BY <2>1, <2>2 DEF OwnerInv
<1>11. ClockInv'
  BY <1>4, <1>5 DEF ClockInv
<1>12. ServedInv'
  BY <1>4, <1>5, <1>9 DEF ServedInv
<1>13. CreditInv'
  <2> SUFFICES ASSUME NEW h \in Host \ (TrustedProxies \cup wentIdle)
               PROVE  /\ buckets'[h] = NULL => admitted[h] = 0
                      /\ buckets'[h] # NULL =>
                           admitted[h] + entries'[buckets'[h]].tokens
                             <= burst + rps * entries'[buckets'[h]].last
    BY DEF CreditInv
  <2>1. CASE h = key
    <3>1. admitted[h] = 0 /\ entries'[buckets'[h]] = mkEntry /\ buckets'[h] # NULL
      BY <1>4, <1>2, <2>1, EntryIds DEF CreditInv
    <3>2. rps * now \in Nat
      BY TimesNat DEF CountersOK
    <3> QED
      BY <1>5, <3>1, <3>2
  <2>2. CASE h # key
    BY <1>3, <1>4, <2>2 DEF CreditInv, TablesOK
  <2> QED
    BY <2>1, <2>2
<1>14. ASSUME NEW h \in Host, NEW c \in Int, c <= now, IsIdle(h, c)' PROVE IsIdle(h, c)
  BY <1>3, <1>4, <1>5, <1>14 DEF IsIdle, TablesOK
<1>15. IdleInv'
  BY <1>5, <1>14, RateLimitAssumption DEF IdleInv
<1>16. \A s \in Sweeper : SweepInv(s)'
  BY <1>5, <1>14, RateLimitAssumption DEF SweepInv, SweepsOK
<1>17. NoIdleStorm'
  BY DEF NoIdleStorm
<1> QED
  BY <1>6, <1>7, <1>8, <1>10, <1>11, <1>12, <1>13, <1>15, <1>16, <1>17

LEMMA LookupInv ==
  ASSUME RateInv, NEW g \in Goroutine, Lookup(g)
  PROVE  RateInv'
<1>1. CASE buckets[BucketKey(request[g])] = NULL
  BY <1>1, StoreInv DEF Lookup, historyVars
<1>2. CASE buckets[BucketKey(request[g])] # NULL
  BY <1>2, LoadInv DEF Lookup, historyVars
<1> QED
  BY <1>1, <1>2

LEMMA TouchInv ==
  ASSUME RateInv, NEW g \in Goroutine, Touch(g)
  PROVE  RateInv'
<1> USE DEF RateInv
<1>1. /\ pc[g] = "touch" /\ pc' = [pc EXCEPT ![g] = "allow"]
      /\ entries' = [entries EXCEPT ![entry[g]].lastSeen = now]
      /\ UNCHANGED <<rps, burst, buckets, opsSince, lastSweep, now, request, entry, sweeps,
                     requests, admitted, served, wentIdle>>
  BY DEF Touch, historyVars
<1>2. entry[g] \in EntryId /\ now \in 0..MaxTime /\ now \in Int
  BY <1>1, RateLimitAssumption DEF ThreadsOK, CountersOK
<1>3. \A i \in EntryId : /\ entries'[i].tokens = entries[i].tokens
                         /\ entries'[i].last = entries[i].last
                         /\ entries'[i].lastSeen \in {entries[i].lastSeen, now}
                         /\ entries[i].lastSeen \in Int
  BY <1>1 DEF TablesOK, Entry
<1>4. CountersOK' /\ SweepsOK' /\ ThreadsOK'
  BY <1>1 DEF CountersOK, SweepsOK, ThreadsOK
<1>5. TablesOK'
  BY <1>1, <1>2 DEF TablesOK, Entry
<1>6. \A i \in EntryId, k \in Host : Holds(i, k)' <=> Holds(i, k)
  BY <1>1 DEF Holds
<1>7. OwnerInv'
  BY <1>1, <1>6 DEF OwnerInv
<1>8. ServedInv'
  BY <1>1, <1>3, <1>6 DEF ServedInv
<1>9. ClockInv'
  BY <1>1, <1>2, <1>3 DEF ClockInv
<1>10. CreditInv'
  BY <1>1, <1>3 DEF CreditInv, TablesOK
<1>11. ASSUME NEW h \in Host, NEW c \in Int, c <= now, IsIdle(h, c)' PROVE IsIdle(h, c)
  BY <1>1, <1>2, <1>3, <1>11 DEF IsIdle, TablesOK
<1>12. IdleInv'
  BY <1>1, <1>2, <1>11, RateLimitAssumption DEF IdleInv
<1>13. \A s \in Sweeper : SweepInv(s)'
  BY <1>1, <1>2, <1>11, RateLimitAssumption DEF SweepInv, SweepsOK
<1>14. NoIdleStorm'
  BY <1>1 DEF NoIdleStorm
<1> QED
  BY <1>4, <1>5, <1>7, <1>8, <1>9, <1>10, <1>12, <1>13, <1>14

(* Allow leaves the bucket one token shorter, or, when it was empty, as it *)
(* was; either way the key has been let through in this second.            *)
LEMMA AllowStep ==
  ASSUME RateInv, NEW g \in Goroutine, Allow(g)
  PROVE  LET key == BucketKey(request[g])
             mine == entry[g]
             e == entries[mine]
             t == TokensAt(e, now)
         IN  /\ pc[g] = "allow" /\ pc' = [pc EXCEPT ![g] = "idle"]
             /\ entry' = [entry EXCEPT ![g] = NULL]
             /\ request' = [request EXCEPT ![g] = NULL]
             /\ UNCHANGED <<rps, burst, buckets, opsSince, lastSweep, now, sweeps,
                            requests, wentIdle>>
             /\ key \in Host /\ mine \in EntryId /\ Holds(mine, key) /\ e \in Entry
             /\ t \in Nat /\ t <= burst
             /\ t <= e.tokens + rps * now - rps * e.last
             /\ key \in served' /\ served' \subseteq served \cup {key}
             /\ \E after \in [EntryId -> Entry] :
                  /\ entries' = Collect(after, buckets, entry')
                  /\ \A i \in EntryId \ {mine} : after[i] = entries[i]
                  /\ after[mine].lastSeen = e.lastSeen
                  /\ \/ /\ after[mine] = e
                        /\ UNCHANGED <<admitted, served>>
                     \/ /\ after[mine].tokens = t - 1 /\ after[mine].last = now
                        /\ served' = served \cup {key}
                        /\ admitted' \in [Host -> Nat]
                        /\ \A h \in Host \ TrustedProxies :
                             admitted'[h] = IF h = request[g].peer THEN admitted[h] + 1
                                                                   ELSE admitted[h]
<1> DEFINE key == BucketKey(request[g])
           mine == entry[g]
           e == entries[mine]
           t == TokensAt(e, now)
           spent == [entries EXCEPT ![mine].tokens = t - 1, ![mine].last = now]
           direct == {request[g].peer} \ TrustedProxies
<1> USE DEF RateInv
<1>1. /\ pc[g] = "allow" /\ pc' = [pc EXCEPT ![g] = "idle"]
      /\ entry' = [entry EXCEPT ![g] = NULL]
      /\ request' = [request EXCEPT ![g] = NULL]
      /\ UNCHANGED <<rps, burst, buckets, opsSince, lastSweep, now, sweeps, requests,
                     wentIdle>>
  BY DEF Allow
<1>2. key \in Host /\ mine \in EntryId /\ Holds(mine, key)
  BY <1>1, KeyOfGoroutine DEF ThreadsOK, Holds
<1>3. e \in Entry /\ e.last <= now /\ now \in 0..MaxTime
  BY <1>2 DEF TablesOK, ClockInv, CountersOK
<1>4. /\ t \in Nat /\ t <= burst
      /\ t <= e.tokens + rps * now - rps * e.last
      /\ t < 1 => e.last = now /\ e.tokens < burst
  BY <1>3, TokensNow
<1>5. \/ /\ t >= 1
         /\ entries' = Collect(spent, buckets, entry')
         /\ admitted' = [h \in Host |-> IF h \in direct THEN admitted[h] + 1 ELSE admitted[h]]
         /\ served' = served \cup {key}
      \/ /\ t < 1
         /\ entries' = Collect(entries, buckets, entry')
         /\ UNCHANGED <<admitted, served>>
  BY DEF Allow
<1> HIDE DEF t
<1>6. CASE /\ t >= 1
           /\ entries' = Collect(spent, buckets, entry')
           /\ admitted' = [h \in Host |-> IF h \in direct THEN admitted[h] + 1 ELSE admitted[h]]
           /\ served' = served \cup {key}
  <2>1. /\ spent \in [EntryId -> Entry]
        /\ spent[mine].tokens = t - 1 /\ spent[mine].last = now
        /\ spent[mine].lastSeen = e.lastSeen
        /\ \A i \in EntryId \ {mine} : spent[i] = entries[i]
    BY <1>2, <1>3, <1>4, <1>6 DEF TablesOK, Entry
  <2>2. /\ admitted' \in [Host -> Nat]
        /\ \A h \in Host \ TrustedProxies :
             admitted'[h] = IF h = request[g].peer THEN admitted[h] + 1 ELSE admitted[h]
    BY <1>6 DEF TablesOK
  <2> HIDE DEF spent
  <2> QED
    BY <1>1, <1>2, <1>3, <1>4, <1>6, <2>1, <2>2 DEF t
<1>7. CASE /\ t < 1
           /\ entries' = Collect(entries, buckets, entry')
           /\ UNCHANGED <<admitted, served>>
  <2>1. key \in served
    BY <1>2, <1>4, <1>7 DEF ServedInv
  <2>2. entries \in [EntryId -> Entry]
    BY DEF TablesOK
  <2> QED
    BY <1>1, <1>2, <1>3, <1>4, <1>7, <2>1, <2>2 DEF t
<1> QED
  BY <1>5, <1>6, <1>7

(* Entries that are referred to survive the collector. *)
LEMMA CollectKeeps ==
  ASSUME NEW all \in [EntryId -> Entry], NEW bs, NEW es
  PROVE  /\ Collect(all, bs, es) \in [EntryId -> Entry]
         /\ \A i \in EntryId : Collect(all, bs, es)[i] \in {all[i], Garbage}
         /\ \A i \in EntryId \cap Referenced(bs, es) : Collect(all, bs, es)[i] = all[i]
BY RateLimitAssumption DEF Collect, Garbage, Entry

LEMMA AllowInv ==
  ASSUME RateInv, NEW g \in Goroutine, Allow(g)
  PROVE  RateInv'
<1> DEFINE key == BucketKey(request[g])
           mine == entry[g]
           e == entries[mine]
           t == TokensAt(e, now)
<1> USE DEF RateInv
<1>1. /\ pc[g] = "allow" /\ pc' = [pc EXCEPT ![g] = "idle"]
      /\ entry' = [entry EXCEPT ![g] = NULL]
      /\ request' = [request EXCEPT ![g] = NULL]
      /\ UNCHANGED <<rps, burst, buckets, opsSince, lastSweep, now, sweeps, requests,
                     wentIdle>>
  BY AllowStep
<1>2. /\ key \in Host /\ mine \in EntryId /\ Holds(mine, key) /\ e \in Entry
      /\ t \in Nat /\ t <= burst
      /\ t <= e.tokens + rps * now - rps * e.last
      /\ key \in served' /\ served' \subseteq served \cup {key}
  BY AllowStep
<1>3. PICK after \in [EntryId -> Entry] :
        /\ entries' = Collect(after, buckets, entry')
        /\ \A i \in EntryId \ {mine} : after[i] = entries[i]
        /\ after[mine].lastSeen = e.lastSeen
        /\ \/ /\ after[mine] = e
              /\ UNCHANGED <<admitted, served>>
           \/ /\ after[mine].tokens = t - 1 /\ after[mine].last = now
              /\ served' = served \cup {key}
              /\ admitted' \in [Host -> Nat]
              /\ \A h \in Host \ TrustedProxies :
                   admitted'[h] = IF h = request[g].peer THEN admitted[h] + 1
                                                         ELSE admitted[h]
  BY AllowStep
<1> HIDE DEF t
<1>4. /\ entries' \in [EntryId -> Entry]
      /\ \A i \in EntryId : entries'[i] \in {after[i], Garbage}
      /\ \A i \in EntryId \cap Referenced(buckets, entry') : entries'[i] = after[i]
  BY <1>3, CollectKeeps
<1>5. request[g] \in Arrivals
      /\ (request[g].peer \notin TrustedProxies => key = request[g].peer)
  BY <1>1, KeyOfGoroutine, KeyOfRequest DEF ThreadsOK
<1>6. CountersOK' /\ SweepsOK'
  BY <1>1 DEF CountersOK, SweepsOK
<1>7. ThreadsOK'
  BY <1>1 DEF ThreadsOK
<1>8. TablesOK'
  BY <1>1, <1>2, <1>3, <1>4 DEF TablesOK
<1>9. \A q \in Goroutine : entry'[q] # NULL => /\ q # g /\ entry'[q] = entry[q]
                                               /\ request'[q] = request[q]
  BY <1>1 DEF ThreadsOK
<1>10. \A i \in EntryId, k \in Host : Holds(i, k)' =>
         Holds(i, k) /\ entries'[i] = after[i]
  BY <1>1, <1>4, <1>9, EntryIds DEF Holds, Referenced
<1>11. OwnerInv'
  BY <1>1, <1>9, <1>10 DEF OwnerInv
<1>12. /\ now \in Nat /\ 0 <= now
       /\ \A i \in EntryId : after[i].last <= now /\ after[i].lastSeen <= now
  <2>1. now \in Nat /\ 0 <= now
    BY RateLimitAssumption DEF CountersOK
  <2> QED
    BY <1>2, <1>3, <2>1 DEF ClockInv
<1>13. ClockInv'
  BY <1>1, <1>4, <1>12 DEF ClockInv, Garbage
<1>14. ServedInv'
  <2> SUFFICES ASSUME NEW i \in EntryId, NEW k \in Host, Holds(i, k)',
                      entries'[i].last = now, entries'[i].tokens < burst
               PROVE  k \in served'
    BY <1>1 DEF ServedInv
  <2>1. Holds(i, k) /\ entries'[i] = after[i]
    BY <1>10
  <2>2. CASE i = mine
    BY <1>2, <2>1, <2>2 DEF OwnerInv
  <2>3. CASE i # mine
    BY <1>3, <2>1, <2>3 DEF ServedInv
  <2> QED
    BY <2>2, <2>3
<1>15. CreditInv'
  <2> SUFFICES ASSUME NEW h \in Host \ (TrustedProxies \cup wentIdle)
               PROVE  /\ buckets[h] = NULL => admitted'[h] = 0
                      /\ buckets[h] # NULL =>
                           admitted'[h] + entries'[buckets[h]].tokens
                             <= burst + rps * entries'[buckets[h]].last
    BY <1>1 DEF CreditInv
  <2>1. \/ buckets[h] = NULL
        \/ (buckets[h] \in EntryId /\ entries'[buckets[h]] = after[buckets[h]])
    BY <1>4 DEF TablesOK, Referenced
  <2>2. CASE admitted'[h] # admitted[h]
    <3>1. /\ admitted'[h] = admitted[h] + 1 /\ key = h
          /\ after[mine].tokens = t - 1 /\ after[mine].last = now
      BY <1>3, <1>5, <2>2
    <3>2. buckets[h] = mine /\ mine # NULL
      BY <1>2, <3>1, EntryIds DEF OwnerInv
    <3>3. admitted[h] + e.tokens <= burst + rps * e.last
      BY <3>2 DEF CreditInv
    <3>4. /\ admitted[h] \in Nat /\ e.tokens \in Nat /\ burst \in Nat
          /\ rps * e.last \in Int /\ rps * now \in Int
      BY <1>2, <1>12 DEF TablesOK, CountersOK, Entry
    <3>5. admitted[h] + 1 + (t - 1) <= burst + rps * now
      BY <1>2, <3>3, <3>4
    <3> QED
      BY <1>2, <2>1, <3>1, <3>2, <3>4, <3>5
  <2>3. CASE admitted'[h] = admitted[h] /\ buckets[h] # mine
    BY <1>3, <2>1, <2>3 DEF CreditInv
  <2>4. CASE admitted'[h] = admitted[h] /\ buckets[h] = mine
    <3>1. admitted[h] + e.tokens <= burst + rps * e.last /\ mine # NULL
      BY <1>2, <2>4, EntryIds DEF CreditInv
    <3>2. /\ admitted[h] \in Nat /\ e.tokens \in Nat /\ burst \in Nat
          /\ rps * e.last \in Int /\ rps * now \in Int
      BY <1>2, <1>12 DEF TablesOK, CountersOK, Entry
    <3>3. CASE after[mine] = e
      BY <2>1, <2>4, <3>1, <3>3
    <3>4. CASE after[mine].tokens = t - 1 /\ after[mine].last = now
      <4>1. admitted[h] + (t - 1) <= burst + rps * now
        BY <1>2, <3>1, <3>2
      <4> QED
        BY <2>1, <2>4, <3>1, <3>4, <4>1
    <3> QED
      BY <1>3, <3>3, <3>4
  <2> QED
    BY <2>2, <2>3, <2>4
<1>16. ASSUME NEW h \in Host, NEW c, IsIdle(h, c)' PROVE IsIdle(h, c)
  BY <1>1, <1>3, <1>4, <1>16 DEF IsIdle, TablesOK, Referenced
<1>17. IdleInv'
  BY <1>1, <1>16 DEF IdleInv
<1>18. \A s \in Sweeper : SweepInv(s)'
  BY <1>1, <1>16 DEF SweepInv
<1>19. NoIdleStorm'
  BY <1>1 DEF NoIdleStorm
<1> QED
  BY <1>6, <1>7, <1>8, <1>11, <1>13, <1>14, <1>15, <1>17, <1>18, <1>19

-----------------------------------------------------------------------------
(* A visit, as one assignment to the sweep's locals. *)
LEMMA VisitStep ==
  ASSUME SweepsOK, NEW s \in Sweeper, SweepVisit(s)
  PROVE  \E h \in Host, w \in [pc : {"range", "delete"}, cutoff : Int, left : SUBSET Host,
                               key : Host \cup {NULL}] :
           /\ sweeps' = [sweeps EXCEPT ![s] = w]
           /\ w.cutoff = sweeps[s].cutoff /\ w.left = sweeps[s].left \ {h}
           /\ w.pc = IF IsIdle(h, sweeps[s].cutoff) THEN "delete" ELSE "range"
           /\ w.key = IF IsIdle(h, sweeps[s].cutoff) THEN h ELSE NULL
<1> DEFINE idle(h) == IsIdle(h, sweeps[s].cutoff)
           w(h) == [pc |-> IF idle(h) THEN "delete" ELSE "range", cutoff |-> sweeps[s].cutoff,
                    left |-> sweeps[s].left \ {h}, key |-> IF idle(h) THEN h ELSE NULL]
<1>1. PICK h \in sweeps[s].left : sweeps' = [sweeps EXCEPT ![s] = w(h)]
  BY DEF SweepVisit
<1>2. h \in Host /\ sweeps[s].left \subseteq Host /\ sweeps[s].cutoff \in Int
  BY DEF SweepsOK
<1> HIDE DEF idle
<1>3. w(h) \in [pc : {"range", "delete"}, cutoff : Int, left : SUBSET Host,
               key : Host \cup {NULL}]
  BY <1>2
<1> QED
  BY <1>1, <1>2, <1>3 DEF idle

(* The steps of a sweep that leave the map alone. *)
LEMMA SweepWalkInv ==
  ASSUME RateInv, NEW s \in Sweeper,
         SweepStart(s) \/ SweepVisit(s) \/ SweepMark(s) \/ SweepReset(s)
  PROVE  RateInv'
<1> USE RateLimitAssumption DEF RateInv
<1>1. /\ UNCHANGED <<rps, burst, buckets, entries, now, pc, request, entry, requests, admitted,
                     served, wentIdle>>
      /\ opsSince' = opsSince \/ (opsSince' = 0 /\ sweeps[s].pc = "reset")
      /\ lastSweep' \in {lastSweep, now}
  BY DEF SweepStart, SweepVisit, SweepMark, SweepReset, limiterVars, historyVars
<1>2. SweepsOK'
  <2>1. CASE SweepVisit(s)
    BY <2>1, VisitStep DEF SweepsOK
  <2>2. CASE SweepStart(s)
    BY <2>2 DEF SweepStart, SweepsOK, CountersOK
  <2>3. CASE SweepMark(s) \/ SweepReset(s)
    BY <2>3 DEF SweepMark, SweepReset, SweepsOK, NoSweep
  <2> QED
    BY <2>1, <2>2, <2>3
<1>3. CountersOK'
  BY <1>1 DEF CountersOK
<1>4. TablesOK' /\ ThreadsOK'
  BY <1>1 DEF TablesOK, ThreadsOK
<1>5. OwnerInv' /\ ClockInv' /\ ServedInv' /\ CreditInv' /\ IdleInv'
  BY <1>1 DEF OwnerInv, ClockInv, ServedInv, CreditInv, IdleInv, Holds, IsIdle
<1>6. \A q \in Sweeper \ {s} : sweeps'[q] = sweeps[q]
  BY DEF SweepStart, SweepVisit, SweepMark, SweepReset, SweepsOK
<1>7. \A q \in Sweeper \ {s} : SweepInv(q)'
  BY <1>1, <1>6 DEF SweepInv, IsIdle
<1>8. SweepInv(s)'
  <2>1. CASE SweepStart(s)
    BY <1>1, <2>1 DEF SweepStart, SweepInv, SweepsOK, IsIdle, CountersOK
  <2>2. CASE SweepVisit(s)
    <3>1. PICK h \in Host, w \in [pc : {"range", "delete"}, cutoff : Int, left : SUBSET Host,
                                 key : Host \cup {NULL}] :
            /\ sweeps' = [sweeps EXCEPT ![s] = w]
            /\ w.cutoff = sweeps[s].cutoff /\ w.left = sweeps[s].left \ {h}
            /\ w.pc = IF IsIdle(h, sweeps[s].cutoff) THEN "delete" ELSE "range"
            /\ w.key = IF IsIdle(h, sweeps[s].cutoff) THEN h ELSE NULL
      BY <2>2, VisitStep
    <3>2. /\ sweeps[s].pc = "range" /\ sweeps'[s].cutoff = sweeps[s].cutoff
          /\ sweeps'[s].left = sweeps[s].left \ {h}
          /\ sweeps'[s].pc = IF IsIdle(h, sweeps[s].cutoff) THEN "delete" ELSE "range"
          /\ sweeps'[s].key = IF IsIdle(h, sweeps[s].cutoff) THEN h ELSE NULL
      BY <2>2, <3>1 DEF SweepVisit, SweepsOK
    <3>3. IsIdle(h, sweeps[s].cutoff) => h \in wentIdle
      <4>1. sweeps[s].cutoff \in Int /\ sweeps[s].cutoff <= now - IdleTimeout /\ now \in Int
        BY <3>2 DEF SweepInv, SweepsOK, CountersOK
      <4>2. IsIdle(h, sweeps[s].cutoff) => IsIdle(h, now - IdleTimeout)
        BY <3>2, <4>1 DEF IsIdle, TablesOK, Entry
      <4> QED
        BY <3>2, <4>2 DEF IdleInv
    <3>4. \A k \in Host : IsIdle(k, sweeps[s].cutoff)' <=> IsIdle(k, sweeps[s].cutoff)
      BY <1>1, <3>2 DEF IsIdle
    <3> QED
      BY <1>1, <3>2, <3>3, <3>4 DEF SweepInv
  <2>3. CASE SweepMark(s) \/ SweepReset(s)
    BY <2>3 DEF SweepMark, SweepReset, SweepInv, SweepsOK, NoSweep
  <2> QED
    BY <2>1, <2>2, <2>3
<1>9. NoIdleStorm'
  <2>1. CASE SweepReset(s)
    BY <2>1 DEF SweepReset, NoIdleStorm
  <2>2. CASE SweepStart(s) \/ SweepMark(s)
    <3>1. sweeps'[s].pc # "idle"
      BY <2>2 DEF SweepStart, SweepMark, SweepsOK
    <3> QED
      BY <3>1 DEF NoIdleStorm
  <2>3. CASE SweepVisit(s)
    <3>1. sweeps'[s].pc # "idle"
      BY <2>3, VisitStep DEF SweepsOK
    <3> QED
      BY <3>1 DEF NoIdleStorm
  <2> QED
    BY <2>1, <2>2, <2>3
<1> QED
  BY <1>2, <1>3, <1>4, <1>5, <1>7, <1>8, <1>9

(* Delete takes the bucket of a key that went idle out of the map. *)
LEMMA SweepDeleteInv ==
  ASSUME RateInv, NEW s \in Sweeper, SweepDelete(s)
  PROVE  RateInv'
<1> DEFINE key == sweeps[s].key
<1> USE DEF RateInv
<1>1. /\ sweeps[s].pc = "delete"
      /\ buckets' = [buckets EXCEPT ![key] = NULL]
      /\ sweeps' = [sweeps EXCEPT ![s].pc = "range", ![s].key = NULL]
      /\ entries' = Collect(entries, buckets', entry)
      /\ UNCHANGED <<rps, burst, opsSince, lastSweep, now, pc, request, entry, requests,
                     admitted, served, wentIdle>>
  BY DEF SweepDelete, historyVars
<1>2. key \in wentIdle /\ key \in Host
  BY <1>1 DEF SweepInv, TablesOK
<1>3. \A h \in Host : buckets'[h] = IF h = key THEN NULL ELSE buckets[h]
  BY <1>1 DEF TablesOK
<1>4. /\ entries' \in [EntryId -> Entry]
      /\ \A i \in EntryId : entries'[i] \in {entries[i], Garbage}
      /\ \A i \in EntryId \cap Referenced(buckets', entry) : entries'[i] = entries[i]
  BY <1>1, CollectKeeps DEF TablesOK
<1>5. CountersOK' /\ ThreadsOK'
  BY <1>1 DEF CountersOK, ThreadsOK
<1>6. TablesOK'
  BY <1>1, <1>4 DEF TablesOK
<1>7. SweepsOK'
  BY <1>1 DEF SweepsOK
<1>8. \A i \in EntryId, k \in Host : Holds(i, k)' =>
        Holds(i, k) /\ entries'[i] = entries[i]
  BY <1>1, <1>3, <1>4, EntryIds DEF Holds, Referenced
<1>9. OwnerInv'
  <2>1. ASSUME NEW g \in Goroutine, entry[g] # NULL, BucketKey(request[g]) \notin wentIdle
        PROVE  buckets'[BucketKey(request[g])] = entry[g]
    <3>1. BucketKey(request[g]) \in Host
      BY <2>1, KeyOfGoroutine DEF ThreadsOK
    <3> QED
      BY <1>2, <1>3, <2>1, <3>1 DEF OwnerInv
  <2> QED
    BY <1>1, <1>8, <2>1 DEF OwnerInv
<1>10. ClockInv'
  <2>1. now \in Int /\ 0 <= now
    BY RateLimitAssumption DEF CountersOK
  <2>2. SUFFICES ASSUME NEW i \in EntryId
                 PROVE  entries'[i].last <= now /\ entries'[i].lastSeen <= now
    BY <1>1 DEF ClockInv
  <2>3. CASE entries'[i] = entries[i]
    BY <2>3 DEF ClockInv
  <2>4. CASE entries'[i] = Garbage
    BY <2>1, <2>4 DEF Garbage
  <2> QED
    BY <1>4, <2>3, <2>4
<1>11. ServedInv'
  BY <1>1, <1>8 DEF ServedInv
<1>12. \A h \in Host : buckets'[h] # NULL =>
         buckets'[h] = buckets[h] /\ entries'[buckets[h]] = entries[buckets[h]]
  BY <1>3, <1>4 DEF Referenced, TablesOK
<1>13. CreditInv'
  <2>1. SUFFICES ASSUME NEW h \in Host \ (TrustedProxies \cup wentIdle)
                 PROVE  /\ buckets'[h] = NULL => admitted[h] = 0
                        /\ buckets'[h] # NULL =>
                             admitted[h] + entries'[buckets'[h]].tokens
                               <= burst + rps * entries'[buckets'[h]].last
    BY <1>1 DEF CreditInv
  <2>2. buckets'[h] = buckets[h]
    BY <1>2, <1>3
  <2>3. CASE buckets[h] = NULL
    BY <2>2, <2>3 DEF CreditInv
  <2>4. CASE buckets[h] # NULL
    <3>1. entries'[buckets'[h]] = entries[buckets[h]]
      BY <1>12, <2>2, <2>4
    <3> QED
      BY <2>2, <2>4, <3>1 DEF CreditInv
  <2> QED
    BY <2>3, <2>4
<1>14. ASSUME NEW h \in Host, NEW c, IsIdle(h, c)' PROVE IsIdle(h, c) /\ h # key
  BY <1>3, <1>12, <1>14 DEF IsIdle
<1>15. IdleInv'
  BY <1>1, <1>14 DEF IdleInv
<1>16. ASSUME NEW q \in Sweeper PROVE SweepInv(q)'
  <2>1. CASE q = s
    <3>1. /\ sweeps'[s].pc = "range" /\ sweeps'[s].left = sweeps[s].left
          /\ sweeps'[s].cutoff = sweeps[s].cutoff
      BY <1>1 DEF SweepsOK
    <3> QED
      BY <1>1, <1>14, <2>1, <3>1 DEF SweepInv
  <2>2. CASE q # s
    <3>1. sweeps'[q] = sweeps[q]
      BY <1>1, <2>2 DEF SweepsOK
    <3>2. SweepInv(q)
      OBVIOUS
    <3>3. \A h \in Host : IsIdle(h, sweeps[q].cutoff)' => IsIdle(h, sweeps[q].cutoff)
      BY <1>3, <1>12, <3>1 DEF IsIdle
    <3>4. CASE sweeps[q].pc \in {"range", "delete"}
      <4>1. /\ sweeps[q].cutoff <= now - IdleTimeout
            /\ \A h \in Host : IsIdle(h, sweeps[q].cutoff) =>
                 h \in sweeps[q].left \/ (sweeps[q].pc = "delete" /\ h = sweeps[q].key)
            /\ sweeps[q].pc = "delete" => sweeps[q].key \in wentIdle
        BY <3>2, <3>4 DEF SweepInv
      <4>2. \A h \in Host : IsIdle(h, sweeps[q].cutoff)' =>
              h \in sweeps'[q].left \/ (sweeps'[q].pc = "delete" /\ h = sweeps'[q].key)
        BY <3>1, <3>3, <4>1
      <4>3. now' = now /\ wentIdle' = wentIdle
        BY <1>1
      <4>4. /\ (sweeps[q].cutoff <= now - IdleTimeout)'
            /\ sweeps'[q].pc = "delete" => sweeps'[q].key \in wentIdle'
        BY <3>1, <4>1, <4>3
      <4> QED
        BY <4>2, <4>4 DEF SweepInv
    <3>5. CASE sweeps[q].pc \notin {"range", "delete"}
      BY <3>1, <3>5 DEF SweepInv
    <3> QED
      BY <3>4, <3>5
  <2> QED
    BY <2>1, <2>2
<1>17. NoIdleStorm'
  <2>1. sweeps'[s].pc # "idle"
    BY <1>1 DEF SweepsOK
  <2> QED
    BY <2>1 DEF NoIdleStorm
<1> QED
  BY <1>5, <1>6, <1>7, <1>9, <1>10, <1>11, <1>13, <1>15, <1>16, <1>17

-----------------------------------------------------------------------------
(* The next second. *)
LEMMA RateTickInv ==
  ASSUME RateInv, Tick
  PROVE  RateInv'
<1> USE RateLimitAssumption DEF RateInv
<1>1. /\ now < MaxTime /\ now' = now + 1 /\ served' = {}
      /\ wentIdle' = wentIdle \cup {h \in Host : IsIdle(h, now' - IdleTimeout)}
      /\ UNCHANGED <<rps, burst, buckets, entries, opsSince, lastSweep, pc, request, entry,
                     sweeps, requests, admitted>>
  BY DEF Tick, limiterVars
<1>2. CountersOK' /\ now \in Nat
  BY <1>1 DEF CountersOK
<1>3. TablesOK' /\ ThreadsOK' /\ SweepsOK'
  BY <1>1 DEF TablesOK, ThreadsOK, SweepsOK
<1>4. OwnerInv'
  BY <1>1 DEF OwnerInv, Holds
<1>5. \A i \in EntryId : entries[i].last \in Int /\ entries[i].lastSeen \in Int
  BY DEF TablesOK, Entry
<1>6. ClockInv' /\ ServedInv'
  BY <1>1, <1>2, <1>5 DEF ClockInv, ServedInv
<1>7. CreditInv'
  BY <1>1 DEF CreditInv
<1>8. IdleInv'
  BY <1>1 DEF IdleInv, IsIdle
<1>9. \A s \in Sweeper : SweepInv(s)'
  BY <1>1, <1>2 DEF SweepInv, IsIdle, SweepsOK
<1>10. NoIdleStorm'
  BY <1>1 DEF NoIdleStorm
<1> QED
  BY <1>2, <1>3, <1>4, <1>6, <1>7, <1>8, <1>9, <1>10

-----------------------------------------------------------------------------
LEMMA RateStepInv == RateInv /\ [Next]_rateVars => RateInv'
<1> SUFFICES ASSUME RateInv, [Next]_rateVars PROVE RateInv'
  OBVIOUS
<1>1. CASE UNCHANGED rateVars
  <2>1. UNCHANGED <<rps, burst, buckets, entries, opsSince, lastSweep, now, pc, request, entry,
                    sweeps, requests, admitted, served, wentIdle>>
    BY <1>1 DEF rateVars, limiterVars, historyVars
  <2>2. CountersOK' /\ TablesOK' /\ ThreadsOK' /\ SweepsOK'
    BY <2>1 DEF RateInv, CountersOK, TablesOK, ThreadsOK, SweepsOK
  <2>3. OwnerInv' /\ ClockInv' /\ ServedInv' /\ CreditInv' /\ IdleInv' /\ NoIdleStorm'
    BY <2>1 DEF RateInv, OwnerInv, ClockInv, ServedInv, CreditInv, IdleInv, NoIdleStorm, Holds,
       IsIdle
  <2>4. \A s \in Sweeper : SweepInv(s)'
    BY <2>1 DEF RateInv, SweepInv, IsIdle
  <2> QED
    BY <2>2, <2>3, <2>4 DEF RateInv
<1>2. ASSUME NEW g \in Goroutine, Arrive(g) \/ Lookup(g) \/ Touch(g) \/ Allow(g)
      PROVE  RateInv'
  BY <1>2, ArriveInv, LookupInv, TouchInv, AllowInv
<1>3. ASSUME NEW s \in Sweeper, SweepStep(s) PROVE RateInv'
  BY <1>3, SweepWalkInv, SweepDeleteInv DEF SweepStep
<1>4. CASE Tick
  BY <1>4, RateTickInv
<1> QED
  BY <1>1, <1>2, <1>3, <1>4 DEF Next

LEMMA RateInvariant == Spec => []RateInv
<1>1. Init => RateInv
  BY RateInitInv
<1>2. RateInv /\ [Next]_rateVars => RateInv'
  BY RateStepInv
<1> QED
  BY <1>1, <1>2, PTL DEF Spec

(* Type correctness: whatever RATE_LIMIT_REQUESTS and RATE_LIMIT_DURATION  *)
(* come to, a bucket refills, and it never holds a negative number of      *)
(* tokens.                                                                 *)
THEOREM RateTypeCorrect == Spec => []RateTypeOK
<1>1. RateInv => RateTypeOK
  BY DEF RateInv, RateTypeOK, CountersOK, TablesOK, ThreadsOK, SweepsOK
<1> QED
  BY <1>1, RateInvariant, PTL

(* The limit holds: any number of overlapping requests and sweeps lets no  *)
(* client that talks to the API directly, and never pauses for longer than *)
(* idleTimeout, exceed its burst and what has been refilled since.         *)
THEOREM AdmissionsBounded == Spec => []AdmissionBound
<1>1. RateInv => AdmissionBound
  <2> SUFFICES ASSUME RateInv, NEW h \in Host \ (TrustedProxies \cup wentIdle)
               PROVE  admitted[h] <= burst + rps * now
    BY DEF AdmissionBound
  <2> USE DEF RateInv
  <2>1. now \in Nat /\ rps \in Nat /\ burst \in Nat /\ admitted[h] \in Nat /\ rps * now \in Nat
    BY TimesNat, RateLimitAssumption DEF CountersOK, TablesOK
  <2>2. CASE buckets[h] = NULL
    BY <2>1, <2>2 DEF CreditInv
  <2>3. CASE buckets[h] # NULL
    <3> DEFINE e == entries[buckets[h]]
    <3>1. e.tokens \in Nat /\ e.last \in Nat /\ e.last <= now
      BY <2>3, RateLimitAssumption DEF TablesOK, Entry, ClockInv
    <3>2. admitted[h] + e.tokens <= burst + rps * e.last
      BY <2>3 DEF CreditInv
    <3>3. rps * e.last <= rps * now /\ rps * e.last \in Int
      BY <2>1, <3>1, TimesMono
    <3> HIDE DEF e
    <3> QED
      BY <2>1, <3>1, <3>2, <3>3
  <2> QED
    BY <2>2, <2>3
<1> QED
  BY <1>1, RateInvariant, PTL

(* Once no sweep is running the counter that starts them is low again, for *)
(* any number of sweeps that overlapped and reset it in any order.         *)
THEOREM StormsEnd == Spec => []NoIdleStorm
<1>1. RateInv => NoIdleStorm
  BY DEF RateInv
<1> QED
  BY <1>1, RateInvariant, PTL

(* A 429 is honest about Retry-After: 1, at any rate the configuration can *)
(* come to.                                                                *)
THEOREM RetryAfterHonest == Spec => RetryAfterSuffices
<1>1. ASSUME RateInv, Next, NEW g \in Goroutine, pc[g] = "allow", pc'[g] = "idle"
      PROVE  BucketKey(request[g]) \in served'
  <2>1. Allow(g)
    <3>1. ~Tick /\ \A s \in Sweeper : ~SweepStep(s)
      BY <1>1 DEF Tick, SweepStep, SweepStart, SweepVisit, SweepDelete, SweepMark, SweepReset
    <3>2. PICK q \in Goroutine : Arrive(q) \/ Lookup(q) \/ Touch(q) \/ Allow(q)
      BY <1>1, <3>1 DEF Next
    <3> QED
      BY <1>1, <3>2 DEF Arrive, Lookup, Touch, Allow, RateInv, ThreadsOK
  <2> QED
    BY <1>1, <2>1, AllowStep
<1>2. RateInv /\ [Next]_rateVars =>
        [\A g \in Goroutine :
           pc[g] = "allow" /\ pc'[g] = "idle" => BucketKey(request[g]) \in served']_rateVars
  BY <1>1
<1>3. Spec => [][\A g \in Goroutine :
           pc[g] = "allow" /\ pc'[g] = "idle" => BucketKey(request[g]) \in served']_rateVars
  BY <1>2, RateInvariant, PTL DEF Spec
<1> QED
  BY <1>3 DEF RetryAfterSuffices

(* A sweep that has ended has missed no entry that was idle at its cutoff, *)
(* whatever requests and other sweeps did to the map while it walked it.   *)
THEOREM SweepsMissNothing == Spec => SweptClean
<1>1. ASSUME RateInv, Next, NEW s \in Sweeper, sweeps[s].pc = "range",
             sweeps'[s].pc = "reset", NEW h \in Host
      PROVE  ~IsIdle(h, sweeps[s].cutoff)
  <2> USE DEF RateInv
  <2>1. \A g \in Goroutine : ~Arrive(g)
    BY <1>1 DEF Arrive, SweepsOK
  <2>2. \A g \in Goroutine : ~Lookup(g) /\ ~Touch(g) /\ ~Allow(g)
    BY <1>1 DEF Lookup, Touch, Allow
  <2>3. ~Tick
    BY <1>1 DEF Tick
  <2>4. PICK q \in Sweeper : SweepStep(q)
    BY <1>1, <2>1, <2>2, <2>3 DEF Next
  <2>5. ~SweepStart(q) /\ ~SweepDelete(q) /\ ~SweepReset(q)
    BY <1>1 DEF SweepStart, SweepDelete, SweepReset, SweepsOK, NoSweep
  <2>6. ~SweepVisit(q)
    BY <1>1, VisitStep DEF SweepsOK
  <2>7. SweepMark(q) /\ q = s
    BY <1>1, <2>4, <2>5, <2>6 DEF SweepStep, SweepMark, SweepsOK
  <2>8. sweeps[s].left = {}
    BY <2>7 DEF SweepMark
  <2> QED
    BY <1>1, <2>8 DEF SweepInv
<1>2. RateInv /\ [Next]_rateVars =>
        [\A s \in Sweeper :
           sweeps[s].pc = "range" /\ sweeps'[s].pc = "reset" =>
             \A h \in Host : ~IsIdle(h, sweeps[s].cutoff)]_rateVars
  BY <1>1
<1>3. Spec => [][\A s \in Sweeper :
           sweeps[s].pc = "range" /\ sweeps'[s].pc = "reset" =>
             \A h \in Host : ~IsIdle(h, sweeps[s].cutoff)]_rateVars
  BY <1>2, RateInvariant, PTL DEF Spec
<1> QED
  BY <1>3 DEF SweptClean

=============================================================================
