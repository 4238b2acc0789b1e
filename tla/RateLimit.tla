----------------------------- MODULE RateLimit -----------------------------
(***************************************************************************)
(* The per-client rate limiter in front of /api/v1: token buckets in a     *)
(* sync.Map, looked up by every request and swept by goroutines that the   *)
(* requests start.  Nothing is locked across two accesses, so each access  *)
(* to the map, to an entry or to a counter is a step of its own.  One tick *)
(* of the clock is a second.                                               *)
(***************************************************************************)
EXTENDS Integers, FiniteSets

CONSTANTS
    Host,            \* addresses: of clients and of proxies
    TrustedProxies,  \* the hosts inside the configured CIDRs
    Arrivals,        \* the requests that may come in: peer and proxy headers
    Configs,         \* RATE_LIMIT_REQUESTS and RATE_LIMIT_DURATION (seconds)
    IdleTimeout,     \* idleTimeout, in seconds
    SweepInterval,   \* time.Minute, in seconds
    SweepEvery,      \* sweepEvery
    Goroutine, Sweeper,      \* requests and sweeps at one time (bounds)
    MaxTime, MaxRequests,    \* bounds: the clock, the requests of a behaviour
    NULL             \* no entry; an absent header

Blank == "blank"     \* a header that is "" once trimmed

ASSUME RateLimitAssumption ==
    /\ TrustedProxies \subseteq Host
    /\ Arrivals \subseteq [peer : Host, forwarded : Host \cup {NULL, Blank},
                           real : Host \cup {NULL}]
    /\ Configs \subseteq [Requests : Int, Duration : Int]
    /\ IdleTimeout \in Nat \ {0} /\ SweepInterval \in Nat
    /\ SweepEvery \in Nat \ {0} /\ MaxTime \in Nat /\ MaxRequests \in Nat
    /\ IsFiniteSet(Host) /\ IsFiniteSet(Goroutine)
    /\ NULL \notin Int \cup Host \cup Arrivals

VARIABLES
    rps, burst,      \* what the configuration came to
    buckets,         \* sync.Map: host -> entry, or NULL
    entries,         \* the entry objects: token bucket and lastSeen
    opsSince, lastSweep,
    now,
    pc, request, entry,      \* per goroutine: step, what it serves, its *entry
    sweeps,          \* per sweep goroutine: step, cutoff, keys left, key at hand
    requests,        \* requests so far (bound)
    admitted,        \* history: requests let through, per untrusted peer
    served,          \* history: keys let through in the current second
    wentIdle         \* history: keys whose bucket was idle for too long

limiterVars == <<rps, burst, buckets, entries, opsSince, lastSweep>>
historyVars == <<requests, admitted, served, wentIdle>>
rateVars == <<limiterVars, now, pc, request, entry, sweeps, historyVars>>

EntryId == 1..(Cardinality(Host) + Cardinality(Goroutine) + 1)
Garbage == [tokens |-> 0, last |-> 0, lastSeen |-> 0]
Entry == [tokens : Nat, last : 0..MaxTime, lastSeen : 0..MaxTime]
NoSweep == [pc |-> "idle", cutoff |-> 0, left |-> {}, key |-> NULL]

RateTypeOK ==
    /\ rps \in Nat \ {0} /\ burst \in Nat \ {0}
    /\ buckets \in [Host -> EntryId \cup {NULL}]
    /\ entries \in [EntryId -> Entry]
    /\ opsSince \in 0..MaxRequests /\ lastSweep \in {-SweepInterval - 1} \cup 0..MaxTime
    /\ now \in 0..MaxTime
    /\ pc \in [Goroutine -> {"idle", "lookup", "touch", "allow"}]
    /\ request \in [Goroutine -> Arrivals \cup {NULL}]
    /\ entry \in [Goroutine -> EntryId \cup {NULL}]
    /\ sweeps \in [Sweeper -> [pc : {"idle", "start", "range", "delete", "reset"},
                               cutoff : Int, left : SUBSET Host,
                               key : Host \cup {NULL}]]
    /\ requests \in 0..MaxRequests
    /\ admitted \in [Host -> Nat]
    /\ served \subseteq Host /\ wentIdle \subseteq Host

-----------------------------------------------------------------------------
(* rateLimitMiddleware: requests per second as a whole number.  A Duration *)
(* of 0 makes the quotient +Inf, and what int() makes of that depends on   *)
(* the machine: the smallest integer (amd64) or the largest (arm64).       *)
MaxInt == 1000   \* stands for the largest int

RatePerSec(cfg) ==
    IF cfg.Duration = 0 THEN {-MaxInt, MaxInt}
    ELSE {IF cfg.Requests < cfg.Duration \/ cfg.Duration < 0
            THEN 1 ELSE cfg.Requests \div cfg.Duration}

RpsUnclamped(cfg) ==   \* mutant: a rate below one per second is not raised
    {IF cfg.Duration = 0 THEN 1 ELSE cfg.Requests \div cfg.Duration}

(* RateLimit: defaults for a rate that is not positive. *)
Rps(cfg) == {IF r <= 0 THEN 1 ELSE r : r \in RatePerSec(cfg)}

(* GetRealIP: X-Forwarded-For, then X-Real-IP, but from trusted peers only. *)
GetRealIP(r, trusted) ==
    IF r.peer \notin trusted THEN r.peer
    ELSE IF r.forwarded # NULL THEN r.forwarded
    ELSE IF r.real # NULL THEN r.real ELSE r.peer

(* The key of the bucket: an empty address falls back to the peer's. *)
BucketKey(r) ==
    LET ip == GetRealIP(r, TrustedProxies)
    IN  IF ip = Blank THEN GetRealIP(r, {}) ELSE ip

(* rate.Limiter (external): tokens at time t, at most burst. *)
TokensAt(e, t) ==
    LET refilled == e.tokens + rps * (t - e.last)
    IN  IF refilled > burst THEN burst ELSE refilled

Init ==
    /\ \E cfg \in Configs : /\ cfg.Requests > 0   \* else there is no limiter
                            /\ rps \in Rps(cfg)
                            /\ burst = cfg.Requests
    /\ buckets = [h \in Host |-> NULL]
    /\ entries = [i \in EntryId |-> Garbage]
    /\ opsSince = 0
    /\ lastSweep = -SweepInterval - 1   \* the zero value: long ago
    /\ now = 0
    /\ pc = [g \in Goroutine |-> "idle"]
    /\ request = [g \in Goroutine |-> NULL]
    /\ entry = [g \in Goroutine |-> NULL]
    /\ sweeps = [s \in Sweeper |-> NoSweep]
    /\ requests = 0
    /\ admitted = [h \in Host |-> 0]
    /\ served = {} /\ wentIdle = {}

-----------------------------------------------------------------------------
(* A request *)

SweepDue == opsSince + 1 >= SweepEvery \/ now - lastSweep > SweepInterval

(* A request comes in: opsSince.Add(1), and the sweep it may start. *)
Arrive(g) ==
    /\ pc[g] = "idle"
    /\ requests < MaxRequests
    /\ \E r \in Arrivals : request' = [request EXCEPT ![g] = r]
    /\ opsSince' = opsSince + 1
    /\ \/ /\ SweepDue
          /\ \E s \in Sweeper :
               /\ sweeps[s].pc = "idle"
               /\ sweeps' = [sweeps EXCEPT ![s].pc = "start"]
       \/ ~SweepDue /\ UNCHANGED sweeps
    /\ pc' = [pc EXCEPT ![g] = "lookup"]
    /\ requests' = requests + 1
    /\ UNCHANGED <<rps, burst, buckets, entries, lastSweep, now, entry,
                   admitted, served, wentIdle>>

(* The entries that a map bs and goroutines' pointers es refer to; the      *)
(* collector frees the others.                                             *)
Referenced(bs, es) == {bs[h] : h \in Host} \cup {es[g] : g \in Goroutine}

Collect(all, bs, es) ==
    [i \in EntryId |-> IF i \in Referenced(bs, es) THEN all[i] ELSE Garbage]

mkEntryEmpty == [tokens |-> 0, last |-> now, lastSeen |-> now]   \* mutant

(* rate.NewLimiter(rps, burst): a full bucket. *)
mkEntry == [tokens |-> burst, last |-> now, lastSeen |-> now]

StoreEntry(g) ==
    LET new == CHOOSE i \in EntryId \ Referenced(buckets, entry) : TRUE
    IN  /\ entries' = [entries EXCEPT ![new] = mkEntry]
        /\ buckets' = [buckets EXCEPT ![BucketKey(request[g])] = new]
        /\ entry' = [entry EXCEPT ![g] = new]

LookupStores(g) ==   \* mutant: a Store where the code has LoadOrStore
    /\ pc[g] = "lookup"
    /\ StoreEntry(g)
    /\ pc' = [pc EXCEPT ![g] = "touch"]
    /\ UNCHANGED <<rps, burst, opsSince, lastSweep, now, request, sweeps,
                   historyVars>>

(* buckets.LoadOrStore(ip, mkEntry()), the making of the entry included. *)
Lookup(g) ==
    /\ pc[g] = "lookup"
    /\ LET key == BucketKey(request[g])
       IN  \/ buckets[key] = NULL /\ StoreEntry(g)
           \/ /\ buckets[key] # NULL
              /\ entry' = [entry EXCEPT ![g] = buckets[key]]
              /\ UNCHANGED <<buckets, entries>>
    /\ pc' = [pc EXCEPT ![g] = "touch"]
    /\ UNCHANGED <<rps, burst, opsSince, lastSweep, now, request, sweeps,
                   historyVars>>

(* e.lastSeen.Store(now) *)
Touch(g) ==
    /\ pc[g] = "touch"
    /\ entries' = [entries EXCEPT ![entry[g]].lastSeen = now]
    /\ pc' = [pc EXCEPT ![g] = "allow"]
    /\ UNCHANGED <<rps, burst, buckets, opsSince, lastSweep, now, request, entry,
                   sweeps, historyVars>>

(* e.limiter.Allow(): a refusal, answered 429, leaves the bucket alone. *)
Allow(g) ==
    /\ pc[g] = "allow"
    /\ entry' = [entry EXCEPT ![g] = NULL]
    /\ LET e == entries[entry[g]]
           spent == [entries EXCEPT ![entry[g]].tokens = TokensAt(e, now) - 1,
                                    ![entry[g]].last = now]
           direct == {request[g].peer} \ TrustedProxies
       IN  \/ /\ TokensAt(e, now) >= 1
              /\ entries' = Collect(spent, buckets, entry')
              /\ admitted' = [h \in Host |-> IF h \in direct THEN admitted[h] + 1
                                                            ELSE admitted[h]]
              /\ served' = served \cup {BucketKey(request[g])}
           \/ /\ TokensAt(e, now) < 1
              /\ entries' = Collect(entries, buckets, entry')
              /\ UNCHANGED <<admitted, served>>
    /\ pc' = [pc EXCEPT ![g] = "idle"]
    /\ request' = [request EXCEPT ![g] = NULL]
    /\ UNCHANGED <<rps, burst, buckets, opsSince, lastSweep, now, sweeps,
                   requests, wentIdle>>

-----------------------------------------------------------------------------
(* A sweep.  Range visits every key the map held when it began; a key that *)
(* is stored later is too young to be deleted whether it is visited or not. *)

SweepStart(s) ==
    /\ sweeps[s].pc = "start"
    /\ sweeps' = [sweeps EXCEPT
                    ![s] = [pc |-> "range", cutoff |-> now - IdleTimeout,
                            left |-> {h \in Host : buckets[h] # NULL}, key |-> NULL]]
    /\ UNCHANGED <<limiterVars, now, pc, request, entry, historyVars>>

IsIdle(h, cutoff) == buckets[h] # NULL /\ entries[buckets[h]].lastSeen < cutoff

(* The callback of Range: lastSeen.Load() < cutoff. *)
SweepVisit(s) ==
    /\ sweeps[s].pc = "range"
    /\ \E h \in sweeps[s].left :
         LET idle == IsIdle(h, sweeps[s].cutoff)
         IN  sweeps' = [sweeps EXCEPT
                          ![s] = [pc |-> IF idle THEN "delete" ELSE "range",
                                  cutoff |-> sweeps[s].cutoff,
                                  left |-> sweeps[s].left \ {h},
                                  key |-> IF idle THEN h ELSE NULL]]
    /\ UNCHANGED <<limiterVars, now, pc, request, entry, historyVars>>

SweepDeleteStops(s) ==   \* mutant: the callback returns false after a delete
    /\ sweeps[s].pc = "delete"
    /\ buckets' = [buckets EXCEPT ![sweeps[s].key] = NULL]
    /\ sweeps' = [sweeps EXCEPT ![s].pc = "range", ![s].key = NULL, ![s].left = {}]
    /\ entries' = Collect(entries, buckets', entry)
    /\ UNCHANGED <<rps, burst, opsSince, lastSweep, now, pc, request,
                   entry, historyVars>>

(* buckets.Delete(k), of whatever entry the key has by now. *)
SweepDelete(s) ==
    /\ sweeps[s].pc = "delete"
    /\ buckets' = [buckets EXCEPT ![sweeps[s].key] = NULL]
    /\ sweeps' = [sweeps EXCEPT ![s].pc = "range", ![s].key = NULL]
    /\ entries' = Collect(entries, buckets', entry)
    /\ UNCHANGED <<rps, burst, opsSince, lastSweep, now, pc, request,
                   entry, historyVars>>

(* lastSweep.Store(now) *)
SweepMark(s) ==
    /\ sweeps[s].pc = "range" /\ sweeps[s].left = {}
    /\ lastSweep' = now
    /\ sweeps' = [sweeps EXCEPT ![s].pc = "reset"]
    /\ UNCHANGED <<rps, burst, buckets, entries, opsSince, now, pc, request,
                   entry, historyVars>>

SweepKeepsCount(s) ==   \* mutant: opsSince is not reset
    /\ sweeps[s].pc = "reset"
    /\ sweeps' = [sweeps EXCEPT ![s] = NoSweep]
    /\ UNCHANGED <<limiterVars, now, pc, request, entry, historyVars>>

(* opsSince.Store(0) *)
SweepReset(s) ==
    /\ sweeps[s].pc = "reset"
    /\ opsSince' = 0
    /\ sweeps' = [sweeps EXCEPT ![s] = NoSweep]
    /\ UNCHANGED <<rps, burst, buckets, entries, lastSweep, now, pc, request,
                   entry, historyVars>>

-----------------------------------------------------------------------------
Tick ==
    /\ now < MaxTime
    /\ now' = now + 1
    /\ wentIdle' = wentIdle \cup {h \in Host : IsIdle(h, now' - IdleTimeout)}
    /\ served' = {}
    /\ UNCHANGED <<limiterVars, pc, request, entry, sweeps, requests, admitted>>

SweepStep(s) ==
    SweepStart(s) \/ SweepVisit(s) \/ SweepDelete(s) \/ SweepMark(s) \/ SweepReset(s)

Next ==
    \/ \E g \in Goroutine : Arrive(g) \/ Lookup(g) \/ Touch(g) \/ Allow(g)
    \/ \E s \in Sweeper : SweepStep(s)
    \/ Tick

Spec == Init /\ [][Next]_rateVars

-----------------------------------------------------------------------------
(* Properties *)

(* A client that talks to the API directly gets no more requests through   *)
(* than its bucket grants, whatever headers it sends, however its requests *)
(* overlap with each other and with sweeps, as long as it never paused for *)
(* longer than idleTimeout.                                                *)
AdmissionBound ==
    \A h \in Host \ (TrustedProxies \cup wentIdle) :
      admitted[h] <= burst + rps * now

(* "Retry-After: 1" is honest: a client is answered 429 only in a second   *)
(* in which another request of its own was let through.                    *)
RetryAfterSuffices ==
    [][\A g \in Goroutine :
         pc[g] = "allow" /\ pc'[g] = "idle" => BucketKey(request[g]) \in served']_rateVars

(* A sweep that has ended has left nothing behind that was idle at its     *)
(* cutoff, in spite of other sweeps and of the requests that store entries *)
(* while it walks the map: the map does not grow for ever.                 *)
SweptClean ==
    [][\A s \in Sweeper :
         sweeps[s].pc = "range" /\ sweeps'[s].pc = "reset" =>
           \A h \in Host : ~IsIdle(h, sweeps[s].cutoff)]_rateVars

(* The counter that starts sweeps is back below sweepEvery once no sweep   *)
(* is running: requests do not go on starting one each.                    *)
NoIdleStorm ==
    opsSince >= SweepEvery => \E s \in Sweeper : sweeps[s].pc # "idle"

=============================================================================
