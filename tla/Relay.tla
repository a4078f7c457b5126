-------------------------------- MODULE Relay --------------------------------
(***************************************************************************)
(* famp-relay: a store-and-forward queue for each domain it serves.        *)
(* Anyone may post to a queue; a gateway drains the queue of its own       *)
(* domain with a signed, dated, one-time fetch request.  Everything is in  *)
(* memory.                                                                 *)
(*                                                                         *)
(* A queue is the set of its entries [no, e, at]: `no' counts the posts,   *)
(* so the front is the entry with the least number.  A fetch request is a  *)
(* record [dom, n, ts, good]: good says that its audience and signature    *)
(* are right, n is its nonce.  A slot serves one request; it takes the     *)
(* lock of the nonces and the lock of the queues one after the other, so   *)
(* other requests come in between.                                         *)
(***************************************************************************)
EXTENDS Clock, Integers, FiniteSets

CONSTANTS
    Served,         \* domains configured with --domain
    QueueMax,       \* RELAY_QUEUE_MAX_PER_DOMAIN
    EntryTtl,       \* RELAY_ENTRY_TTL_SECS
    MaxBatch,       \* RELAY_FETCH_MAX_BATCH
    FetchSkew,      \* FETCH_FRESHNESS_WINDOW_SECS
    NonceTtl,       \* FETCH_NONCE_TTL_SECS
    NonceMax,       \* FETCH_NONCE_MAX_PER_DOMAIN
    FetchRateMax,   \* FETCH_RATE_MAX_PER_WINDOW
    FetchRateWindow,\* FETCH_RATE_WINDOW_SECS
    Slots           \* fetch requests served at once

VARIABLES
    queues,     \* for each domain the entries that wait
    nonces,     \* for each domain the nonces seen: records [n, at]
    buckets,    \* for each domain the rate bucket <<start, count>>, or <<>>
    slot,       \* what each slot is doing
    posts,      \* history: number of envelopes posted
    drained,    \* history: for each domain the numbers of the entries drained
    used,       \* history: nonces that drained, since the last restart
    reused,     \* history: those of them that drained again
    late,       \* history: nonces looked up after the window of their request
    shed        \* history: a nonce was evicted before its time

seen      == <<used, reused, late, shed>>
relayVars == <<queues, nonces, buckets, slot, posts, drained, seen>>

(* The relation between the constants that the build asserts.              *)
fetch_bounds_ok ==
    /\ FetchRateWindow > 0
    /\ NonceTtl >= 2 * FetchSkew
    /\ NonceMax >= (NonceTtl * FetchRateMax) \div FetchRateWindow

ASSUME RelayAssumption ==
    /\ {QueueMax, EntryTtl, MaxBatch, FetchSkew, NonceTtl, NonceMax,
        FetchRateMax, FetchRateWindow} \subseteq Nat
    /\ QueueMax > 0
    /\ fetch_bounds_ok

-----------------------------------------------------------------------------
(* The queues.                                                             *)

Before(q, x)  == {y \in q : y.no < x.no}
Front(q, max) == {x \in q : Cardinality(Before(q, x)) < max}

retain_unexpired(q, now) == {x \in q : now - x.at <= EntryTtl}

(* A full queue drops its oldest entry.                                    *)
enqueue(q, entry) ==
    (IF Cardinality(q) >= QueueMax THEN q \ Front(q, 1) ELSE q) \cup {entry}

(* Mutant: the newest entries are taken.                                   *)
M_drain(q, now) ==
    LET kept == retain_unexpired(q, now)
    IN  {x \in kept : Cardinality({y \in kept : y.no > x.no}) < MaxBatch}

(* What a drain takes: the oldest entries that have not expired.           *)
drain(q, now) == Front(retain_unexpired(q, now), MaxBatch)

-----------------------------------------------------------------------------
(* The authorization of a fetch.                                           *)

fetch_admit(bucket, now) ==
    LET b == IF bucket = <<>> \/ now - bucket[1] >= FetchRateWindow
             THEN <<now, 0>> ELSE bucket
    IN  IF b[2] >= FetchRateMax THEN [ok |-> FALSE, bucket |-> b]
        ELSE [ok |-> TRUE, bucket |-> <<b[1], b[2] + 1>>]

verify_fetch_auth(r, now) ==
    IF ~(now - r.ts \in -FetchSkew..FetchSkew) THEN "StaleFetch"
    ELSE IF ~r.good THEN "BadSignature"
    ELSE "ok"

(* Mutant: an entry goes when it is as old as the limit.                   *)
M_Remembered(known, now) == {x \in known : now - x.at < NonceTtl}

Remembered(known, now) == {x \in known : now - x.at <= NonceTtl}

OldestNonce(known) ==
    CHOOSE x \in known : \A y \in known : \/ x.at < y.at
                                          \/ x.at = y.at /\ x.n <= y.n

record_nonce(known, n, now) ==
    LET kept == Remembered(known, now)
        room == IF Cardinality(kept) >= NonceMax /\ kept # {}
                THEN kept \ {OldestNonce(kept)} ELSE kept
    IN  IF \E x \in kept : x.n = n THEN [ok |-> FALSE, known |-> kept, shed |-> FALSE]
        ELSE [ok |-> TRUE, known |-> room \cup {[n |-> n, at |-> now]},
              shed |-> room # kept]

-----------------------------------------------------------------------------
(* The handlers.  A post or a fetch for a domain that is not served is     *)
(* answered 404 and changes nothing.                                       *)

Free == [at |-> "free"]
Serving(label, r, now) == [at |-> label, r |-> r, now |-> now]
(* The status of a response.                                               *)
fetch_reject_response(why) ==
    CASE why = "ok" -> 200
      [] why = "StaleFetch" -> 401
      [] why \in {"BadSignature", "ReplayedNonce"} -> 403
      [] why = "RateLimited" -> 429

Reply(r, why, batch) ==
    [at |-> "reply", r |-> r, status |-> fetch_reject_response(why), batch |-> batch]

enqueue_handler(d, e) ==
    /\ d \in Served
    /\ posts' = posts + 1
    /\ queues' = [queues EXCEPT ![d] =
                    enqueue(@, [no |-> posts + 1, e |-> e, at |-> clock])]
    /\ UNCHANGED <<clock, nonces, buckets, slot, drained, seen>>

(* ingest_fetch up to the second lock: the rate, then the authorization.   *)
FetchArrives(k, r) ==
    /\ r.dom \in Served
    /\ slot[k] = Free
    /\ LET a == fetch_admit(buckets[r.dom], clock)
           v == verify_fetch_auth(r, clock)
       IN  /\ buckets' = [buckets EXCEPT ![r.dom] = a.bucket]
           /\ slot' = [slot EXCEPT ![k] =
                         IF ~a.ok THEN Reply(r, "RateLimited", {})
                         ELSE IF v # "ok" THEN Reply(r, v, {})
                         ELSE Serving("nonce", r, clock)]
    /\ UNCHANGED <<clock, queues, nonces, posts, drained, seen>>

(* The wait for the second lock may outlast the window of the request: the *)
(* clock is not read again.                                                *)
FetchNonce(k) ==
    /\ slot[k].at = "nonce"
    /\ LET r   == slot[k].r
           res == record_nonce(nonces[r.dom], r.n, slot[k].now)
       IN  /\ nonces' = [nonces EXCEPT ![r.dom] = res.known]
           /\ shed' = (shed \/ res.shed)
           /\ late' = IF clock > r.ts + FetchSkew THEN late \cup {<<r.dom, r.n>>} ELSE late
           /\ slot' = [slot EXCEPT ![k] =
                         IF res.ok THEN Serving("drain", r, slot[k].now)
                         ELSE Reply(r, "ReplayedNonce", {})]
    /\ UNCHANGED <<clock, queues, buckets, posts, drained, used, reused>>

FetchDrain(k) ==
    /\ slot[k].at = "drain"
    /\ LET r     == slot[k].r
           batch == drain(queues[r.dom], slot[k].now)
       IN  /\ queues' = [queues EXCEPT ![r.dom] =
                           retain_unexpired(@, slot[k].now) \ batch]
           /\ drained' = [drained EXCEPT ![r.dom] = @ \cup {x.no : x \in batch}]
           /\ used' = used \cup {<<r.dom, r.n>>}
           /\ reused' = reused \cup (used \cap {<<r.dom, r.n>>})
           /\ slot' = [slot EXCEPT ![k] = Reply(r, "ok", batch)]
    /\ UNCHANGED <<clock, nonces, buckets, posts, late, shed>>

(* The response leaves, whether or not it gets to the caller.              *)
FetchAnswered(k) ==
    /\ slot[k].at = "reply"
    /\ slot' = [slot EXCEPT ![k] = Free]
    /\ UNCHANGED <<clock, queues, nonces, buckets, posts, drained, seen>>

(* run_sweep_loop.                                                         *)
Sweep ==
    /\ queues' = [d \in Served |-> retain_unexpired(queues[d], clock)]
    /\ nonces' = [d \in Served |-> Remembered(nonces[d], clock)]
    /\ UNCHANGED <<clock, buckets, slot, posts, drained, seen>>

RelayInit ==
    /\ queues  = [d \in Served |-> {}]
    /\ nonces  = [d \in Served |-> {}]
    /\ buckets = [d \in Served |-> <<>>]
    /\ slot    = [k \in Slots |-> Free]
    /\ posts = 0
    /\ drained = [d \in Served |-> {}]
    /\ used = {} /\ reused = {} /\ late = {} /\ shed = FALSE

(* The process stops and starts again with nothing.                        *)
RelayRestart ==
    /\ queues'  = [d \in Served |-> {}]
    /\ nonces'  = [d \in Served |-> {}]
    /\ buckets' = [d \in Served |-> <<>>]
    /\ slot'    = [k \in Slots |-> Free]
    /\ used' = {} /\ reused' = {} /\ late' = {} /\ shed' = FALSE
    /\ UNCHANGED <<clock, posts, drained>>

-----------------------------------------------------------------------------
(* Properties.                                                             *)

(* A fetch request drains at most once while the relay runs, also when it  *)
(* is delivered again, at either end of its window and while the first     *)
(* delivery is still served (ingest_fetch, record_nonce).  Two things can  *)
(* make it drain again: the cache had to evict a live nonce, or a delivery *)
(* that was fresh when it came in waited for the lock until its window had *)
(* closed, when the nonce of the first may be gone.                        *)
OneDrain == shed \/ reused \subseteq late

(* What waits for the domains, as abstract channels see it.                *)
Fifo == INSTANCE LossyFifo WITH
    Channels <- Served,
    waiting  <- [d \in Served |-> {x.no : x \in queues[d]}],
    taken    <- drained,
    count    <- posts

(* The queues implement channels that may lose but neither repeat nor      *)
(* reorder what was posted.                                                *)
QueueIsFifo == Fifo!Spec
=============================================================================
