----------------------------- MODULE IngressGuard -----------------------------
(***************************************************************************)
(* The checks a gateway makes of an inbound envelope before the costly     *)
(* one, the signature: audience, freshness, replay and rate.  Pure         *)
(* operators; instants are whole seconds.                                  *)
(*                                                                         *)
(* The guard keeps, for each sender, the nonces it has seen, as a set of   *)
(* records [n, at], and the bucket <<start, count>> of the rate limit.     *)
(* Nonces are numbers, in the order in which the code compares them;       *)
(* NoNonce stands for an envelope without one or with an empty one.        *)
(***************************************************************************)
EXTENDS Integers, FiniteSets

CONSTANTS
    Skew,           \* CLOCK_SKEW_WINDOW_SECS
    ReplayTtl,      \* REPLAY_CACHE_TTL_SECS
    MaxPerSender,   \* REPLAY_CACHE_MAX_PER_SENDER
    RateMax,        \* RATE_LIMIT_MAX_PER_WINDOW
    RateWindow      \* RATE_LIMIT_WINDOW_SECS

NoNonce  == 0
NoBucket == <<>>

(* The relation between the constants that the build asserts.              *)
replay_bounds_ok ==
    /\ RateWindow > 0
    /\ ReplayTtl >= 2 * Skew
    /\ MaxPerSender >= (ReplayTtl * RateMax) \div RateWindow

ASSUME GuardAssumption ==
    /\ {Skew, ReplayTtl, MaxPerSender, RateMax, RateWindow} \subseteq Nat
    /\ replay_bounds_ok

EmptyGuard(senders) ==
    [replay |-> [s \in senders |-> {}], rate |-> [s \in senders |-> NoBucket]]

(* The fields the checks need are there and of the right kind.             *)
peek_guard_fields(e) == e.flaw # "shape"

(* Both ends of the window are inside it.                                  *)
freshness_check(ts, now) == now - ts \in -Skew..Skew

(* Mutant: an entry is forgotten when the freshness window has passed once.*)
M_Unexpired(seen, now) == {x \in seen : now - x.at < Skew}

(* The entries that are still remembered at `now'.                         *)
Unexpired(seen, now) == {x \in seen : now - x.at < ReplayTtl}

(* The entry that is evicted: the oldest, then the smallest nonce.         *)
Oldest(seen) ==
    CHOOSE x \in seen : \A y \in seen : \/ x.at < y.at
                                        \/ x.at = y.at /\ x.n <= y.n

(* ReplayCache::record: whether the sighting is new, and the cache after   *)
(* it.  Expired entries go in any case.                                    *)
record(seen, n, now) ==
    LET kept  == Unexpired(seen, now)
        known == \E x \in kept : x.n = n
        room  == IF Cardinality(kept) >= MaxPerSender /\ kept # {}
                 THEN kept \ {Oldest(kept)} ELSE kept
    IN  IF known THEN [ok |-> FALSE, seen |-> kept]
        ELSE [ok |-> TRUE, seen |-> room \cup {[n |-> n, at |-> now]}]

(* RateLimiter::admit.                                                     *)
admit(bucket, now) ==
    LET b == IF bucket = NoBucket THEN <<now, 0>> ELSE bucket
    IN  IF now - b[1] >= RateWindow THEN [ok |-> TRUE, bucket |-> <<now, 1>>]
        ELSE IF b[2] < RateMax THEN [ok |-> TRUE, bucket |-> <<b[1], b[2] + 1>>]
        ELSE [ok |-> FALSE, bucket |-> b]

(* The recipient's domain, and then whether the sender is backed here.     *)
audience_check(e, own, backed) ==
    IF e.to # own THEN "ForeignDomain"
    ELSE IF ~backed THEN "SenderNotBacked"
    ELSE "ok"

(* The gates in their order.  The first refusal counts, and a nonce stays  *)
(* recorded when the rate limit refuses its envelope.                      *)
run_cheap_gates(g, e, own, backed, now) ==
    LET audience == audience_check(e, own, backed)
        r == record(g.replay[e.from], e.nonce, now)
        a == admit(g.rate[e.from], now)
        Refused(why) == [verdict |-> why, guard |-> g]
    IN  IF audience # "ok" THEN Refused(audience)
        ELSE IF ~freshness_check(e.ts, now) THEN Refused("StaleTimestamp")
        ELSE IF e.nonce = NoNonce THEN Refused("MissingNonce")
        ELSE IF ~r.ok
             THEN [verdict |-> "ReplayedNonce",
                   guard   |-> [g EXCEPT !.replay[e.from] = r.seen]]
        ELSE [verdict |-> IF a.ok THEN "ok" ELSE "RateLimited",
              guard   |-> [g EXCEPT !.replay[e.from] = r.seen,
                                    !.rate[e.from] = a.bucket]]
=============================================================================
