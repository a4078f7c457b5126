--------------------------- MODULE FederationProofs ---------------------------
(***************************************************************************)
(* Proofs about the relay and the gateway within the federation, for every *)
(* set of plans, domains, principals, handlers, pins and fetch slots and   *)
(* all limits and windows that satisfy the assertions of the build.  The   *)
(* relay's queues implement lossy channels, and a fetch request drains at  *)
(* most once.  Nothing the gateway drained, in either direction, is lost   *)
(* silently; what it delivers is genuine; and what it accepts twice is     *)
(* spaced.                                                                 *)
(***************************************************************************)
EXTENDS Federation, FiniteSetTheorems, WellFoundedInduction, TLAPS

(* Zenon proves a leaf unless the leaf asks for arithmetic (SMTT).         *)
USE ZenonT(60)

-----------------------------------------------------------------------------
(* What a step of the whole system is to the relay.                        *)

(* The fetch loop of the gateway sends no new request.                     *)
SameRequests == UNCHANGED <<asked, polls>>

SlotStep(k) == FetchNonce(k) \/ FetchDrain(k) \/ FetchAnswered(k)

RelaySees ==
    \/ \E d \in Served : \E e : enqueue_handler(d, e) /\ SameRequests
    \/ \E k \in Slots, r \in asked : FetchArrives(k, r) /\ SameRequests
    \/ \E k \in Slots : SlotStep(k) /\ SameRequests
    \/ (Sweep \/ RelayRestart) /\ SameRequests
    \/ poll_once \/ Tick
    \/ UNCHANGED <<clock, relayVars, asked, polls>>

(* Every step of the federation is one of these.                           *)
LEMMA RelayView == [Next]_vars => RelaySees
<1> SUFFICES ASSUME [Next]_vars PROVE RelaySees
    OBVIOUS
<1>1. ASSUME NEW h \in Handlers, NEW post \in Posts, PostDirect(h, post)
      PROVE  RelaySees
    BY <1>1 DEF PostDirect, fetchVars, RelaySees
<1>2. ASSUME NEW post \in Posts, PostToRelay(post)
      PROVE  RelaySees
  <2>1. enqueue_handler(OwnDomain, post) /\ OwnDomain \in Served /\ SameRequests
      BY <1>2 DEF PostToRelay, fetchVars, SameRequests, enqueue_handler
  <2> QED
      BY <2>1 DEF RelaySees
<1>3. ASSUME NEW n \in Principals, LocalSend(n)
      PROVE  RelaySees
    BY <1>3 DEF LocalSend, fetchVars, RelaySees
<1>4. ASSUME NEW k \in Slots, Arrive(k)
      PROVE  RelaySees
  <2>1. PICK r \in asked : FetchArrives(k, r) /\ SameRequests
      BY <1>4 DEF Arrive, SameRequests
  <2> QED
      BY <2>1 DEF RelaySees
<1>5. ASSUME NEW k \in Slots, Respond(k) \/ RespondToNobody(k)
      PROVE  RelaySees
  <2>1. SlotStep(k) /\ SameRequests
      BY <1>5 DEF Respond, RespondToNobody, SlotStep, SameRequests
  <2> QED
      BY <2>1 DEF RelaySees
<1>6. ASSUME NEW k \in Slots, RelayStep(k)
      PROVE  RelaySees
  <2>1. SlotStep(k) /\ SameRequests
      BY <1>6 DEF RelayStep, SlotStep, SameRequests, fedVars, fetchVars
  <2> QED
      BY <2>1 DEF RelaySees
<1>7. CASE Unsent \/ FetchNext
    BY <1>7 DEF Unsent, FetchNext, RelaySees
<1>8. CASE GatewayStep
    BY <1>8 DEF GatewayStep, fedVars, fetchVars, RelaySees
<1>9. CASE RelaySweep
    BY <1>9 DEF RelaySweep, fedVars, fetchVars, SameRequests, RelaySees
<1>10. CASE Start \/ Kill
    BY <1>10 DEF Start, Kill, RelaySees
<1>11. CASE KillRelay
    BY <1>11 DEF KillRelay, SameRequests, RelaySees
<1>12. CASE poll_once \/ Tick
    BY <1>12 DEF RelaySees
<1>13. CASE UNCHANGED vars
    BY <1>13 DEF vars, fedVars, fetchVars, RelaySees
<1> QED
    BY <1>1, <1>2, <1>3, <1>4, <1>5, <1>6, <1>7, <1>8, <1>9, <1>10, <1>11, <1>12, <1>13
       DEF Next

-----------------------------------------------------------------------------
(* The queues.                                                             *)

(* What is not in the front of a queue came later than all that is.        *)
LEMMA FrontIsOlder ==
    ASSUME NEW q, IsFiniteSet(q), \A y \in q : y.no \in Nat,
           NEW max \in Nat,
           NEW x \in Front(q, max), NEW w \in q, w \notin Front(q, max)
    PROVE  x.no < w.no
<1> SUFFICES ASSUME w.no <= x.no PROVE FALSE
    BY SMTT(60) DEF Front
<1>1. x \in q /\ Cardinality(Before(q, x)) < max /\ ~(Cardinality(Before(q, w)) < max)
    BY DEF Front
<1>2. Before(q, w) \subseteq Before(q, x) /\ Before(q, x) \subseteq q
    BY SMTT(60), <1>1 DEF Before
<1>3. IsFiniteSet(Before(q, x)) /\ IsFiniteSet(Before(q, w))
    BY <1>2, FS_Subset
<1>4. Cardinality(Before(q, w)) <= Cardinality(Before(q, x))
    BY <1>2, <1>3, FS_Subset
<1>5. Cardinality(Before(q, w)) \in Nat /\ Cardinality(Before(q, x)) \in Nat
    BY <1>3, FS_CardinalityType
<1> QED
    BY SMTT(60), <1>1, <1>4, <1>5

(* A post adds one entry and may drop others.                              *)
LEMMA EnqueueShape ==
    ASSUME NEW q, NEW entry
    PROVE  \E kept \in SUBSET q : enqueue(q, entry) = kept \cup {entry}
BY DEF enqueue

(* The queues and the numbers drained are functions on the served domains; *)
(* entries are numbered by the posts; and what waits came later than all   *)
(* that was drained, which is what keeps a drain in order.                 *)
QueueInv ==
    /\ posts \in Nat
    /\ queues = [d \in Served |-> queues[d]]
    /\ drained = [d \in Served |-> drained[d]]
    /\ \A d \in Served :
          /\ IsFiniteSet(queues[d])
          /\ \A x \in queues[d] : x.no \in 1 .. posts
          /\ \A y \in drained[d] : y \in 1 .. posts
          /\ \A x \in queues[d], y \in drained[d] : y < x.no

LEMMA QueueInvInit == Init => QueueInv
<1> SUFFICES ASSUME Init PROVE QueueInv
    OBVIOUS
<1>1. RelayInit
    BY DEF Init
<1> QED
    BY <1>1, FS_EmptySet DEF RelayInit, QueueInv

(* What waits for a domain, as the abstract channel has it.                *)
Numbers(q) == {x.no : x \in q}

LEMMA EnqueueStep ==
    ASSUME QueueInv, NEW d \in Served, NEW e, enqueue_handler(d, e)
    PROVE  QueueInv' /\ Fifo!Put(d)
<1> DEFINE entry == [no |-> posts + 1, e |-> e, at |-> clock]
<1>1. PICK kept \in SUBSET queues[d] : enqueue(queues[d], entry) = kept \cup {entry}
    BY SMTT(60), EnqueueShape
<1>2. /\ posts' = posts + 1
      /\ queues' = [queues EXCEPT ![d] = kept \cup {entry}]
      /\ drained' = drained
    BY <1>1 DEF enqueue_handler
<1>0. entry.no = posts + 1
    OBVIOUS
<1> HIDE DEF entry
<1>3. queues'[d] = kept \cup {entry} /\ \A c \in Served \ {d} : queues'[c] = queues[c]
    BY <1>2 DEF QueueInv
<1>4. IsFiniteSet(kept \cup {entry})
    BY FS_Subset, FS_AddElement DEF QueueInv
<1>5. QueueInv'
  <2>1. /\ posts' \in Nat
        /\ queues' = [c \in Served |-> queues'[c]]
        /\ drained' = [c \in Served |-> drained'[c]]
      BY SMTT(60), <1>2 DEF QueueInv
  <2>2. ASSUME NEW c \in Served
        PROVE  /\ IsFiniteSet(queues'[c])
               /\ \A x \in queues'[c] : x.no \in 1 .. posts'
               /\ \A y \in drained'[c] : y \in 1 .. posts'
               /\ \A x \in queues'[c], y \in drained'[c] : y < x.no
    <3>1. CASE c = d
        BY SMTT(60), <1>0, <1>2, <1>3, <1>4, <3>1 DEF QueueInv
    <3>2. CASE c # d
        BY SMTT(60), <1>2, <1>3, <3>2 DEF QueueInv
    <3> QED
        BY <3>1, <3>2
  <2> QED
      BY <2>1, <2>2 DEF QueueInv
<1>6. Fifo!Put(d)
  <2> DEFINE W  == [c \in Served |-> Numbers(queues[c])]
             W1 == [c \in Served |-> Numbers(queues'[c])]
  <2>1. Numbers(kept) \in SUBSET W[d]
      BY DEF Numbers
  <2>2. Numbers(kept \cup {entry}) = Numbers(kept) \cup {posts + 1}
    <3>1. Numbers(kept \cup {entry}) = Numbers(kept) \cup {entry.no}
        BY DEF Numbers
    <3> QED
        BY <1>0, <3>1
  <2>3. W1 = [W EXCEPT ![d] = Numbers(kept) \cup {posts + 1}]
      BY <1>3, <2>2
  <2> QED
      BY <1>2, <2>1, <2>3 DEF Fifo!Put, Numbers
<1> QED
    BY <1>5, <1>6

(* Entries that expire, or are dropped with the process, are lost.         *)
LEMMA LoseStep ==
    ASSUME QueueInv, UNCHANGED <<posts, drained>>,
           queues' = [d \in Served |-> queues'[d]],
           \A d \in Served : queues'[d] \subseteq queues[d]
    PROVE  QueueInv' /\ Fifo!Lose
<1>1. QueueInv'
  <2>1. \A d \in Served : IsFiniteSet(queues'[d])
      BY FS_Subset DEF QueueInv
  <2> QED
      BY <2>1 DEF QueueInv
<1>2. Fifo!Lose
    BY SMTT(60) DEF Fifo!Lose
<1> QED
    BY <1>1, <1>2

LEMMA DrainStep ==
    ASSUME QueueInv, NEW d \in Served, NEW now,
           LET batch1 == drain(queues[d], now)
           IN  /\ queues' = [queues EXCEPT ![d] = retain_unexpired(@, now) \ batch1]
               /\ drained' = [drained EXCEPT ![d] = @ \cup {x.no : x \in batch1}]
               /\ posts' = posts
    PROVE  QueueInv' /\ Fifo!Take(d)
<1> DEFINE live  == retain_unexpired(queues[d], now)
           taken == Front(live, MaxBatch)
           left  == live \ taken
<1>1. live \subseteq queues[d] /\ taken \subseteq live
    BY DEF retain_unexpired, Front
<1>2. /\ queues' = [queues EXCEPT ![d] = left]
      /\ drained' = [drained EXCEPT ![d] = @ \cup Numbers(taken)]
      /\ posts' = posts
    BY DEF drain, Numbers
<1>3. \A x \in taken, w \in left : x.no < w.no
  <2>1. IsFiniteSet(live) /\ \A y \in live : y.no \in Nat
      BY SMTT(60), <1>1, FS_Subset DEF QueueInv
  <2>2. MaxBatch \in Nat
      BY RelayAssumption
  <2> QED
      BY <2>1, <2>2, FrontIsOlder
<1> HIDE DEF taken, live
<1>4. /\ queues'[d] = left /\ drained'[d] = drained[d] \cup Numbers(taken)
      /\ \A c \in Served \ {d} : queues'[c] = queues[c] /\ drained'[c] = drained[c]
    BY <1>2 DEF QueueInv
<1>5. QueueInv'
  <2>1. /\ posts' \in Nat
        /\ queues' = [c \in Served |-> queues'[c]]
        /\ drained' = [c \in Served |-> drained'[c]]
      BY <1>2 DEF QueueInv
  <2>2. ASSUME NEW c \in Served
        PROVE  /\ IsFiniteSet(queues'[c])
               /\ \A x \in queues'[c] : x.no \in 1 .. posts'
               /\ \A y \in drained'[c] : y \in 1 .. posts'
               /\ \A x \in queues'[c], y \in drained'[c] : y < x.no
    <3>1. CASE c = d
      <4>1. IsFiniteSet(left)
          BY <1>1, FS_Subset DEF QueueInv
      <4>2. \A y \in Numbers(taken) : y \in 1 .. posts
          BY <1>1 DEF QueueInv, Numbers
      <4>3. \A x \in left, y \in Numbers(taken) : y < x.no
          BY <1>3 DEF Numbers
      <4> QED
          BY <1>1, <1>2, <1>4, <3>1, <4>1, <4>2, <4>3 DEF QueueInv
    <3>2. CASE c # d
        BY <1>2, <1>4, <3>2 DEF QueueInv
    <3> QED
        BY <3>1, <3>2
  <2> QED
      BY <2>1, <2>2 DEF QueueInv
<1>6. Fifo!Take(d)
  <2> DEFINE W  == [c \in Served |-> Numbers(queues[c])]
             W1 == [c \in Served |-> Numbers(queues'[c])]
  <2>1. Numbers(taken) \in SUBSET W[d]
      BY <1>1 DEF Numbers
  <2>2. \A x \in Numbers(taken), y \in drained[d] : y < x
      BY <1>1 DEF Numbers, QueueInv
  <2>3. Numbers(left) \in SUBSET {w \in W[d] : \A x \in Numbers(taken) : x < w}
    <3>1. ASSUME NEW w \in left
          PROVE  w.no \in W[d] /\ \A x \in Numbers(taken) : x < w.no
        BY <1>1, <1>3 DEF Numbers
    <3> QED
        BY SMTT(60), <3>1 DEF Numbers
  <2> HIDE DEF left
  <2>4. W1 = [W EXCEPT ![d] = Numbers(left)]
    <3>1. queues'[d] = left /\ \A c \in Served \ {d} : queues'[c] = queues[c]
        BY <1>4
    <3> DEFINE Q(c) == Numbers(queues'[c])
    <3>2. Q(d) = Numbers(left) /\ \A c \in Served \ {d} : Q(c) = W[c]
        BY SMTT(60), <3>1
    <3> HIDE DEF W, Q
    <3>3. [c \in Served |-> Q(c)] = [W EXCEPT ![d] = Numbers(left)]
      <4>1. W = [c \in Served |-> Numbers(queues[c])]
          BY DEF W
      <4> QED
          BY <3>2, <4>1
    <3> QED
        BY <3>3 DEF Q
  <2> QED
      BY <1>2, <2>1, <2>2, <2>3, <2>4 DEF Fifo!Take, Numbers
<1> QED
    BY <1>5, <1>6

-----------------------------------------------------------------------------
(* One drain for each request.                                             *)

Serves(k, label) == slot[k].at = label

Key(r) == <<r.dom, r.n>>

(* The request was admitted: it drained, or is about to.                   *)
Fetched(r) ==
    \/ Key(r) \in used
    \/ \E k \in Slots : Serves(k, "drain") /\ slot[k].r = r

(* No delivery of the request can pass the freshness check any more.       *)
Overdue(r) == clock > r.ts + FetchSkew

(* The nonce of the request is kept, and was recorded while the request    *)
(* was fresh.                                                              *)
Known(r) == \E x \in nonces[r.dom] : x.n = r.n /\ x.at >= r.ts - FetchSkew

AskedInv ==
    /\ clock \in Nat /\ polls \in Nat
    /\ \A r \in asked : r.n \in 1 .. polls /\ r.ts \in Int
    /\ \A r, s \in asked : r.n = s.n => r = s
    /\ \A u \in used : \E r \in asked : u = Key(r)

(* A request that is served passed the freshness check at slot[k].now.     *)
SlotInv ==
    /\ slot = [k \in Slots |-> slot[k]]
    /\ \A k \in Slots : Serves(k, "nonce") \/ Serves(k, "drain") =>
          /\ slot[k].r \in asked /\ slot[k].r.dom \in Served
          /\ slot[k].now \in Nat /\ slot[k].now <= clock
          /\ slot[k].now - slot[k].r.ts \in -FetchSkew .. FetchSkew

NonceInv ==
    /\ nonces = [d \in Served |-> nonces[d]]
    /\ \A d \in Served : \A x \in nonces[d] : x.at \in Nat
    /\ shed \in BOOLEAN

(* The drain of slot k is the only one for its request.                    *)
Alone(k) ==
    /\ Key(slot[k].r) \notin used
    /\ \A j \in Slots \ {k} : Serves(j, "drain") => slot[j].r # slot[k].r

(* A request that was admitted is remembered until it is overdue, and a    *)
(* second drain is one whose nonce was looked up when it was.              *)
OnceInv ==
    ~shed =>
      /\ \A r \in asked : Fetched(r) => r.dom \in Served /\ (Overdue(r) \/ Known(r))
      /\ \A k \in Slots : Serves(k, "drain") => Alone(k) \/ Key(slot[k].r) \in late
      /\ reused \subseteq late

DrainInv == AskedInv /\ SlotInv /\ NonceInv /\ OnceInv

LEMMA DrainInvInit == Init => DrainInv
<1> SUFFICES ASSUME Init PROVE DrainInv
    OBVIOUS
<1>1. RelayInit /\ clock = 0 /\ polls = 0 /\ asked = {}
    BY DEF Init, ClockInit
<1>2. \A k \in Slots : slot[k] = Free
    BY <1>1 DEF RelayInit
<1>3. \A k \in Slots : ~Serves(k, "nonce") /\ ~Serves(k, "drain")
    BY SMTT(60), <1>2 DEF Free, Serves
<1>4. SlotInv
    BY <1>1, <1>3 DEF RelayInit, SlotInv
<1> QED
    BY <1>1, <1>3, <1>4 DEF RelayInit, DrainInv, AskedInv, NonceInv, OnceInv

LEMMA Windows == FetchSkew \in Nat /\ NonceTtl \in Nat /\ NonceTtl >= 2 * FetchSkew
BY SMTT(60), RelayAssumption DEF fetch_bounds_ok

(* A nonce that is pruned, at a time that is not ahead of the clock,       *)
(* belongs to a request that is overdue.                                   *)
LEMMA PrunedIsOverdue ==
    ASSUME clock \in Nat, NEW now \in Nat, now <= clock,
           NEW r, r.ts \in Int,
           NEW x, x.at \in Nat, x.at >= r.ts - FetchSkew, ~(now - x.at <= NonceTtl)
    PROVE  Overdue(r)
BY SMTT(60), Windows DEF Overdue

(* Steps that touch no slot and no nonce.                                  *)
LEMMA DrainInvEnqueue ==
    ASSUME DrainInv, UNCHANGED <<clock, nonces, slot, seen, asked, polls>>
    PROVE  DrainInv'
BY DEF DrainInv, AskedInv, SlotInv, NonceInv, OnceInv, seen, Serves, Fetched,
   Overdue, Known, Alone, Key

LEMMA DrainInvPoll ==
    ASSUME DrainInv, poll_once
    PROVE  DrainInv'
<1> DEFINE new == [dom |-> OwnDomain, n |-> polls + 1, ts |-> clock + Ahead, good |-> plan.good]
<1>1. /\ asked' = asked \cup {new} /\ polls' = polls + 1
      /\ UNCHANGED <<clock, nonces, slot, used, reused, late, shed>>
    BY DEF poll_once, relayVars, seen
<1>2. new.n = polls + 1 /\ new.ts \in Int /\ new.dom = OwnDomain
    BY SMTT(60), AheadAssumption DEF DrainInv, AskedInv
<1> HIDE DEF new
<1>3. AskedInv'
    BY SMTT(60), <1>1, <1>2 DEF DrainInv, AskedInv
<1>4. SlotInv' /\ NonceInv'
    BY <1>1 DEF DrainInv, SlotInv, NonceInv, Serves
<1>5. ~Fetched(new)
  <2>1. \A r \in asked : r.n # new.n
      BY SMTT(60), <1>2 DEF DrainInv, AskedInv
  <2>2. Key(new) \notin used
      BY <2>1 DEF DrainInv, AskedInv, Key
  <2> QED
      BY <2>1, <2>2 DEF Fetched, DrainInv, SlotInv
<1>6. OnceInv'
    BY <1>1, <1>5 DEF DrainInv, OnceInv, Serves, Fetched, Overdue, Known, Alone
<1> QED
    BY <1>3, <1>4, <1>6 DEF DrainInv

LEMMA DrainInvTick ==
    ASSUME DrainInv, Tick
    PROVE  DrainInv'
<1>1. /\ clock' = clock + 1
      /\ UNCHANGED <<nonces, slot, used, reused, late, shed, asked, polls>>
    BY DEF Tick, relayVars, seen, fedVars, fetchVars
<1>2. AskedInv' /\ NonceInv'
    BY SMTT(60), <1>1 DEF DrainInv, AskedInv, NonceInv
<1>3. SlotInv'
    BY SMTT(60), <1>1 DEF DrainInv, AskedInv, SlotInv, Serves
<1>4. \A r \in asked : Overdue(r) => Overdue(r)'
    BY SMTT(60), <1>1, RelayAssumption DEF DrainInv, AskedInv, Overdue
<1>5. OnceInv'
    BY <1>1, <1>4 DEF DrainInv, OnceInv, Serves, Fetched, Known, Alone
<1> QED
    BY <1>2, <1>3, <1>5 DEF DrainInv

LEMMA DrainInvRestart ==
    ASSUME DrainInv, RelayRestart, SameRequests
    PROVE  DrainInv'
<1>1. \A k \in Slots : slot'[k] = Free
    BY DEF RelayRestart
<1>2. \A k \in Slots : ~Serves(k, "nonce")' /\ ~Serves(k, "drain")'
    BY SMTT(60), <1>1 DEF Free, Serves
<1>3. SlotInv'
    BY <1>2 DEF RelayRestart, SlotInv
<1> QED
    BY <1>2, <1>3 DEF RelayRestart, SameRequests, DrainInv, AskedInv, NonceInv,
       OnceInv, Fetched

LEMMA DrainInvSweep ==
    ASSUME DrainInv, Sweep, SameRequests
    PROVE  DrainInv'
<1>1. /\ nonces' = [d \in Served |-> Remembered(nonces[d], clock)]
      /\ UNCHANGED <<clock, slot, used, reused, late, shed, asked, polls>>
    BY DEF Sweep, seen, SameRequests
<1>2. AskedInv' /\ SlotInv'
    BY <1>1 DEF DrainInv, AskedInv, SlotInv, Serves
<1>3. NonceInv'
    BY <1>1 DEF DrainInv, NonceInv, Remembered
<1>4. ASSUME NEW r \in asked, r.dom \in Served, Known(r)
      PROVE  Overdue(r) \/ Known(r)'
  <2>1. PICK x \in nonces[r.dom] : x.n = r.n /\ x.at >= r.ts - FetchSkew
      BY <1>4 DEF Known
  <2>2. CASE clock - x.at <= NonceTtl
      BY <1>1, <1>4, <2>1, <2>2 DEF Known, Remembered
  <2>3. CASE ~(clock - x.at <= NonceTtl)
      BY SMTT(60), <1>4, <2>1, <2>3, PrunedIsOverdue DEF DrainInv, AskedInv, NonceInv
  <2> QED
      BY <2>2, <2>3
<1>5. OnceInv'
    BY <1>1, <1>4 DEF DrainInv, OnceInv, Serves, Fetched, Overdue, Alone
<1> QED
    BY <1>2, <1>3, <1>5 DEF DrainInv

(* A slot that goes to something else than a drain leaves the rest alone.  *)
LEMMA DrainInvSlot ==
    ASSUME DrainInv, NEW k \in Slots, NEW v, slot' = [slot EXCEPT ![k] = v],
           UNCHANGED <<clock, nonces, used, reused, late, shed, asked, polls>>,
           v.at # "drain",
           v.at = "nonce" =>
              /\ v.r \in asked /\ v.r.dom \in Served /\ v.now = clock
              /\ v.now - v.r.ts \in -FetchSkew .. FetchSkew
    PROVE  DrainInv'
<1>1. slot'[k] = v /\ \A j \in Slots \ {k} : slot'[j] = slot[j]
    BY DEF DrainInv, SlotInv
<1>2. \A j \in Slots : Serves(j, "drain")' => Serves(j, "drain") /\ slot'[j] = slot[j]
    BY <1>1 DEF Serves
<1>3. SlotInv'
  <2>1. slot' = [j \in Slots |-> slot'[j]]
      BY DEF DrainInv, SlotInv
  <2> QED
      BY SMTT(60), <1>1, <2>1 DEF DrainInv, AskedInv, SlotInv, Serves
<1>4. \A r : Fetched(r)' => Fetched(r)
    BY <1>2 DEF Fetched
<1>5. OnceInv'
  <2>1. \A j \in Slots : Serves(j, "drain")' /\ Alone(j) => Alone(j)'
      BY SMTT(60), <1>2 DEF Alone, Key
  <2>2. \A j \in Slots : Serves(j, "drain")' =>
           (Key(slot[j].r) \in late => Key(slot'[j].r) \in late')
      BY SMTT(60), <1>2 DEF Key
  <2>3. \A r \in asked : Overdue(r) \/ Known(r) => Overdue(r)' \/ Known(r)'
      BY DEF Overdue, Known
  <2> QED
      BY <1>2, <1>4, <2>1, <2>2, <2>3 DEF DrainInv, OnceInv
<1> QED
    BY <1>3, <1>5 DEF DrainInv, AskedInv, NonceInv

LEMMA DrainInvArrives ==
    ASSUME DrainInv, NEW k \in Slots, NEW r \in asked, FetchArrives(k, r), SameRequests
    PROVE  DrainInv'
<1> DEFINE a == fetch_admit(buckets[r.dom], clock)
           w == verify_fetch_auth(r, clock)
           v == IF ~a.ok THEN Reply(r, "RateLimited", {})
                ELSE IF w # "ok" THEN Reply(r, w, {})
                ELSE Serving("nonce", r, clock)
<1>1. /\ slot' = [slot EXCEPT ![k] = v] /\ r.dom \in Served
      /\ UNCHANGED <<clock, nonces, used, reused, late, shed, asked, polls>>
    BY DEF FetchArrives, seen, SameRequests
<1>2. \/ v.at = "reply"
      \/ v = Serving("nonce", r, clock) /\ w = "ok"
    BY DEF Reply
<1>3. w = "ok" => clock - r.ts \in -FetchSkew .. FetchSkew
    BY DEF verify_fetch_auth
<1> HIDE DEF v, w
<1>4. CASE v.at = "reply"
    BY <1>1, <1>4, DrainInvSlot
<1>5. CASE v = Serving("nonce", r, clock) /\ w = "ok"
  <2>1. v.at = "nonce" /\ v.r = r /\ v.now = clock
      BY <1>5 DEF Serving
  <2> QED
      BY <1>1, <1>3, <1>5, <2>1, DrainInvSlot
<1> QED
    BY <1>2, <1>4, <1>5

LEMMA DrainInvAnswered ==
    ASSUME DrainInv, NEW k \in Slots, FetchAnswered(k), SameRequests
    PROVE  DrainInv'
<1>1. /\ slot' = [slot EXCEPT ![k] = Free]
      /\ UNCHANGED <<clock, nonces, used, reused, late, shed, asked, polls>>
    BY DEF FetchAnswered, seen, SameRequests
<1>2. Free.at = "free"
    BY DEF Free
<1> QED
    BY <1>1, <1>2, DrainInvSlot

(* A nonce that is recorded was not admitted before, is known from then    *)
(* on, and pushes out no other unless `shed' says so.                      *)
LEMMA RecordKeeps ==
    ASSUME NEW known, NEW n, NEW now
    PROVE  LET res == record_nonce(known, n, now)
           IN  /\ res.shed \in BOOLEAN /\ res.ok \in BOOLEAN
               /\ \A x \in res.known : x \in known \/ x = [n |-> n, at |-> now]
               /\ ~res.shed => Remembered(known, now) \subseteq res.known
               /\ res.ok => /\ \A x \in Remembered(known, now) : x.n # n
                            /\ [n |-> n, at |-> now] \in res.known
<1> DEFINE kept == Remembered(known, now)
           room == IF Cardinality(kept) >= NonceMax /\ kept # {}
                   THEN kept \ {OldestNonce(kept)} ELSE kept
           new  == [n |-> n, at |-> now]
<1>1. kept \subseteq known /\ room \subseteq kept
    BY DEF Remembered
<1>2. CASE \E x \in kept : x.n = n
  <2>1. record_nonce(known, n, now) = [ok |-> FALSE, known |-> kept, shed |-> FALSE]
      BY <1>2 DEF record_nonce
  <2>2. kept \subseteq known /\ kept = Remembered(known, now)
      BY <1>1
  <2> HIDE DEF kept
  <2> QED
      BY SMTT(60), <2>1, <2>2
<1>3. CASE ~ \E x \in kept : x.n = n
  <2>1. record_nonce(known, n, now) =
          [ok |-> TRUE, known |-> room \cup {new}, shed |-> room # kept]
      BY <1>3 DEF record_nonce
  <2>2. \A x \in kept : x.n # n
      BY <1>3
  <2> DEFINE res == record_nonce(known, n, now)
  <2> HIDE DEF room, new
  <2>3. res.known = room \cup {new} /\ res.ok = TRUE /\ res.shed = (room # kept)
      BY SMTT(60), <2>1
  <2>4. kept = Remembered(known, now)
      OBVIOUS
  <2> HIDE DEF res, kept
  <2>5. \A x \in res.known : x \in known \/ x = new
      BY <1>1, <2>3
  <2>6. ~res.shed => Remembered(known, now) \subseteq res.known
      BY <2>3, <2>4
  <2>7. res.shed \in BOOLEAN /\ res.ok \in BOOLEAN
      BY <2>3
  <2>8. new \in res.known /\ \A x \in Remembered(known, now) : x.n # n
      BY <2>2, <2>3, <2>4
  <2> QED
      BY <2>5, <2>6, <2>7, <2>8 DEF new, res
<1> QED
    BY <1>2, <1>3

LEMMA DrainInvNonce ==
    ASSUME DrainInv, NEW k \in Slots, FetchNonce(k), SameRequests
    PROVE  DrainInv'
<1>0. PICK r \in asked, now \in Nat : r = slot[k].r /\ now = slot[k].now
    BY DEF FetchNonce, Serves, DrainInv, SlotInv
<1> DEFINE res == record_nonce(nonces[r.dom], r.n, now)
           new == [n |-> r.n, at |-> now]
           v   == IF res.ok THEN Serving("drain", r, now) ELSE Reply(r, "ReplayedNonce", {})
<1>1. /\ Serves(k, "nonce") /\ r \in asked /\ r.dom \in Served
      /\ now \in Nat /\ now <= clock
      /\ now - r.ts \in -FetchSkew .. FetchSkew /\ r.ts \in Int /\ clock \in Nat
    BY <1>0 DEF FetchNonce, Serves, DrainInv, SlotInv, AskedInv
<1>2. /\ nonces' = [nonces EXCEPT ![r.dom] = res.known]
      /\ shed' = (shed \/ res.shed)
      /\ slot' = [slot EXCEPT ![k] = v]
      /\ late \subseteq late' /\ (Overdue(r) => Key(r) \in late')
      /\ UNCHANGED <<clock, used, reused, asked, polls>>
    BY <1>0 DEF FetchNonce, SameRequests, Overdue, Key
<1>3. /\ res.shed \in BOOLEAN /\ res.ok \in BOOLEAN
      /\ \A x \in res.known : x \in nonces[r.dom] \/ x = new
      /\ ~res.shed => Remembered(nonces[r.dom], now) \subseteq res.known
      /\ res.ok => /\ \A x \in Remembered(nonces[r.dom], now) : x.n # r.n
                   /\ new \in res.known
    BY RecordKeeps
<1>4. new.n = r.n /\ new.at = now
    OBVIOUS
<1>5. /\ ~res.ok => v.at = "reply"
      /\ res.ok => v.at = "drain" /\ v.r = r /\ v.now = now
    BY DEF Serving, Reply
<1> HIDE DEF res, v, new
<1>6. /\ nonces'[r.dom] = res.known
      /\ \A d \in Served \ {r.dom} : nonces'[d] = nonces[d]
    BY <1>1, <1>2 DEF DrainInv, NonceInv
<1>7. slot'[k] = v /\ \A j \in Slots \ {k} : slot'[j] = slot[j]
    BY <1>2 DEF DrainInv, SlotInv
<1>8. AskedInv'
    BY <1>2 DEF DrainInv, AskedInv
<1>9. SlotInv'
  <2>1. slot' = [j \in Slots |-> slot'[j]]
      BY <1>2 DEF DrainInv, SlotInv
  <2> QED
      BY <1>1, <1>2, <1>3, <1>5, <1>7, <2>1 DEF DrainInv, SlotInv, Serves
<1>10. NonceInv'
  <2>1. nonces' = [d \in Served |-> nonces'[d]]
      BY <1>2 DEF DrainInv, NonceInv
  <2>2. \A d \in Served : \A x \in nonces'[d] : x.at \in Nat
      BY <1>1, <1>3, <1>4, <1>6 DEF DrainInv, NonceInv
  <2>3. shed' \in BOOLEAN
      BY <1>2, <1>3 DEF DrainInv, NonceInv
  <2> QED
      BY <2>1, <2>2, <2>3 DEF NonceInv
<1>11. ASSUME ~shed'
       PROVE  ~shed /\ ~res.shed
    BY <1>2, <1>3, <1>11 DEF DrainInv, NonceInv
<1>12. ASSUME ~shed', NEW s \in asked, s.dom \in Served, Known(s)
       PROVE  Overdue(s) \/ Known(s)'
  <2>1. PICK x \in nonces[s.dom] : x.n = s.n /\ x.at >= s.ts - FetchSkew
      BY <1>12 DEF Known
  <2>2. CASE s.dom # r.dom
      BY <1>2, <1>6, <1>12, <2>1, <2>2 DEF Known
  <2>3. CASE s.dom = r.dom /\ now - x.at <= NonceTtl
      BY <1>2, <1>3, <1>6, <1>11, <1>12, <2>1, <2>3 DEF Known, Remembered
  <2>4. CASE ~(now - x.at <= NonceTtl)
      BY <1>1, <1>12, <2>1, <2>4, PrunedIsOverdue DEF DrainInv, AskedInv, NonceInv
  <2> QED
      BY <2>2, <2>3, <2>4
<1>13. ASSUME ~shed', res.ok
       PROVE  (~Fetched(r) \/ Key(r) \in late') /\ Known(r)'
  <2>1. Known(r)'
      BY SMTT(60), <1>1, <1>2, <1>3, <1>4, <1>6, <1>13, RelayAssumption DEF Known
  <2>2. ~Known(r)
    <3> SUFFICES ASSUME NEW x \in nonces[r.dom], x.n = r.n, x.at >= r.ts - FetchSkew
                 PROVE  FALSE
        BY DEF Known
    <3>1. x.at \in Nat
        BY <1>1 DEF DrainInv, NonceInv
    <3>2. now - x.at <= NonceTtl
        BY SMTT(60), <1>1, <3>1, Windows
    <3> QED
        BY <1>3, <1>13, <3>2 DEF Remembered
  <2> QED
      BY <1>1, <1>2, <1>11, <1>13, <2>1, <2>2 DEF DrainInv, OnceInv
<1>14. \A s : Fetched(s)' => Fetched(s) \/ (res.ok /\ s = r)
    BY <1>2, <1>5, <1>7 DEF Fetched, Serves
<1>15. OnceInv'
  <2> SUFFICES ASSUME ~shed'
               PROVE  /\ \A s \in asked : Fetched(s)' =>
                            s.dom \in Served /\ (Overdue(s) \/ Known(s)')
                      /\ \A j \in Slots : Serves(j, "drain")' =>
                            Alone(j)' \/ Key(slot'[j].r) \in late'
                      /\ reused \subseteq late'
      BY <1>2 DEF OnceInv, Overdue, Key
  <2>1. ASSUME NEW s \in asked, Fetched(s)'
        PROVE  s.dom \in Served /\ (Overdue(s) \/ Known(s)')
    <3>1. CASE res.ok /\ s = r
        BY <1>1, <1>13, <3>1
    <3>2. CASE Fetched(s)
        BY <1>11, <1>12, <3>2 DEF DrainInv, OnceInv
    <3> QED
        BY <1>14, <2>1, <3>1, <3>2
  <2>2. ASSUME NEW j \in Slots, Serves(j, "drain")'
        PROVE  Alone(j)' \/ Key(slot'[j].r) \in late'
    <3>0. Alone(j)' <=>
            /\ Key(slot'[j].r) \notin used'
            /\ \A i \in Slots \ {j} : Serves(i, "drain")' => slot'[i].r # slot'[j].r
        BY DEF Alone, Key
    <3>1. CASE j = k
      <4>1. res.ok /\ slot'[k].r = r
          BY <1>3, <1>5, <1>7, <2>2, <3>1 DEF Serves
      <4>2. \A i \in Slots \ {k} : Serves(i, "drain")' => Serves(i, "drain") /\ slot'[i] = slot[i]
          BY <1>7 DEF Serves
      <4>3. CASE Key(r) \in late'
          BY <3>1, <4>1, <4>3
      <4>4. CASE ~Fetched(r)
          BY SMTT(60), <1>2, <3>0, <3>1, <4>1, <4>2, <4>4 DEF Fetched
      <4> QED
          BY <1>13, <4>1, <4>3, <4>4
    <3>2. CASE j # k
      <4>1. slot'[j] = slot[j] /\ Serves(j, "drain")
          BY <1>7, <2>2, <3>2 DEF Serves
      <4>2. Serves(k, "drain")' => slot'[k].r = r /\ (~Fetched(r) \/ Key(r) \in late')
          BY <1>3, <1>5, <1>7, <1>13 DEF Serves
      <4>3. Alone(j) \/ Key(slot[j].r) \in late
          BY <1>11, <4>1 DEF DrainInv, OnceInv
      <4>4. CASE Key(slot[j].r) \in late
          BY <1>2, <4>1, <4>4
      <4>5. CASE Alone(j) /\ ~(Serves(k, "drain")' /\ slot[j].r = r)
        <5>1. ASSUME NEW i \in Slots \ {j}, Serves(i, "drain")'
              PROVE  slot'[i].r # slot'[j].r
          <6>1. CASE i = k
              BY <4>1, <4>2, <4>5, <5>1, <6>1
          <6>2. CASE i # k
              BY <1>7, <4>1, <4>5, <5>1, <6>2 DEF Alone, Serves
          <6> QED
              BY <6>1, <6>2
        <5>2. Key(slot'[j].r) \notin used'
            BY SMTT(60), <1>2, <4>1, <4>5 DEF Alone
        <5> QED
            BY <3>0, <5>1, <5>2
      <4>6. CASE Serves(k, "drain")' /\ slot[j].r = r
          BY <4>1, <4>2, <4>6 DEF Fetched
      <4> QED
          BY <4>3, <4>4, <4>5, <4>6
    <3> QED
        BY <3>1, <3>2
  <2> QED
      BY <1>2, <1>11, <2>1, <2>2 DEF DrainInv, OnceInv
<1> QED
    BY <1>8, <1>9, <1>10, <1>15 DEF DrainInv

LEMMA DrainInvDrain ==
    ASSUME DrainInv, NEW k \in Slots, FetchDrain(k), SameRequests
    PROVE  DrainInv'
<1> DEFINE r == slot[k].r
<1>1. Serves(k, "drain") /\ r \in asked
    BY DEF FetchDrain, Serves, DrainInv, SlotInv
<1>2. PICK v : /\ v.at = "reply" /\ slot' = [slot EXCEPT ![k] = v]
    BY DEF FetchDrain, Reply
<1>3. /\ used' = used \cup {Key(r)}
      /\ reused' = reused \cup (used \cap {Key(r)})
      /\ UNCHANGED <<clock, nonces, late, shed, asked, polls>>
    BY DEF FetchDrain, SameRequests, Key
<1>4. slot'[k] = v /\ \A j \in Slots \ {k} : slot'[j] = slot[j]
    BY <1>2 DEF DrainInv, SlotInv
<1>5. AskedInv'
    BY <1>1, <1>3 DEF DrainInv, AskedInv
<1>6. SlotInv'
  <2>1. slot' = [j \in Slots |-> slot'[j]]
      BY <1>2 DEF DrainInv, SlotInv
  <2> QED
      BY <1>2, <1>3, <1>4, <2>1 DEF DrainInv, SlotInv, Serves
<1>7. NonceInv'
    BY <1>3 DEF DrainInv, NonceInv
<1>8. \A s \in asked : Fetched(s)' => Fetched(s)
  <2> SUFFICES ASSUME NEW s \in asked, Fetched(s)' PROVE Fetched(s)
      OBVIOUS
  <2>1. CASE Key(s) = Key(r)
    <3>1. s = r
        BY <1>1, <2>1 DEF DrainInv, AskedInv, Key
    <3> QED
        BY <1>1, <3>1 DEF Fetched
  <2>2. CASE Key(s) # Key(r)
      BY <1>2, <1>3, <1>4, <2>2 DEF Fetched, Serves
  <2> QED
      BY <2>1, <2>2
<1>9. OnceInv'
  <2> SUFFICES ASSUME ~shed
               PROVE  /\ \A s \in asked : Fetched(s)' =>
                            s.dom \in Served /\ (Overdue(s) \/ Known(s))
                      /\ \A j \in Slots : Serves(j, "drain")' =>
                            Alone(j)' \/ Key(slot'[j].r) \in late
                      /\ reused' \subseteq late
      BY <1>3 DEF OnceInv, Overdue, Known, Key
  <2>1. reused' \subseteq late
      BY <1>1, <1>3 DEF DrainInv, OnceInv, Alone
  <2>2. ASSUME NEW j \in Slots, Serves(j, "drain")'
        PROVE  Alone(j)' \/ Key(slot'[j].r) \in late
    <3>1. j # k /\ slot'[j] = slot[j] /\ Serves(j, "drain")
        BY <1>2, <1>4, <2>2 DEF Serves
    <3>2. CASE Key(slot[j].r) \in late
        BY <3>1, <3>2
    <3>3. CASE Alone(j)
      <4>1. slot[j].r # r /\ slot[j].r \in asked
          BY <1>1, <3>1, <3>3 DEF DrainInv, Alone, SlotInv
      <4>2. Key(slot[j].r) # Key(r)
          BY <1>1, <4>1 DEF DrainInv, AskedInv, Key
      <4>3. \A i \in Slots : Serves(i, "drain")' => Serves(i, "drain") /\ slot'[i] = slot[i]
          BY <1>2, <1>4 DEF Serves
      <4> QED
          BY <1>3, <3>1, <3>3, <4>2, <4>3 DEF Alone, Key
    <3> QED
        BY <3>1, <3>2, <3>3 DEF DrainInv, OnceInv
  <2> QED
      BY <1>3, <1>8, <2>1, <2>2 DEF DrainInv, OnceInv
<1> QED
    BY <1>5, <1>6, <1>7, <1>9 DEF DrainInv

LEMMA DrainInvNext == DrainInv /\ [Next]_vars => DrainInv'
<1> SUFFICES ASSUME DrainInv, RelaySees PROVE DrainInv'
    BY RelayView
<1>1. ASSUME NEW d \in Served, NEW e, enqueue_handler(d, e), SameRequests
      PROVE  DrainInv'
    BY <1>1, DrainInvEnqueue DEF enqueue_handler, SameRequests
<1>2. CASE UNCHANGED <<clock, relayVars, asked, polls>>
    BY <1>2, DrainInvEnqueue DEF relayVars
<1> QED
    BY <1>1, <1>2, DrainInvArrives, DrainInvNonce, DrainInvDrain, DrainInvAnswered,
       DrainInvSweep, DrainInvRestart, DrainInvPoll, DrainInvTick
       DEF RelaySees, SlotStep

(* While the relay runs, a fetch request drains at most once, however      *)
(* often it is delivered and however its deliveries overlap, unless a live *)
(* nonce had to be evicted or a delivery waited for the lock until its     *)
(* window had closed (ingest_fetch, record_nonce): for every number of     *)
(* requests and slots, however long the handlers wait, and all windows for *)
(* which the nonces are kept for twice the clock skew.                     *)
THEOREM FetchDrainsOnce == Spec => []OneDrain
<1>1. DrainInv => OneDrain
    BY DEF DrainInv, OnceInv, OneDrain
<1> QED
    BY <1>1, DrainInvInit, DrainInvNext, PTL DEF Spec

(* The queues of the relay, which drop their oldest entry when full, drop  *)
(* what expired and lose everything in a restart, implement channels that  *)
(* neither repeat nor reorder: for every number of domains, slots and      *)
(* posts and all limits.                                                   *)
THEOREM QueuesImplementChannels == Spec => QueueIsFifo
<1>1. Init => QueueInv /\ Fifo!Init
  <2> SUFFICES ASSUME Init PROVE Fifo!Init
      BY QueueInvInit
  <2>1. RelayInit
      BY DEF Init
  <2> QED
      BY <2>1 DEF RelayInit, Fifo!Init
<1>2. QueueInv /\ DrainInv /\ [Next]_vars => QueueInv' /\ [Fifo!Next]_(Fifo!vars)
  <2> SUFFICES ASSUME QueueInv, DrainInv, RelaySees
               PROVE  QueueInv' /\ [Fifo!Next]_(Fifo!vars)
      BY RelayView
  <2>1. ASSUME NEW d \in Served, NEW e, enqueue_handler(d, e)
        PROVE  QueueInv' /\ Fifo!Next
      BY <2>1, EnqueueStep DEF Fifo!Next
  <2>2. ASSUME UNCHANGED <<queues, posts, drained>>
        PROVE  QueueInv' /\ UNCHANGED Fifo!vars
      BY <2>2 DEF QueueInv, Fifo!vars
  <2>3. ASSUME NEW k \in Slots, FetchDrain(k)
        PROVE  QueueInv' /\ [Fifo!Next]_(Fifo!vars)
    <3>1. slot[k].r.dom \in Served
        BY <2>3 DEF FetchDrain, DrainInv, SlotInv, Serves
    <3> QED
        BY <2>3, <3>1, DrainStep DEF FetchDrain, Fifo!Next
  <2>4. CASE Sweep \/ RelayRestart
    <3>1. /\ UNCHANGED <<posts, drained>>
          /\ queues' = [d \in Served |-> queues'[d]]
          /\ \A d \in Served : queues'[d] \subseteq queues[d]
        BY <2>4 DEF Sweep, RelayRestart, retain_unexpired
    <3> QED
        BY <3>1, LoseStep DEF Fifo!Next
  <2>5. ASSUME NEW k \in Slots, NEW r, FetchArrives(k, r) \/ FetchNonce(k) \/ FetchAnswered(k)
        PROVE  UNCHANGED <<queues, posts, drained>>
      BY <2>5 DEF FetchArrives, FetchNonce, FetchAnswered
  <2>6. CASE poll_once \/ Tick \/ UNCHANGED <<clock, relayVars, asked, polls>>
    <3>1. UNCHANGED <<queues, posts, drained>>
        BY <2>6 DEF poll_once, Tick, relayVars
    <3> QED
        BY <2>2, <3>1
  <2> QED
      BY <2>1, <2>2, <2>3, <2>4, <2>5, <2>6 DEF RelaySees, SlotStep
<1> QED
    BY <1>1, <1>2, DrainInvInit, DrainInvNext, PTL DEF Spec, QueueIsFifo, Fifo!Spec

-----------------------------------------------------------------------------
(* Tasks.                                                                  *)

(* Every task has its place, and every ingester its request.               *)
TaskInv ==
    /\ pc = [t \in Tasks |-> pc[t]]
    /\ req = [t \in Ingesters |-> req[t]]

LEMMA TaskKinds ==
    /\ Fetcher \in Ingesters /\ Fetcher \in Tasks
    /\ Handlers \subseteq Ingesters /\ Ingesters \subseteq Tasks
    /\ Principals \subseteq Tasks
    /\ \A n \in Principals : n \notin Ingesters /\ n # Fetcher
    /\ \A h \in Handlers : h # Fetcher
BY TaskAssumption DEF Tasks, Ingesters

(* What the steps of an egress task leave alone, and where it goes.        *)
LEMMA EgressView ==
    ASSUME TaskInv, NEW n \in Principals, EgressStep(n)
    PROVE  /\ TaskInv'
           /\ \A t \in Ingesters : pc'[t] = pc[t]
           /\ UNCHANGED <<running, routes, ingressVars>>
<1>1. PICK l : pc' = [pc EXCEPT ![n] = l]
    BY DEF EgressStep, EgressLock, EgressAwait, RelayOne, NotifyStart, NotifyGuard,
           NotifySend, Advance, Goto
<1>2. UNCHANGED <<running, routes, ingressVars>>
    BY DEF EgressStep, EgressLock, EgressAwait, RelayOne, NotifyStart, NotifyGuard,
           NotifySend
<1>3. TaskInv'
    BY <1>1, <1>2, TaskKinds DEF TaskInv, ingressVars
<1>4. \A t \in Ingesters : pc'[t] = pc[t]
    BY <1>1, TaskKinds DEF TaskInv
<1> QED
    BY <1>2, <1>3, <1>4

(* An answer frees the ingester; a request that is taken up occupies it.   *)
LEMMA AnsweredView ==
    ASSUME TaskInv, NEW t \in Ingesters, NEW r, NEW why, Answered(t, r, why)
    PROVE  /\ TaskInv'
           /\ pc'[t] = IF t = Fetcher THEN "batch" ELSE "free"
           /\ \A s \in Tasks \ {t} : pc'[s] = pc[s]
           /\ \A s \in Ingesters \ {t} : req'[s] = req[s]
BY TaskKinds DEF TaskInv, Answered, Goto

LEMMA IngestView ==
    ASSUME TaskInv, NEW t \in Ingesters, NEW e, NEW via, Ingest(t, e, via)
    PROVE  /\ TaskInv'
           /\ pc'[t] \in {"look", IF t = Fetcher THEN "batch" ELSE "free"}
           /\ \A s \in Tasks \ {t} : pc'[s] = pc[s]
           /\ \A s \in Ingesters \ {t} : req'[s] = req[s]
           /\ pc'[t] = "look" => /\ e.flaw # "shape"
                                 /\ req'[t] = {[e |-> e, via |-> via, now |-> clock]}
<1> DEFINE r == [e |-> e, via |-> via, now |-> clock]
<1>1. CASE ~peek_guard_fields(e)
  <2>1. Answered(t, r, "BadEnvelopeShape")
      BY <1>1 DEF Ingest
  <2> QED
      BY <2>1, AnsweredView
<1>2. CASE peek_guard_fields(e)
  <2>1. /\ req' = [req EXCEPT ![t] = {r}]
        /\ pc' = [pc EXCEPT ![t] = "look"]
        /\ e.flaw # "shape"
      BY <1>2 DEF Ingest, Goto, peek_guard_fields
  <2> QED
      BY <2>1, TaskKinds DEF TaskInv
<1> QED
    BY <1>1, <1>2

LEMMA IngestStepView ==
    ASSUME TaskInv, NEW t \in Ingesters, IngestStep(t)
    PROVE  /\ TaskInv'
           /\ pc[t] \in {"look", "gates", "deliver"}
           /\ pc'[t] \in {"gates", "deliver", IF t = Fetcher THEN "batch" ELSE "free"}
           /\ \A s \in Tasks \ {t} : pc'[s] = pc[s]
           /\ \A s \in Ingesters \ {t} : req'[s] = req[s]
           /\ UNCHANGED <<running, routes, egressVars>>
<1>1. CASE IngestLook(t)
    BY <1>1, TaskKinds DEF IngestLook, TaskInv, Goto, ingressVars
<1>2. CASE ingest_inbound_at(t)
  <2>1. pc[t] = "gates" /\ UNCHANGED <<running, routes, egressVars>>
      BY <1>2 DEF ingest_inbound_at
  <2>2. \/ \E why : Answered(t, Request(t), why)
        \/ Goto(t, "deliver") /\ UNCHANGED req
      BY <1>2 DEF ingest_inbound_at
  <2>3. CASE \E why : Answered(t, Request(t), why)
      BY <2>1, <2>3, AnsweredView
  <2>4. CASE Goto(t, "deliver") /\ UNCHANGED req
      BY <2>1, <2>4, TaskKinds DEF TaskInv, Goto
  <2> QED
      BY <2>2, <2>3, <2>4
<1>3. CASE deliver(t)
  <2>1. pc[t] = "deliver" /\ UNCHANGED <<running, routes, egressVars>>
      BY <1>3 DEF deliver
  <2>2. \E why : Answered(t, Request(t), why)
      BY <1>3 DEF deliver
  <2> QED
      BY <2>1, <2>2, AnsweredView
<1> QED
    BY <1>1, <1>2, <1>3 DEF IngestStep

(* The fetch loop moves by itself, and not while it ingests.               *)
LEMMA FetcherView ==
    ASSUME TaskInv, NEW l, Goto(Fetcher, l), UNCHANGED req
    PROVE  /\ TaskInv'
           /\ pc'[Fetcher] = l
           /\ \A s \in Tasks \ {Fetcher} : pc'[s] = pc[s]
BY TaskKinds DEF TaskInv, Goto

-----------------------------------------------------------------------------
(* From the relay to the ingest core.                                      *)

(* What the relay answers with a refusal carries nothing; the loop waits   *)
(* for an answer or goes through a batch, never both.                      *)
FetchInv ==
    /\ slot = [k \in Slots |-> slot[k]]
    /\ drained = [d \in Served |-> drained[d]]
    /\ \A k \in Slots :
          /\ slot[k].at \in {"nonce", "drain"} => slot[k].r.dom \in Served
          /\ slot[k].at = "reply" /\ slot[k].status # 200 => slot[k].batch = {}
    /\ mine # Nobody => mine \in Slots /\ pc[Fetcher] = "waiting"
    /\ batch # {} => pc[Fetcher] \in {"batch", "look", "gates", "deliver"}

HandledInv == TaskInv /\ FetchInv /\ DrainedIsIngested

LEMMA HandledInvInit == Init => HandledInv
<1> SUFFICES ASSUME Init PROVE HandledInv
    OBVIOUS
<1>1. RelayInit /\ GatewayInit /\ mine = Nobody /\ batch = {}
    BY DEF Init
<1>2. \A k \in Slots : slot[k].at = "free"
    BY <1>1 DEF RelayInit, Free
<1>3. TaskInv
    BY <1>1, TaskKinds DEF GatewayInit, TaskInv
<1>4. FetchInv
    BY <1>1, <1>2 DEF RelayInit, FetchInv
<1>5. DrainedIsIngested
    BY <1>1 DEF RelayInit, DrainedIsIngested
<1> QED
    BY <1>3, <1>4, <1>5 DEF HandledInv

(* Entries that move on, from a response to a batch and so on, stay        *)
(* accounted for.                                                          *)
Pending(no) ==
    \/ \E x \in lost \cup spoiled \cup batch : x.no = no
    \/ \E k \in Slots : slot[k].at = "reply" /\ \E x \in slot[k].batch : x.no = no
    \/ no \in ingested

LEMMA StillHandled ==
    ASSUME HandledInv, UNCHANGED drained, \A no : Pending(no) => Pending(no)'
    PROVE  DrainedIsIngested'
<1> SUFFICES ASSUME NEW d \in Served, NEW no \in drained[d]
             PROVE  Pending(no)'
    BY DEF DrainedIsIngested, Pending
<1>1. Pending(no)
    BY DEF HandledInv, DrainedIsIngested, Pending
<1> QED
    BY <1>1

(* Steps that are nothing to the entries.                                  *)
LEMMA HandledInvSame ==
    ASSUME HandledInv, TaskInv',
           UNCHANGED <<slot, drained, lost, spoiled, batch, ingested, mine>>,
           pc'[Fetcher] = pc[Fetcher]
    PROVE  HandledInv'
<1>1. FetchInv'
    BY DEF HandledInv, FetchInv
<1>2. DrainedIsIngested'
    BY DEF HandledInv, DrainedIsIngested
<1> QED
    BY <1>1, <1>2 DEF HandledInv

(* The relay's own steps.                                                  *)
LEMMA HandledInvRelay ==
    ASSUME HandledInv, NEW k \in Slots,
           FetchNonce(k) \/ FetchDrain(k),
           UNCHANGED <<gatewayVars, fedVars>>
    PROVE  HandledInv'
<1>1. TaskInv' /\ UNCHANGED <<lost, spoiled, batch, ingested, mine, pc>>
    BY DEF HandledInv, TaskInv, gatewayVars, ingressVars, fedVars, fetchVars
<1>2. PICK s : slot' = [slot EXCEPT ![k] = s]
    BY DEF FetchNonce, FetchDrain
<1>3. slot'[k] = s /\ (\A j \in Slots \ {k} : slot'[j] = slot[j])
      /\ slot' = [j \in Slots |-> slot'[j]] /\ slot[k].at \in {"nonce", "drain"}
    BY <1>2 DEF HandledInv, FetchInv, FetchNonce, FetchDrain
<1> DEFINE r == slot[k].r
<1>4. r.dom \in Served
    BY <1>3 DEF HandledInv, FetchInv
<1>5. CASE FetchNonce(k)
  <2>1. UNCHANGED drained
      BY <1>5 DEF FetchNonce
  <2>2. \/ s.at = "drain" /\ s.r = r
        \/ s.at = "reply" /\ s.batch = {}
      BY <1>3, <1>5 DEF FetchNonce, Serving, Reply
  <2>3. FetchInv'
    <3>1. ASSUME NEW j \in Slots
          PROVE  /\ slot'[j].at \in {"nonce", "drain"} => slot'[j].r.dom \in Served
                 /\ slot'[j].at = "reply" /\ slot'[j].status # 200 => slot'[j].batch = {}
      <4>1. CASE j = k
          BY <1>3, <1>4, <2>2, <4>1
      <4>2. CASE j # k
          BY SMTT(60), <1>3, <4>2 DEF HandledInv, FetchInv
      <4> QED
          BY <4>1, <4>2
    <3> QED
        BY <1>1, <1>3, <2>1, <3>1 DEF HandledInv, FetchInv
  <2>4. \A no : Pending(no) => Pending(no)'
      BY <1>1, <1>3 DEF Pending
  <2> QED
      BY <1>1, <2>1, <2>3, <2>4, StillHandled DEF HandledInv
<1>6. CASE FetchDrain(k)
  <2> DEFINE given == drain(queues[r.dom], slot[k].now)
  <2>1. /\ drained' = [drained EXCEPT ![r.dom] = @ \cup {x.no : x \in given}]
        /\ s.at = "reply" /\ s.batch = given /\ s.status = 200
      BY SMTT(60), <1>3, <1>6 DEF FetchDrain, Reply, fetch_reject_response
  <2>2. /\ drained' = [d \in Served |-> drained'[d]]
        /\ drained'[r.dom] = drained[r.dom] \cup {x.no : x \in given}
        /\ \A d \in Served \ {r.dom} : drained'[d] = drained[d]
      BY <1>4, <2>1 DEF HandledInv, FetchInv
  <2>3. FetchInv'
    <3>1. ASSUME NEW j \in Slots
          PROVE  /\ slot'[j].at \in {"nonce", "drain"} => slot'[j].r.dom \in Served
                 /\ slot'[j].at = "reply" /\ slot'[j].status # 200 => slot'[j].batch = {}
      <4>1. CASE j = k
          BY <1>3, <2>1, <4>1
      <4>2. CASE j # k
          BY SMTT(60), <1>3, <4>2 DEF HandledInv, FetchInv
      <4> QED
          BY <4>1, <4>2
    <3> QED
        BY <1>1, <1>3, <2>2, <3>1 DEF HandledInv, FetchInv
  <2>4. \A no : Pending(no) => Pending(no)'
      BY <1>1, <1>3 DEF Pending
  <2>5. \A x \in given : Pending(x.no)'
      BY SMTT(60), <1>3, <2>1 DEF Pending
  <2> HIDE DEF given
  <2>6. ASSUME NEW d \in Served, NEW no \in drained'[d]
        PROVE  Pending(no)'
    <3>1. CASE no \in drained[d]
        BY <2>4, <3>1 DEF HandledInv, DrainedIsIngested, Pending
    <3>2. CASE no \notin drained[d]
        BY SMTT(60), <2>2, <2>5, <2>6, <3>2
    <3> QED
        BY <3>1, <3>2
  <2>7. DrainedIsIngested'
      BY <2>6 DEF DrainedIsIngested, Pending
  <2> QED
      BY <1>1, <2>3, <2>7 DEF HandledInv
<1> QED
    BY <1>5, <1>6

(* A request comes in at the relay.                                        *)
LEMMA HandledInvArrive ==
    ASSUME HandledInv, NEW k \in Slots, Arrive(k)
    PROVE  HandledInv'
<1>1. PICK r \in asked : FetchArrives(k, r)
    BY DEF Arrive
<1>2. PICK s : slot' = [slot EXCEPT ![k] = s]
               /\ ((s.at = "nonce" /\ s.r = r) \/ (s.at = "reply" /\ s.batch = {}))
  <2> DEFINE a == fetch_admit(buckets[r.dom], clock)
             v == verify_fetch_auth(r, clock)
             s0 == IF ~a.ok THEN Reply(r, "RateLimited", {})
                   ELSE IF v # "ok" THEN Reply(r, v, {})
                   ELSE Serving("nonce", r, clock)
  <2>1. slot' = [slot EXCEPT ![k] = s0]
      BY <1>1 DEF FetchArrives
  <2>2. (s0.at = "nonce" /\ s0.r = r) \/ (s0.at = "reply" /\ s0.batch = {})
      BY DEF Reply, Serving
  <2> HIDE DEF s0
  <2> QED
      BY <2>1, <2>2
<1>3. /\ slot'[k] = s /\ (\A j \in Slots \ {k} : slot'[j] = slot[j])
      /\ slot' = [j \in Slots |-> slot'[j]]
      /\ slot[k].at = "free" /\ r.dom \in Served
    BY SMTT(60), <1>1, <1>2 DEF HandledInv, FetchInv, FetchArrives, Free
<1>4. UNCHANGED <<drained, lost, spoiled, batch, ingested, req>>
    BY <1>1 DEF Arrive, FetchArrives
<1>5. \/ pc[Fetcher] = "asked" /\ Goto(Fetcher, "waiting") /\ mine' = k
      \/ UNCHANGED <<pc, mine>>
    BY DEF Arrive
<1>6. /\ TaskInv'
      /\ \/ pc[Fetcher] = "asked" /\ pc'[Fetcher] = "waiting" /\ mine' = k
         \/ UNCHANGED <<pc, mine>>
  <2>1. CASE pc[Fetcher] = "asked" /\ Goto(Fetcher, "waiting") /\ mine' = k
      BY <1>4, <2>1, FetcherView DEF HandledInv
  <2>2. CASE UNCHANGED <<pc, mine>>
      BY <1>4, <2>2 DEF HandledInv, TaskInv
  <2> QED
      BY <1>5, <2>1, <2>2
<1>7. FetchInv'
  <2>1. ASSUME NEW j \in Slots
        PROVE  /\ slot'[j].at \in {"nonce", "drain"} => slot'[j].r.dom \in Served
               /\ slot'[j].at = "reply" /\ slot'[j].status # 200 => slot'[j].batch = {}
    <3>1. CASE j = k
        BY <1>2, <1>3, <3>1
    <3>2. CASE j # k
        BY SMTT(60), <1>3, <3>2 DEF HandledInv, FetchInv
    <3> QED
        BY <3>1, <3>2
  <2> QED
      BY <1>3, <1>4, <1>6, <2>1 DEF HandledInv, FetchInv
<1>8. \A no : Pending(no) => Pending(no)'
    BY <1>3, <1>4 DEF Pending
<1> QED
    BY <1>4, <1>6, <1>7, <1>8, StillHandled DEF HandledInv

(* A response: it becomes a batch, was a refusal, or is lost.              *)
LEMMA HandledInvRespond ==
    ASSUME HandledInv, NEW k \in Slots, Respond(k)
    PROVE  HandledInv'
<1> DEFINE got == slot[k].batch
<1>1. /\ mine = k /\ mine' = Nobody /\ UNCHANGED <<drained, ingested, req>>
      /\ slot[k].at = "reply" /\ slot' = [slot EXCEPT ![k] = Free]
    BY DEF Respond, FetchAnswered
<1>2. /\ slot'[k].at = "free" /\ (\A j \in Slots \ {k} : slot'[j] = slot[j])
      /\ slot' = [j \in Slots |-> slot'[j]]
    BY <1>1 DEF HandledInv, FetchInv, Free
<1>3. pc[Fetcher] = "waiting" /\ batch = {}
    BY <1>1, SlotAssumption DEF HandledInv, FetchInv
<1>4. \/ /\ got \subseteq batch' \cup spoiled' /\ spoiled \subseteq spoiled'
         /\ Goto(Fetcher, "batch") /\ UNCHANGED lost
      \/ /\ got = {} /\ Goto(Fetcher, "poll") /\ UNCHANGED <<batch, lost, spoiled>>
      \/ /\ lost' = lost \cup got /\ Goto(Fetcher, "poll") /\ UNCHANGED <<batch, spoiled>>
  <2>1. classify_fetch_status(slot[k].status) # "Success" => got = {}
      BY SMTT(60), <1>1 DEF classify_fetch_status, HandledInv, FetchInv
  <2> QED
      BY <2>1 DEF Respond, Retry
<1>5. /\ TaskInv'
      /\ pc'[Fetcher] = "batch" \/ batch' = {}
    BY <1>1, <1>3, <1>4, FetcherView DEF HandledInv
<1>6. FetchInv'
  <2>1. ASSUME NEW j \in Slots
        PROVE  /\ slot'[j].at \in {"nonce", "drain"} => slot'[j].r.dom \in Served
               /\ slot'[j].at = "reply" /\ slot'[j].status # 200 => slot'[j].batch = {}
    <3>1. CASE j = k
        BY <1>2, <3>1
    <3>2. CASE j # k
        BY SMTT(60), <1>2, <3>2 DEF HandledInv, FetchInv
    <3> QED
        BY <3>1, <3>2
  <2> QED
      BY <1>1, <1>2, <1>5, <2>1 DEF HandledInv, FetchInv
<1>7. ASSUME NEW no, Pending(no) PROVE Pending(no)'
  <2> DEFINE Of(S) == \E x \in S : x.no = no
  <2>1. CASE no \in ingested
      BY <1>1, <2>1 DEF Pending
  <2>2. CASE Of(got)
      BY <1>4, <2>2 DEF Pending
  <2>3. CASE Of(lost \cup spoiled)
      BY <1>4, <2>3 DEF Pending
  <2>4. ASSUME NEW j \in Slots \ {k}, slot[j].at = "reply", Of(slot[j].batch)
        PROVE  Pending(no)'
      BY <1>2, <2>4 DEF Pending
  <2> QED
      BY <1>3, <1>7, <2>1, <2>2, <2>3, <2>4 DEF Pending
<1> QED
    BY <1>1, <1>5, <1>6, <1>7, StillHandled DEF HandledInv

LEMMA HandledInvNobody ==
    ASSUME HandledInv, NEW k \in Slots, RespondToNobody(k)
    PROVE  HandledInv'
<1>1. /\ lost' = lost \cup slot[k].batch /\ slot' = [slot EXCEPT ![k] = Free]
      /\ UNCHANGED <<gatewayVars, drained, spoiled, batch, ingested, mine>>
    BY DEF RespondToNobody, FetchAnswered
<1>2. /\ slot'[k].at = "free" /\ (\A j \in Slots \ {k} : slot'[j] = slot[j])
      /\ slot' = [j \in Slots |-> slot'[j]]
    BY <1>1 DEF HandledInv, FetchInv, Free
<1>3. TaskInv' /\ UNCHANGED pc
    BY <1>1 DEF HandledInv, TaskInv, gatewayVars, ingressVars
<1>4. FetchInv'
    BY <1>1, <1>2, <1>3 DEF HandledInv, FetchInv
<1>5. \A no : Pending(no) => Pending(no)'
    BY <1>1, <1>2 DEF Pending
<1> QED
    BY <1>1, <1>3, <1>4, <1>5, StillHandled DEF HandledInv

(* The relay dies, with the responses under way.                           *)
LEMMA HandledInvKillRelay ==
    ASSUME HandledInv, KillRelay
    PROVE  HandledInv'
<1>1. /\ slot' = [k \in Slots |-> Free] /\ mine' = Nobody
      /\ lost' = lost \cup UNION {slot[k].batch : k \in {x \in Slots : slot[x].at = "reply"}}
      /\ UNCHANGED <<drained, spoiled, batch, ingested, req>>
      /\ IF mine = Nobody THEN UNCHANGED pc ELSE Goto(Fetcher, "poll")
    BY DEF KillRelay, RelayRestart, Retry
<1>2. /\ TaskInv'
      /\ mine = Nobody => UNCHANGED pc
      /\ mine # Nobody => pc'[Fetcher] = "poll"
    BY <1>1, FetcherView DEF HandledInv, TaskInv
<1>3. batch # {} => pc'[Fetcher] = pc[Fetcher]
    BY <1>2 DEF HandledInv, FetchInv
<1>4. FetchInv'
    BY <1>1, <1>3 DEF HandledInv, FetchInv, Free
<1>5. ASSUME NEW no, Pending(no) PROVE Pending(no)'
  <2>1. ASSUME NEW k \in Slots, slot[k].at = "reply", NEW x \in slot[k].batch, x.no = no
        PROVE  Pending(no)'
    <3>1. x \in lost'
        BY <1>1, <2>1
    <3> QED
        BY <2>1, <3>1 DEF Pending
  <2>2. CASE \E x \in lost \cup spoiled \cup batch : x.no = no
      BY <1>1, <2>2 DEF Pending
  <2>3. CASE no \in ingested
      BY <1>1, <2>3 DEF Pending
  <2> QED
      BY <1>5, <2>1, <2>2, <2>3 DEF Pending
<1> QED
    BY <1>1, <1>2, <1>4, <1>5, StillHandled DEF HandledInv

(* The loop takes the next entry of its batch, or has come to its end.     *)
LEMMA HandledInvFetchNext ==
    ASSUME HandledInv, FetchNext
    PROVE  HandledInv'
<1>1. pc[Fetcher] = "batch" /\ UNCHANGED <<slot, drained, lost, spoiled, mine>>
    BY DEF FetchNext, relayVars
<1>2. mine = Nobody
    BY <1>1 DEF HandledInv, FetchInv
<1>3. CASE batch = {}
  <2>1. Goto(Fetcher, "poll") /\ UNCHANGED <<batch, req, ingested>>
      BY <1>3 DEF FetchNext
  <2>2. TaskInv'
      BY <2>1, FetcherView DEF HandledInv
  <2>3. FetchInv'
      BY <1>1, <1>2, <1>3, <2>1 DEF HandledInv, FetchInv
  <2>4. \A no : Pending(no) => Pending(no)'
      BY <1>1, <2>1 DEF Pending
  <2> QED
      BY <1>1, <2>2, <2>3, <2>4, StillHandled DEF HandledInv
<1>4. CASE batch # {}
  <2>1. /\ batch' = batch \ {First(batch)}
        /\ ingested' = ingested \cup {First(batch).no}
        /\ Ingest(Fetcher, First(batch).e.e, First(batch).e.via)
      BY <1>4 DEF FetchNext
  <2>2. TaskInv' /\ pc'[Fetcher] \in {"look", "batch"}
      BY <2>1, IngestView, TaskKinds DEF HandledInv
  <2>3. FetchInv'
      BY <1>1, <1>2, <2>1, <2>2 DEF HandledInv, FetchInv
  <2>4. \A no : Pending(no) => Pending(no)'
      BY <1>1, <2>1 DEF Pending
  <2> QED
      BY <1>1, <2>2, <2>3, <2>4, StillHandled DEF HandledInv
<1> QED
    BY <1>3, <1>4

(* A gateway that does not run has no task.                                *)
RunInv == ~running => pc[Fetcher] = "dead"

(* The gateway starts, or dies with the batch it has begun.                *)
LEMMA HandledInvStart ==
    ASSUME HandledInv, RunInv, Start
    PROVE  HandledInv'
<1>1. /\ ~running
      /\ pc' = [t \in Tasks |-> IF t \in Principals THEN "loop"
                                ELSE IF t = Fetcher THEN "poll" ELSE "free"]
      /\ UNCHANGED <<slot, drained, lost, spoiled, batch, ingested, mine, req>>
    BY DEF Start, GatewayStart, relayVars
<1>2. TaskInv'
    BY <1>1 DEF HandledInv, TaskInv
<1>3. mine = Nobody /\ batch = {}
    BY <1>1 DEF RunInv, HandledInv, FetchInv
<1>4. FetchInv'
    BY <1>1, <1>3 DEF HandledInv, FetchInv
<1>5. \A no : Pending(no) => Pending(no)'
    BY <1>1 DEF Pending
<1> QED
    BY <1>1, <1>2, <1>4, <1>5, StillHandled DEF HandledInv

LEMMA HandledInvKill ==
    ASSUME HandledInv, Kill
    PROVE  HandledInv'
<1>1. /\ mine' = Nobody /\ batch' = {} /\ lost' = lost \cup batch
      /\ pc' = [t \in Tasks |-> "dead"] /\ req' = [t \in Ingesters |-> {}]
      /\ UNCHANGED <<slot, drained, spoiled, ingested>>
    BY DEF Kill, GatewayKill, relayVars
<1>2. TaskInv'
    BY <1>1 DEF TaskInv
<1>3. FetchInv'
    BY <1>1 DEF HandledInv, FetchInv
<1>4. \A no : Pending(no) => Pending(no)'
    BY <1>1 DEF Pending
<1> QED
    BY <1>1, <1>2, <1>3, <1>4, StillHandled DEF HandledInv

(* The loop sends a request, or cannot.                                    *)
LEMMA HandledInvPoll ==
    ASSUME HandledInv, poll_once \/ Unsent
    PROVE  HandledInv'
<1>1. /\ pc[Fetcher] \in {"poll", "asked"} /\ \E l : Goto(Fetcher, l)
      /\ UNCHANGED <<slot, drained, lost, spoiled, batch, ingested, mine, req>>
    BY DEF poll_once, Unsent, Retry, relayVars
<1>2. TaskInv'
    BY <1>1, FetcherView DEF HandledInv
<1>3. mine = Nobody /\ batch = {}
    BY <1>1 DEF HandledInv, FetchInv
<1>4. FetchInv'
    BY <1>1, <1>3 DEF HandledInv, FetchInv
<1>5. \A no : Pending(no) => Pending(no)'
    BY <1>1 DEF Pending
<1> QED
    BY <1>1, <1>2, <1>4, <1>5, StillHandled DEF HandledInv

(* The tasks inside the gateway.                                           *)
LEMMA HandledInvGateway ==
    ASSUME HandledInv, plan \in Plans, GatewayStep
    PROVE  HandledInv'
<1>1. UNCHANGED <<slot, drained, lost, spoiled, batch, ingested, mine>>
    BY DEF GatewayStep, relayVars, fedVars, fetchVars
<1>2. ASSUME NEW n \in plan.egress, EgressStep(n) PROVE HandledInv'
  <2>1. n \in Principals
      BY PlanAssumption
  <2>2. TaskInv' /\ pc'[Fetcher] = pc[Fetcher]
      BY <1>2, <2>1, EgressView, TaskKinds DEF HandledInv
  <2> QED
      BY <1>1, <2>2, HandledInvSame
<1>3. ASSUME NEW t \in Ingesters, IngestStep(t) PROVE HandledInv'
  <2>1. TaskInv'
      BY <1>3, IngestStepView DEF HandledInv
  <2>2. CASE t # Fetcher
    <3>1. pc'[Fetcher] = pc[Fetcher]
        BY <1>3, <2>2, IngestStepView, TaskKinds DEF HandledInv
    <3> QED
        BY <1>1, <2>1, <3>1, HandledInvSame
  <2>3. CASE t = Fetcher
    <3>1. /\ pc[Fetcher] \in {"look", "gates", "deliver"}
          /\ pc'[Fetcher] \in {"gates", "deliver", "batch"}
        BY <1>3, <2>3, IngestStepView DEF HandledInv
    <3>2. FetchInv'
        BY <1>1, <3>1 DEF HandledInv, FetchInv
    <3>3. \A no : Pending(no) => Pending(no)'
        BY <1>1 DEF Pending
    <3> QED
        BY <1>1, <2>1, <3>2, <3>3, StillHandled DEF HandledInv
  <2> QED
      BY <2>2, <2>3
<1> QED
    BY <1>2, <1>3 DEF GatewayStep

LEMMA HandledInvPost ==
    ASSUME HandledInv, NEW h \in Handlers, NEW post, PostDirect(h, post)
    PROVE  HandledInv'
<1>1. /\ UNCHANGED <<slot, drained, lost, spoiled, batch, ingested, mine>>
      /\ Ingest(h, post.e, post.via)
    BY DEF PostDirect, inbox_handler, relayVars, fetchVars
<1>2. TaskInv' /\ pc'[Fetcher] = pc[Fetcher]
    BY <1>1, IngestView, TaskKinds DEF HandledInv
<1> QED
    BY <1>1, <1>2, HandledInvSame

(* The plan stays the same.                                                *)
LEMMA PlanStays == Next => plan' = plan
BY DEF Next, PostDirect, PostToRelay, LocalSend, Arrive, Respond, RespondToNobody,
   RelayStep,
       poll_once, Unsent, FetchNext, GatewayStep, RelaySweep, Start, Kill, KillRelay, Tick,
       fedVars

(* A task only moves while the gateway runs.                               *)
LEMMA RunInvNext ==
    ASSUME HandledInv, RunInv, plan \in Plans, Next
    PROVE  RunInv'
<1>1. ASSUME UNCHANGED running, pc'[Fetcher] = pc[Fetcher] PROVE RunInv'
    BY <1>1 DEF RunInv
<1>2. ASSUME UNCHANGED running, pc[Fetcher] # "dead" PROVE RunInv'
    BY <1>2 DEF RunInv
<1>3. ASSUME NEW h \in Handlers, NEW post, PostDirect(h, post) PROVE RunInv'
  <2>1. UNCHANGED running /\ Ingest(h, post.e, post.via)
      BY <1>3 DEF PostDirect, inbox_handler
  <2>2. pc'[Fetcher] = pc[Fetcher]
      BY <2>1, IngestView, TaskKinds DEF HandledInv
  <2> QED
      BY <1>1, <2>1, <2>2
<1>4. ASSUME (\E post \in Posts : PostToRelay(post)) \/ (\E n \in Principals : LocalSend(n))
             \/ (\E k \in Slots : RespondToNobody(k) \/ RelayStep(k)) \/ RelaySweep \/ Tick
      PROVE  RunInv'
  <2>1. UNCHANGED <<running, pc>>
      BY <1>4 DEF PostToRelay, LocalSend, RespondToNobody, RelayStep, RelaySweep, Tick,
                  gatewayVars
  <2> QED
      BY <1>1, <2>1
<1>5. ASSUME NEW k \in Slots, Arrive(k) PROVE RunInv'
  <2>1. UNCHANGED running /\ (pc[Fetcher] = "asked" \/ UNCHANGED pc)
      BY <1>5 DEF Arrive, elsewhere
  <2> QED
      BY <1>1, <1>2, <2>1
<1>6. ASSUME NEW k \in Slots, Respond(k) PROVE RunInv'
  <2>1. UNCHANGED running /\ mine = k
      BY <1>6 DEF Respond, elsewhere
  <2>2. pc[Fetcher] = "waiting"
      BY <2>1, SlotAssumption DEF HandledInv, FetchInv
  <2> QED
      BY <1>2, <2>1, <2>2
<1>7. ASSUME poll_once \/ Unsent \/ FetchNext PROVE RunInv'
  <2>1. UNCHANGED running /\ pc[Fetcher] # "dead"
      BY <1>7 DEF poll_once, Unsent, FetchNext, elsewhere
  <2> QED
      BY <1>2, <2>1
<1>8. ASSUME GatewayStep PROVE RunInv'
  <2>1. ASSUME NEW n \in plan.egress, EgressStep(n) PROVE RunInv'
      BY <1>1, <2>1, EgressView, TaskKinds, PlanAssumption DEF HandledInv
  <2>2. ASSUME NEW t \in Ingesters, IngestStep(t) PROVE RunInv'
    <3>1. UNCHANGED running /\ (pc[t] # "dead") /\ (t # Fetcher => pc'[Fetcher] = pc[Fetcher])
        BY <2>2, IngestStepView, TaskKinds DEF HandledInv
    <3> QED
        BY <1>1, <1>2, <3>1
  <2> QED
      BY <1>8, <2>1, <2>2 DEF GatewayStep
<1>9. ASSUME Start PROVE RunInv'
    BY <1>9 DEF Start, GatewayStart, RunInv
<1>10. ASSUME Kill PROVE RunInv'
    BY <1>10, TaskKinds DEF Kill, GatewayKill, RunInv
<1>11. ASSUME KillRelay PROVE RunInv'
  <2>1. UNCHANGED running /\ (mine = Nobody => UNCHANGED pc)
      BY <1>11 DEF KillRelay, elsewhere
  <2>2. mine # Nobody => pc[Fetcher] = "waiting"
      BY DEF HandledInv, FetchInv
  <2> QED
      BY <1>1, <1>2, <2>1, <2>2
<1> QED
    BY <1>3, <1>4, <1>5, <1>6, <1>7, <1>8, <1>9, <1>10, <1>11 DEF Next

LEMMA HandledInvNext ==
    ASSUME HandledInv, RunInv, plan \in Plans, Next
    PROVE  HandledInv'
<1>1. ASSUME (\E post \in Posts : PostToRelay(post)) \/ (\E n \in Principals : LocalSend(n))
             \/ RelaySweep \/ Tick
      PROVE  HandledInv'
  <2>1. UNCHANGED <<slot, drained, lost, spoiled, batch, ingested, mine, pc, req>>
      BY <1>1 DEF PostToRelay, LocalSend, RelaySweep, Tick, gatewayVars, ingressVars,
                  fedVars, fetchVars, relayVars, enqueue_handler, Sweep
  <2>2. TaskInv'
      BY <2>1 DEF HandledInv, TaskInv
  <2> QED
      BY <2>1, <2>2, HandledInvSame
<1>2. ASSUME NEW k \in Slots, RelayStep(k) PROVE HandledInv'
    BY <1>2, HandledInvRelay DEF RelayStep
<1> QED
    BY <1>1, <1>2, HandledInvPost, HandledInvArrive, HandledInvRespond,
       HandledInvNobody,
       HandledInvPoll, HandledInvFetchNext, HandledInvGateway, HandledInvStart,
       HandledInvKill, HandledInvKillRelay DEF Next

LEMMA HandledInvAlways == Spec => [](HandledInv /\ RunInv /\ plan \in Plans)
<1>1. Init => HandledInv /\ RunInv /\ plan \in Plans
  <2>1. Init => RunInv
      BY TaskKinds DEF Init, GatewayInit, RunInv
  <2> QED
      BY <2>1, HandledInvInit DEF Init
<1>2. HandledInv /\ RunInv /\ plan \in Plans /\ [Next]_vars
          => (HandledInv /\ RunInv /\ plan \in Plans)'
  <2> SUFFICES ASSUME HandledInv, RunInv, plan \in Plans, [Next]_vars
               PROVE  (HandledInv /\ RunInv /\ plan \in Plans)'
      OBVIOUS
  <2>1. CASE Next
      BY <2>1, HandledInvNext, RunInvNext, PlanStays
  <2>2. CASE UNCHANGED vars
    <3>1. UNCHANGED <<slot, drained, lost, spoiled, batch, ingested, mine, pc, req, running, plan>>
        BY <2>2 DEF vars, gatewayVars, ingressVars, fedVars, fetchVars, relayVars
    <3>2. TaskInv' /\ RunInv'
        BY <3>1 DEF HandledInv, TaskInv, RunInv
    <3> QED
        BY <3>1, <3>2, HandledInvSame
  <2> QED
      BY <2>1, <2>2
<1> QED
    BY <1>1, <1>2, PTL DEF Spec

(* Whatever fetches, responses and deaths come between, an entry that the  *)
(* relay gave away (drain) is in a response under way or in the batch of   *)
(* the loop, was ingested, or went down with a whole response or batch:    *)
(* ingest_success_batch never skips one.                                   *)
THEOREM DrainedIsHandled == Spec => []DrainedIsIngested
<1>1. HandledInv => DrainedIsIngested
    BY DEF HandledInv
<1> QED
    BY <1>1, HandledInvAlways, PTL

-----------------------------------------------------------------------------
(* Nothing disappears silently.                                            *)

(* The two directions of NoSilentLoss.                                     *)
AnswersHold == \A a \in answers : a[2] = 202 => a[1] \in delivered

Occurs(e, queue) == \E j \in DOMAIN queue : queue[j] = e

Kept(e) ==
    \/ Occurs(e, outbox)
    \/ \E n \in Principals : Occurs(e, mail[n]) \/ Occurs(e, todo[n])
    \/ e.id \in sent \cup gone
    \/ <<e.id, e.name>> \in bounced
    \/ Garbled \in {e.dom, e.to} \/ e.name \in Principals

LEMMA LossParts ==
    NoSilentLoss <=> AnswersHold /\ \A i \in DOMAIN plan.outbox : Kept(plan.outbox[i])
BY DEF NoSilentLoss, AnswersHold, Kept, Occurs

(* An egress task has something to do exactly while it is at it.           *)
EgressInv ==
    /\ outbox \in Seq(Envelopes)
    /\ mail \in [Principals -> Seq(Envelopes)] /\ todo \in [Principals -> Seq(Envelopes)]
    /\ \A n \in Principals :
          todo[n] # <<>> <=> pc[n] \in {"relay", "failed", "guard", "bounce"}
    /\ ~running => \A n \in Principals : pc[n] = "dead"

LEMMA EmptySeq == \A S : <<>> \in Seq(S)
BY SMTT(60)

LEMMA EmptyLength ==
    ASSUME NEW S, NEW s \in Seq(S)
    PROVE  s = <<>> <=> Len(s) = 0
BY SMTT(60)

(* What is taken off a queue is its head, and what is added is in it.      *)
LEMMA OccursTail ==
    ASSUME NEW S, NEW q \in Seq(S), q # <<>>, NEW e, Occurs(e, q)
    PROVE  e = Head(q) \/ Occurs(e, Tail(q))
<1>1. PICK j \in 1..Len(q) : q[j] = e
    BY SMTT(60) DEF Occurs
<1>2. CASE j = 1
    BY SMTT(60), <1>1, <1>2
<1>3. CASE j # 1
  <2>1. j - 1 \in DOMAIN Tail(q) /\ Tail(q)[j - 1] = q[j]
      BY SMTT(60), <1>3
  <2> QED
      BY <1>1, <2>1 DEF Occurs
<1> QED
    BY <1>2, <1>3

LEMMA OccursAppend ==
    ASSUME NEW S, NEW q \in Seq(S), NEW x \in S
    PROVE  /\ Occurs(x, Append(q, x))
           /\ \A e : Occurs(e, q) => Occurs(e, Append(q, x))
<1>1. DOMAIN Append(q, x) = 1..Len(q) + 1 /\ DOMAIN q = 1..Len(q) /\ Len(q) \in Nat
      /\ Append(q, x)[Len(q) + 1] = x /\ \A j \in 1..Len(q) : Append(q, x)[j] = q[j]
    BY SMTT(60)
<1> QED
    BY SMTT(60), <1>1 DEF Occurs

LEMMA OccursNowhere == \A e : ~Occurs(e, <<>>)
BY SMTT(60) DEF Occurs

(* A task that is done with its envelope goes on with the rest.            *)
LEMMA AdvanceView ==
    ASSUME TaskInv, EgressInv, NEW n \in Principals,
           pc[n] \in {"relay", "failed", "guard", "bounce"}, Advance(n)
    PROVE  /\ todo[n] # <<>> /\ todo[n] \in Seq(Envelopes)
           /\ todo' \in [Principals -> Seq(Envelopes)]
           /\ todo'[n] = Tail(todo[n]) /\ \A m \in Principals \ {n} : todo'[m] = todo[m]
           /\ todo'[n] # <<>> <=> pc'[n] = "relay"
           /\ pc'[n] \in {"loop", "relay"}
           /\ \A t \in Tasks \ {n} : pc'[t] = pc[t]
<1>1. todo[n] # <<>> /\ todo[n] \in Seq(Envelopes)
    BY DEF EgressInv
<1>2. Tail(todo[n]) \in Seq(Envelopes) /\ Len(Tail(todo[n])) = Len(todo[n]) - 1
    BY SMTT(60), <1>1
<1>3. Tail(todo[n]) = <<>> <=> Len(todo[n]) = 1
  <2>1. Tail(todo[n]) = <<>> <=> Len(Tail(todo[n])) = 0
      BY <1>2, EmptyLength
  <2>2. Len(todo[n]) \in Nat
      BY SMTT(60), <1>1
  <2> QED
      BY SMTT(60), <1>2, <2>1, <2>2
<1>4. /\ todo' = [todo EXCEPT ![n] = Tail(todo[n])]
      /\ pc' = [pc EXCEPT ![n] = IF Len(todo[n]) = 1 THEN "loop" ELSE "relay"]
    BY DEF Advance, Goto
<1>5. pc'[n] = (IF Len(todo[n]) = 1 THEN "loop" ELSE "relay")
      /\ \A t \in Tasks \ {n} : pc'[t] = pc[t]
    BY <1>4, TaskKinds DEF TaskInv
<1>6. /\ todo' \in [Principals -> Seq(Envelopes)]
      /\ todo'[n] = Tail(todo[n]) /\ \A m \in Principals \ {n} : todo'[m] = todo[m]
    BY <1>2, <1>4 DEF EgressInv
<1> QED
    BY <1>1, <1>3, <1>5, <1>6

(* A task that gives up an envelope has sent it, told its sender, or need  *)
(* not.                                                                    *)
LEMMA AdvanceKeeps ==
    ASSUME TaskInv, EgressInv, NEW n \in Principals,
           pc[n] \in {"relay", "failed", "guard", "bounce"}, Advance(n),
           UNCHANGED <<running, outbox, mail>>,
           sent \subseteq sent', gone \subseteq gone', bounced \subseteq bounced',
           NEW c, c = Current(n), Kept(c)'
    PROVE  EgressInv' /\ \A e : Kept(e) => Kept(e)'
<1>1. /\ todo[n] # <<>> /\ todo[n] \in Seq(Envelopes)
      /\ todo' \in [Principals -> Seq(Envelopes)]
      /\ todo'[n] = Tail(todo[n]) /\ \A m \in Principals \ {n} : todo'[m] = todo[m]
      /\ todo'[n] # <<>> <=> pc'[n] = "relay"
      /\ pc'[n] \in {"loop", "relay"}
      /\ \A t \in Tasks \ {n} : pc'[t] = pc[t]
    BY AdvanceView
<1>2. EgressInv'
    BY <1>1, TaskKinds DEF EgressInv
<1>3. ASSUME NEW e, Kept(e) PROVE Kept(e)'
  <2>1. CASE Occurs(e, todo[n])
    <3>1. e = Head(todo[n]) \/ Occurs(e, todo'[n])
        BY <1>1, <2>1, OccursTail
    <3>2. CASE Occurs(e, todo'[n])
        BY <3>2 DEF Kept
    <3>3. CASE e = Head(todo[n])
        BY <3>3 DEF Current
    <3> QED
        BY <3>1, <3>2, <3>3
  <2>2. ASSUME NEW m \in Principals \ {n}, Occurs(e, todo[m]) PROVE Kept(e)'
      BY <1>1, <2>2 DEF Kept
  <2>3. CASE Occurs(e, outbox) \/ \E m \in Principals : Occurs(e, mail[m])
      BY <2>3 DEF Kept
  <2>4. CASE e.id \in sent \cup gone \/ <<e.id, e.name>> \in bounced
             \/ Garbled \in {e.dom, e.to} \/ e.name \in Principals
      BY <2>4 DEF Kept
  <2> QED
      BY <1>3, <2>1, <2>2, <2>3, <2>4 DEF Kept
<1> QED
    BY <1>2, <1>3

(* Steps that leave the queues alone.                                      *)
LEMMA EgressSame ==
    ASSUME EgressInv,
           UNCHANGED <<running, outbox, mail, todo, sent, bounced, gone>>,
           \A n \in Principals : pc'[n] = pc[n]
    PROVE  EgressInv' /\ \A e : Kept(e) => Kept(e)'
<1>1. EgressInv'
    BY DEF EgressInv
<1>2. \A e : Kept(e) => Kept(e)'
    BY DEF Kept
<1> QED
    BY <1>1, <1>2

(* A task moves to l with its batch untouched.                             *)
LEMMA EgressMoves ==
    ASSUME TaskInv, EgressInv, NEW n \in Principals, NEW l, Goto(n, l),
           UNCHANGED <<running, outbox, mail, todo, sent, bounced, gone>>,
           pc[n] # "dead",
           l \in {"relay", "failed", "guard", "bounce"}
               <=> pc[n] \in {"relay", "failed", "guard", "bounce"}
    PROVE  EgressInv' /\ \A e : Kept(e) => Kept(e)'
<1>1. pc'[n] = l /\ \A t \in Tasks \ {n} : pc'[t] = pc[t]
    BY TaskKinds DEF TaskInv, Goto
<1>2. EgressInv'
    BY <1>1, TaskKinds DEF EgressInv
<1>3. \A e : Kept(e) => Kept(e)'
    BY DEF Kept
<1> QED
    BY <1>2, <1>3

LEMMA EgressAwaitKeeps ==
    ASSUME TaskInv, EgressInv, NEW n \in Principals, EgressAwait(n), UNCHANGED outbox
    PROVE  EgressInv' /\ \A e : Kept(e) => Kept(e)'
<1>1. pc[n] = "await" /\ UNCHANGED <<running, sent, bounced, gone>> /\ todo[n] = <<>>
    BY DEF EgressAwait, EgressInv
<1>2. CASE Goto(n, "loop") /\ UNCHANGED <<todo, mail>>
    BY <1>1, <1>2, EgressMoves
<1>3. CASE /\ todo' = [todo EXCEPT ![n] = mail[n]]
           /\ mail' = [mail EXCEPT ![n] = <<>>]
           /\ Goto(n, IF mail[n] = <<>> THEN "loop" ELSE "relay")
  <2>1. /\ todo'[n] = mail[n] /\ \A m \in Principals \ {n} : todo'[m] = todo[m]
        /\ \A m \in Principals \ {n} : mail'[m] = mail[m]
        /\ mail' \in [Principals -> Seq(Envelopes)] /\ todo' \in [Principals -> Seq(Envelopes)]
      BY <1>3, EmptySeq DEF EgressInv
  <2>2. /\ pc'[n] = IF mail[n] = <<>> THEN "loop" ELSE "relay"
        /\ \A t \in Tasks \ {n} : pc'[t] = pc[t]
      BY <1>3, TaskKinds DEF TaskInv, Goto
  <2>3. EgressInv'
      BY <1>1, <2>1, <2>2, TaskKinds DEF EgressInv
  <2>4. \A e : Kept(e) => Kept(e)'
    <3>1. ASSUME NEW e, NEW m \in Principals, Occurs(e, mail[m]) PROVE Kept(e)'
      <4>1. CASE m = n
          BY <2>1, <3>1, <4>1 DEF Kept
      <4>2. CASE m # n
          BY <2>1, <3>1, <4>2 DEF Kept
      <4> QED
          BY <4>1, <4>2
    <3>2. ASSUME NEW e, NEW m \in Principals, Occurs(e, todo[m]) PROVE Kept(e)'
        BY <1>1, <2>1, <3>2, OccursNowhere DEF Kept
    <3>3. ASSUME NEW e, Occurs(e, outbox) \/ e.id \in sent \cup gone
                        \/ <<e.id, e.name>> \in bounced \/ Garbled \in {e.dom, e.to}
                        \/ e.name \in Principals
          PROVE  Kept(e)'
        BY <1>1, <3>3 DEF Kept
    <3> QED
        BY <3>1, <3>2, <3>3 DEF Kept
  <2> QED
      BY <2>3, <2>4
<1> QED
    BY <1>2, <1>3 DEF EgressAwait

LEMMA EgressKeeps ==
    ASSUME TaskInv, EgressInv, NEW n \in Principals, EgressStep(n), UNCHANGED outbox
    PROVE  EgressInv' /\ \A e : Kept(e) => Kept(e)'
<1>1. CASE EgressLock(n)
    BY <1>1, EgressMoves DEF EgressLock, egressVars
<1>2. CASE EgressAwait(n)
    BY <1>2, EgressAwaitKeeps
<1>3. CASE RelayOne(n)
  <2>1. pc[n] = "relay" /\ UNCHANGED <<running, mail, bounced, gone>>
      BY <1>3 DEF RelayOne
  <2>2. CASE Goto(n, "failed") /\ UNCHANGED <<todo, sent>>
      BY <2>1, <2>2, EgressMoves
  <2>3. CASE sent' = sent \cup {Current(n).id} /\ Advance(n)
    <3>1. PICK c : c = Current(n)
        OBVIOUS
    <3>2. Kept(c)'
        BY <2>3, <3>1 DEF Kept
    <3> QED
        BY <2>1, <2>3, <3>1, <3>2, AdvanceKeeps
  <2> QED
      BY <1>3, <2>2, <2>3 DEF RelayOne
<1>4. CASE NotifyStart(n)
  <2>1. pc[n] = "failed" /\ UNCHANGED <<running, mail, sent, bounced, gone>>
      BY <1>4 DEF NotifyStart
  <2>2. CASE Goto(n, "guard") /\ UNCHANGED todo
      BY <2>1, <2>2, EgressMoves
  <2>3. CASE Current(n).dom = Garbled /\ Advance(n)
    <3>1. PICK c : c = Current(n)
        OBVIOUS
    <3>2. Kept(c)'
        BY <2>3, <3>1 DEF Kept
    <3> QED
        BY <2>1, <2>3, <3>1, <3>2, AdvanceKeeps
  <2> QED
      BY <1>4, <2>2, <2>3 DEF NotifyStart
<1>5. CASE NotifyGuard(n)
  <2>1. pc[n] = "guard" /\ UNCHANGED <<running, mail, sent, bounced, gone>>
      BY <1>5 DEF NotifyGuard
  <2>2. CASE Goto(n, "bounce") /\ UNCHANGED todo
      BY <2>1, <2>2, EgressMoves
  <2>3. CASE /\ \/ Current(n).name \in Principals
                \/ Garbled \in {Current(n).dom, Current(n).to}
             /\ Advance(n)
    <3>1. PICK c : c = Current(n)
        OBVIOUS
    <3>2. Kept(c)'
        BY <2>3, <3>1 DEF Kept
    <3> QED
        BY <2>1, <2>3, <3>1, <3>2, AdvanceKeeps
  <2> QED
      BY <1>5, <2>2, <2>3 DEF NotifyGuard, sender_is_itself_backed,
         build_relay_failure_ack
<1>6. CASE NotifySend(n)
  <2>1. pc[n] = "bounce" /\ Advance(n) /\ UNCHANGED <<running, mail, sent>>
      BY <1>6 DEF NotifySend
  <2>2. PICK c : c = Current(n)
      OBVIOUS
  <2>3. \/ bounced' = bounced \cup {<<c.id, c.name>>} /\ UNCHANGED gone
        \/ gone' = gone \cup {c.id} /\ UNCHANGED bounced
      BY <1>6, <2>2 DEF NotifySend
  <2>4. Kept(c)'
      BY <2>3 DEF Kept
  <2> QED
      BY <2>1, <2>2, <2>3, <2>4, AdvanceKeeps
<1> QED
    BY <1>1, <1>2, <1>3, <1>4, <1>5, <1>6 DEF EgressStep

LEMMA LocalSendKeeps ==
    ASSUME EgressInv, NEW n \in Principals, LocalSend(n)
    PROVE  EgressInv' /\ \A e : Kept(e) => Kept(e)'
<1>1. /\ outbox # <<>> /\ outbox' = Tail(outbox)
      /\ mail' = [mail EXCEPT ![n] = Append(mail[n], Head(outbox))]
      /\ UNCHANGED <<running, pc, todo, sent, bounced, gone>>
    BY DEF LocalSend
<1>2. Head(outbox) \in Envelopes /\ Tail(outbox) \in Seq(Envelopes)
    BY SMTT(60), <1>1 DEF EgressInv
<1>3. Append(mail[n], Head(outbox)) \in Seq(Envelopes)
    BY SMTT(60), <1>2 DEF EgressInv
<1>4. /\ mail'[n] = Append(mail[n], Head(outbox))
      /\ \A m \in Principals \ {n} : mail'[m] = mail[m]
      /\ mail' \in [Principals -> Seq(Envelopes)]
    BY <1>1, <1>3 DEF EgressInv
<1>5. EgressInv'
    BY <1>1, <1>2, <1>4 DEF EgressInv
<1>6. /\ Occurs(Head(outbox), mail'[n])
      /\ \A e : Occurs(e, mail[n]) => Occurs(e, mail'[n])
    BY SMTT(60), <1>2, <1>4, OccursAppend DEF EgressInv
<1>7. ASSUME NEW e, Kept(e) PROVE Kept(e)'
  <2>1. CASE Occurs(e, outbox)
    <3>1. e = Head(outbox) \/ Occurs(e, Tail(outbox))
        BY <1>1, <2>1, OccursTail DEF EgressInv
    <3>2. CASE e = Head(outbox)
        BY <1>6, <3>2 DEF Kept
    <3>3. CASE Occurs(e, Tail(outbox))
        BY <1>1, <3>3 DEF Kept
    <3> QED
        BY <3>1, <3>2, <3>3
  <2>2. ASSUME NEW m \in Principals, Occurs(e, mail[m]) PROVE Kept(e)'
    <3>1. Occurs(e, mail'[m])
        BY <1>4, <1>6, <2>2
    <3> QED
        BY <3>1 DEF Kept
  <2>3. CASE \/ \E m \in Principals : Occurs(e, todo[m])
             \/ e.id \in sent \cup gone \/ <<e.id, e.name>> \in bounced
             \/ Garbled \in {e.dom, e.to} \/ e.name \in Principals
      BY <1>1, <2>3 DEF Kept
  <2> QED
      BY <1>7, <2>1, <2>2, <2>3 DEF Kept
<1> QED
    BY <1>5, <1>7

(* A gateway that dies takes its batches with it, and gone records them.   *)
LEMMA KillKeeps ==
    ASSUME EgressInv, Kill
    PROVE  EgressInv' /\ \A e : Kept(e) => Kept(e)'
<1>1. /\ todo' = [n \in Principals |-> <<>>] /\ pc' = [t \in Tasks |-> "dead"]
      /\ gone' = gone \cup UNION {{todo[n][i].id : i \in DOMAIN todo[n]} : n \in Principals}
      /\ UNCHANGED <<outbox, mail, sent, bounced>>
    BY DEF Kill, GatewayKill
<1>2. EgressInv'
    BY <1>1, TaskKinds, EmptySeq DEF EgressInv
<1>3. ASSUME NEW e, Kept(e) PROVE Kept(e)'
  <2>1. ASSUME NEW m \in Principals, Occurs(e, todo[m]) PROVE Kept(e)'
    <3>1. e.id \in {todo[m][i].id : i \in DOMAIN todo[m]}
        BY <2>1 DEF Occurs
    <3>2. e.id \in gone'
        BY <1>1, <3>1
    <3> QED
        BY <3>2 DEF Kept
  <2>2. CASE \/ Occurs(e, outbox) \/ \E m \in Principals : Occurs(e, mail[m])
             \/ e.id \in sent \cup gone \/ <<e.id, e.name>> \in bounced
             \/ Garbled \in {e.dom, e.to} \/ e.name \in Principals
      BY <1>1, <2>2 DEF Kept
  <2> QED
      BY <1>3, <2>1, <2>2 DEF Kept
<1> QED
    BY <1>2, <1>3

LEMMA StartKeeps ==
    ASSUME EgressInv, Start
    PROVE  EgressInv' /\ \A e : Kept(e) => Kept(e)'
<1>1. /\ ~running /\ running' = TRUE
      /\ UNCHANGED <<outbox, mail, todo, sent, bounced, gone>>
      /\ \A n \in Principals : pc'[n] = "loop"
    BY TaskKinds DEF Start, GatewayStart, egressVars
<1>2. EgressInv'
    BY <1>1 DEF EgressInv
<1>3. \A e : Kept(e) => Kept(e)'
    BY <1>1 DEF Kept
<1> QED
    BY <1>2, <1>3

(* Only what the bus took is answered with 202.                            *)
LEMMA AnsweredHolds ==
    ASSUME AnswersHold, NEW t, NEW r, NEW why, Answered(t, r, why),
           delivered \subseteq delivered', why = "ok" => r \in delivered'
    PROVE  AnswersHold'
<1>1. into_response(why) = 202 => why = "ok"
    BY SMTT(60) DEF into_response
<1>2. answers' \subseteq answers \cup {<<r, into_response(why)>>}
    BY DEF Answered
<1> QED
    BY SMTT(60), <1>1, <1>2 DEF AnswersHold

LEMMA IngestAnswers ==
    ASSUME AnswersHold, NEW t, NEW e, NEW via, Ingest(t, e, via), UNCHANGED delivered
    PROVE  AnswersHold'
<1>1. CASE peek_guard_fields(e)
    BY SMTT(60), <1>1 DEF Ingest, AnswersHold
<1>2. CASE ~peek_guard_fields(e)
  <2>1. Answered(t, [e |-> e, via |-> via, now |-> clock], "BadEnvelopeShape")
      BY <1>2 DEF Ingest
  <2> QED
      BY <2>1, AnsweredHolds
<1> QED
    BY <1>1, <1>2

LEMMA IngestStepAnswers ==
    ASSUME AnswersHold, NEW t \in Ingesters, IngestStep(t)
    PROVE  AnswersHold'
<1>1. CASE IngestLook(t)
    BY <1>1 DEF IngestLook, ingressVars, AnswersHold
<1>2. CASE ingest_inbound_at(t)
  <2>1. /\ UNCHANGED delivered
        /\ \/ UNCHANGED answers
           \/ \E why : why # "ok" /\ Answered(t, Request(t), why)
      BY <1>2 DEF ingest_inbound_at
  <2> QED
      BY SMTT(60), <2>1, AnsweredHolds DEF AnswersHold
<1>3. CASE deliver(t)
  <2>1. \/ delivered' = delivered \cup {Request(t)} /\ Answered(t, Request(t), "ok")
        \/ UNCHANGED delivered /\ Answered(t, Request(t), "Internal")
      BY <1>3 DEF deliver
  <2> QED
      BY <2>1, AnsweredHolds
<1> QED
    BY <1>1, <1>2, <1>3 DEF IngestStep

LossInv == EgressInv /\ NoSilentLoss

(* Every step keeps what is outbound.                                      *)
LEMMA EveryStepKeeps ==
    ASSUME HandledInv, EgressInv, plan \in Plans, Next
    PROVE  EgressInv' /\ \A e : Kept(e) => Kept(e)'
<1>1. ASSUME GatewayStep PROVE EgressInv' /\ \A e : Kept(e) => Kept(e)'
  <2>1. UNCHANGED outbox
      BY <1>1 DEF GatewayStep, fedVars
  <2>2. ASSUME NEW n \in plan.egress, EgressStep(n)
        PROVE  EgressInv' /\ \A e : Kept(e) => Kept(e)'
      BY <2>1, <2>2, EgressKeeps, PlanAssumption DEF HandledInv
  <2>3. ASSUME NEW t \in Ingesters, IngestStep(t)
        PROVE  EgressInv' /\ \A e : Kept(e) => Kept(e)'
    <3>1. /\ UNCHANGED <<running, mail, todo, sent, bounced, gone>>
          /\ \A n \in Principals : pc'[n] = pc[n]
        BY <2>3, IngestStepView, TaskKinds DEF HandledInv, egressVars
    <3> QED
        BY <2>1, <3>1, EgressSame
  <2> QED
      BY <1>1, <2>2, <2>3 DEF GatewayStep
<1>2. ASSUME NEW h \in Handlers, NEW post, PostDirect(h, post)
      PROVE  EgressInv' /\ \A e : Kept(e) => Kept(e)'
  <2>1. /\ UNCHANGED <<running, outbox, mail, todo, sent, bounced, gone>>
        /\ Ingest(h, post.e, post.via)
      BY <1>2 DEF PostDirect, inbox_handler, egressVars
  <2>2. \A n \in Principals : pc'[n] = pc[n]
      BY <2>1, IngestView, TaskKinds DEF HandledInv
  <2> QED
      BY <2>1, <2>2, EgressSame
<1>3. ASSUME FetchNext PROVE EgressInv' /\ \A e : Kept(e) => Kept(e)'
  <2>1. UNCHANGED <<running, outbox, mail, todo, sent, bounced, gone>>
      BY <1>3 DEF FetchNext, elsewhere, egressVars
  <2>2. \/ Goto(Fetcher, "poll")
        \/ \E e, via : Ingest(Fetcher, e, via)
      BY <1>3 DEF FetchNext
  <2>3. \A n \in Principals : pc'[n] = pc[n]
    <3>1. CASE Goto(Fetcher, "poll")
        BY <3>1, TaskKinds DEF HandledInv, TaskInv, Goto
    <3>2. CASE \E e, via : Ingest(Fetcher, e, via)
        BY <3>2, IngestView, TaskKinds DEF HandledInv
    <3> QED
        BY <2>2, <3>1, <3>2
  <2> QED
      BY <2>1, <2>3, EgressSame
<1>4. ASSUME (\E k \in Slots : Arrive(k) \/ Respond(k)) \/ poll_once \/ Unsent \/ KillRelay
      PROVE  EgressInv' /\ \A e : Kept(e) => Kept(e)'
  <2>1. UNCHANGED <<running, outbox, mail, todo, sent, bounced, gone>>
      BY <1>4 DEF Arrive, Respond, poll_once, Unsent, KillRelay, elsewhere, egressVars
  <2>2. UNCHANGED pc \/ \E l : Goto(Fetcher, l)
      BY <1>4 DEF Arrive, Respond, poll_once, Unsent, KillRelay, Retry
  <2>3. \A n \in Principals : pc'[n] = pc[n]
      BY <2>2, TaskKinds DEF HandledInv, TaskInv, Goto
  <2> QED
      BY <2>1, <2>3, EgressSame
<1>5. ASSUME (\E post \in Posts : PostToRelay(post)) \/ RelaySweep \/ Tick
             \/ \E k \in Slots : RespondToNobody(k) \/ RelayStep(k)
      PROVE  EgressInv' /\ \A e : Kept(e) => Kept(e)'
  <2>1. UNCHANGED <<running, outbox, mail, todo, sent, bounced, gone, pc>>
      BY <1>5 DEF PostToRelay, RelaySweep, Tick, RespondToNobody, RelayStep,
         gatewayVars,
                  egressVars, fedVars
  <2> QED
      BY <2>1, EgressSame
<1> QED
    BY <1>1, <1>2, <1>3, <1>4, <1>5, LocalSendKeeps, StartKeeps, KillKeeps DEF Next

LEMMA EveryAnswerHolds ==
    ASSUME AnswersHold, Next
    PROVE  AnswersHold'
<1>1. ASSUME GatewayStep PROVE AnswersHold'
  <2>1. ASSUME NEW n, EgressStep(n) PROVE AnswersHold'
    <3>1. UNCHANGED ingressVars
        BY <2>1 DEF EgressStep, EgressLock, EgressAwait, RelayOne, NotifyStart,
           NotifyGuard,
                    NotifySend
    <3> QED
        BY <3>1 DEF ingressVars, AnswersHold
  <2> QED
      BY <1>1, <2>1, IngestStepAnswers DEF GatewayStep
<1>2. ASSUME NEW h, NEW post, PostDirect(h, post) PROVE AnswersHold'
    BY <1>2, IngestAnswers DEF PostDirect, inbox_handler
<1>3. ASSUME FetchNext PROVE AnswersHold'
  <2>1. UNCHANGED delivered /\ (UNCHANGED answers \/ \E e, via : Ingest(Fetcher, e, via))
      BY <1>3 DEF FetchNext, elsewhere
  <2> QED
      BY SMTT(60), <2>1, IngestAnswers DEF AnswersHold
<1>4. ASSUME UNCHANGED <<answers, delivered>> PROVE AnswersHold'
    BY <1>4 DEF AnswersHold
<1>5. ASSUME (\E k \in Slots : Arrive(k) \/ Respond(k)) \/ poll_once \/ Unsent \/ KillRelay
             \/ (\E n \in Principals : LocalSend(n)) \/ Start \/ Kill
      PROVE  UNCHANGED <<answers, delivered>>
    BY <1>5 DEF Arrive, Respond, poll_once, Unsent, KillRelay, elsewhere, LocalSend,
                ingressVars, Start, GatewayStart, Kill, GatewayKill
<1>6. ASSUME (\E post \in Posts : PostToRelay(post)) \/ RelaySweep \/ Tick
             \/ \E k \in Slots : RespondToNobody(k) \/ RelayStep(k)
      PROVE  UNCHANGED <<answers, delivered>>
    BY <1>6 DEF PostToRelay, RelaySweep, Tick, RespondToNobody, RelayStep, gatewayVars,
                ingressVars
<1> QED
    BY <1>1, <1>2, <1>3, <1>4, <1>5, <1>6 DEF Next

LEMMA LossInvInit == Init => LossInv
<1> SUFFICES ASSUME Init PROVE LossInv
    OBVIOUS
<1>1. plan \in Plans /\ outbox = plan.outbox /\ GatewayInit
      /\ mail = [n \in Principals |-> <<>>]
    BY DEF Init
<1>2. EgressInv
    BY <1>1, PlanAssumption, TaskKinds, EmptySeq DEF GatewayInit, EgressInv
<1>3. AnswersHold
    BY <1>1 DEF GatewayInit, AnswersHold
<1>4. \A i \in DOMAIN plan.outbox : Kept(plan.outbox[i])
    BY <1>1 DEF Kept, Occurs
<1> QED
    BY <1>2, <1>3, <1>4, LossParts DEF LossInv

LEMMA LossInvStep ==
    ASSUME HandledInv, LossInv, plan \in Plans, [Next]_vars
    PROVE  LossInv'
<1>1. EgressInv /\ AnswersHold /\ \A i \in DOMAIN plan.outbox : Kept(plan.outbox[i])
    BY LossParts DEF LossInv
<1>2. /\ EgressInv' /\ AnswersHold' /\ plan' = plan /\ \A e : Kept(e) => Kept(e)'
  <2>1. CASE Next
      BY <1>1, <2>1, EveryStepKeeps, EveryAnswerHolds, PlanStays
  <2>2. CASE UNCHANGED vars
    <3>1. UNCHANGED <<running, outbox, mail, todo, sent, bounced, gone, pc, answers, delivered, plan>>
        BY <2>2 DEF vars, gatewayVars, egressVars, ingressVars, fedVars
    <3>2. AnswersHold'
        BY <1>1, <3>1 DEF AnswersHold
    <3> QED
        BY <1>1, <3>1, <3>2, EgressSame
  <2> QED
      BY <2>1, <2>2
<1>3. (\A i \in DOMAIN plan.outbox : Kept(plan.outbox[i]))'
    BY <1>1, <1>2
<1>4. NoSilentLoss'
    BY <1>2, <1>3, LossParts, PTL
<1> QED
    BY <1>2, <1>4 DEF LossInv

(* An envelope drained from a mailbox is in some queue, was taken by a     *)
(* peer, or its sender was told, through every failure of a post, of the   *)
(* bus or of a lookup and every death of the gateway (run_egress,          *)
(* notify_relay_failure); and 202 is only said of what the local bus took  *)
(* (deliver).                                                              *)
THEOREM NothingLostSilently == Spec => []NoSilentLoss
<1>1. LossInv => NoSilentLoss
    BY DEF LossInv
<1>2. HandledInv /\ RunInv /\ plan \in Plans /\ LossInv /\ [Next]_vars => LossInv'
    BY LossInvStep
<1> QED
    BY <1>1, <1>2, LossInvInit, HandledInvAlways, PTL DEF Spec

-----------------------------------------------------------------------------
(* What is delivered is genuine.                                           *)

(* DeliveredIsGenuine for one request.                                     *)
Genuine(d) ==
    /\ d.e.to = OwnDomain /\ d.e.rcpt = d.via /\ d.e.flaw = "none"
    /\ freshness_check(d.e.ts, d.now)
    /\ \E x \in Pins : /\ x.p = d.e.from /\ x.key = d.e.key /\ x.state = "active"
                       /\ x.until = Never \/ d.now < x.until

(* What the relay keeps and gives away was posted to it.                   *)
Posted(x) == x.e \in Posts /\ x.no \in Nat

PostedInv ==
    /\ posts \in Nat
    /\ queues = [d \in Served |-> queues[d]]
    /\ \A d \in Served : \A x \in queues[d] : Posted(x)
    /\ \A k \in Slots : slot[k].at = "reply" => \A x \in slot[k].batch : Posted(x)
    /\ \A x \in batch : Posted(x)

(* A request in hand has passed the checks that are behind it, and is no   *)
(* older than GatewayPrompt allows.                                        *)
Sound(r, at) ==
    /\ r.e.flaw \in {"none", "class", "signature", "body", "fields"}
    /\ r.now \in Nat /\ r.now <= clock
    /\ at \in {"look", "gates"} => clock <= r.now + IngressLag
    /\ at = "deliver" => Genuine(r)

RequestInv ==
    /\ clock \in Nat
    /\ \A t \in Ingesters : pc[t] \in {"look", "gates", "deliver"} => Sound(Request(t), pc[t])

GenuineInv == PostedInv /\ RequestInv /\ DeliveredIsGenuine

(* The gates that come before the signature.                               *)
LEMMA GatesPassed ==
    ASSUME NEW g, NEW e, NEW backed, NEW now,
           run_cheap_gates(g, e, OwnDomain, backed, now).verdict = "ok"
    PROVE  e.to = OwnDomain /\ backed /\ freshness_check(e.ts, now)
BY DEF run_cheap_gates, audience_check

(* A signature that verifies was made by a key that was active then.       *)
LEMMA VerifiedIsActive ==
    ASSUME NEW e, NEW now \in Nat, verify_inbound_any(e, now) = "ok"
    PROVE  /\ e.flaw \notin {"class", "signature", "body"}
           /\ \E x \in Pins : /\ x.p = e.from /\ x.key = e.key /\ x.state = "active"
                              /\ x.until = Never \/ now < x.until
<1> DEFINE k == active_key(Pins, e.from, now)
           x == CHOOSE y \in InState(Pins, e.from, "active") : TRUE
<1>1. k.outcome = "Active" /\ decode_any(e, k.key)
    BY DEF verify_inbound_any, reject_for_outcome
<1>2. InState(Pins, e.from, "active") # {} /\ ~(x.until # Never /\ x.until <= now) /\ k.key = x.key
    BY <1>1 DEF active_key
<1>3. x \in Pins /\ x.p = e.from /\ x.state = "active"
    BY <1>2 DEF InState, entries
<1>4. x.until \in Int
    BY <1>3, PinsAssumption DEF KeyEntry
<1>5. e.key = x.key /\ e.flaw \notin {"class", "signature", "body"}
    BY <1>1, <1>2 DEF decode_any, decode_value
<1> HIDE DEF x
<1> QED
    BY SMTT(60), <1>2, <1>3, <1>4, <1>5

(* The steps at the relay.                                                 *)
LEMMA PostedInvSlot ==
    ASSUME HandledInv, PostedInv, NEW k \in Slots, NEW s, slot' = [slot EXCEPT ![k] = s],
           s.at = "reply" => \A x \in s.batch : Posted(x),
           UNCHANGED posts, queues' = [d \in Served |-> queues'[d]],
           \A d \in Served : queues'[d] \subseteq queues[d],
           \A x \in batch' : Posted(x)
    PROVE  PostedInv'
<1>1. slot'[k] = s /\ \A j \in Slots \ {k} : slot'[j] = slot[j]
    BY DEF HandledInv, FetchInv
<1>2. ASSUME NEW j \in Slots, slot'[j].at = "reply" PROVE \A x \in slot'[j].batch : Posted(x)
    BY <1>1, <1>2 DEF PostedInv
<1> QED
    BY <1>2 DEF PostedInv

LEMMA PostedInvRelay ==
    ASSUME HandledInv, PostedInv, NEW k \in Slots, FetchNonce(k) \/ FetchDrain(k), UNCHANGED batch
    PROVE  PostedInv'
<1> DEFINE r == slot[k].r
<1>1. CASE FetchNonce(k)
  <2>1. PICK s : slot' = [slot EXCEPT ![k] = s] /\ (s.at = "reply" => s.batch = {})
    <3> DEFINE res == record_nonce(nonces[r.dom], r.n, slot[k].now)
               s0  == IF res.ok THEN Serving("drain", r, slot[k].now)
                      ELSE Reply(r, "ReplayedNonce", {})
    <3>1. slot' = [slot EXCEPT ![k] = s0]
        BY <1>1 DEF FetchNonce
    <3>2. s0.at = "reply" => s0.batch = {}
        BY DEF Serving, Reply
    <3> HIDE DEF s0
    <3> QED
        BY <3>1, <3>2
  <2>2. UNCHANGED <<queues, posts>>
      BY <1>1 DEF FetchNonce
  <2> QED
      BY <2>1, <2>2, PostedInvSlot DEF PostedInv
<1>2. CASE FetchDrain(k)
  <2> DEFINE given == drain(queues[r.dom], slot[k].now)
             s == Reply(r, "ok", given)
  <2>1. r.dom \in Served
      BY <1>2 DEF FetchDrain, HandledInv, FetchInv
  <2>2. given \subseteq queues[r.dom] /\ s.batch = given
      BY DEF drain, Front, retain_unexpired, Reply
  <2>3. \A x \in given : Posted(x)
      BY <2>1, <2>2 DEF PostedInv
  <2>4. queues' = [queues EXCEPT ![r.dom] = retain_unexpired(queues[r.dom], slot[k].now) \ given]
        /\ slot' = [slot EXCEPT ![k] = s] /\ UNCHANGED posts
      BY <1>2 DEF FetchDrain
  <2>5. queues' = [d \in Served |-> queues'[d]] /\ \A d \in Served : queues'[d] \subseteq queues[d]
      BY <2>1, <2>4 DEF PostedInv, retain_unexpired
  <2> HIDE DEF s, given
  <2> QED
      BY <2>2, <2>3, <2>4, <2>5, PostedInvSlot DEF PostedInv
<1> QED
    BY <1>1, <1>2

LEMMA PostedInvArrive ==
    ASSUME HandledInv, PostedInv, NEW k \in Slots, Arrive(k)
    PROVE  PostedInv'
<1>1. PICK r \in asked : FetchArrives(k, r)
    BY DEF Arrive
<1>2. PICK s : slot' = [slot EXCEPT ![k] = s] /\ (s.at = "reply" => s.batch = {})
  <2> DEFINE a == fetch_admit(buckets[r.dom], clock)
             v == verify_fetch_auth(r, clock)
             s0 == IF ~a.ok THEN Reply(r, "RateLimited", {})
                   ELSE IF v # "ok" THEN Reply(r, v, {})
                   ELSE Serving("nonce", r, clock)
  <2>1. slot' = [slot EXCEPT ![k] = s0]
      BY <1>1 DEF FetchArrives
  <2>2. s0.at = "reply" => s0.batch = {}
      BY DEF Reply, Serving
  <2> HIDE DEF s0
  <2> QED
      BY <2>1, <2>2
<1>3. UNCHANGED <<queues, posts, batch>>
    BY <1>1 DEF FetchArrives, Arrive
<1> QED
    BY <1>2, <1>3, PostedInvSlot DEF PostedInv

LEMMA PostedInvRespond ==
    ASSUME HandledInv, PostedInv, NEW k \in Slots, Respond(k) \/ RespondToNobody(k)
    PROVE  PostedInv'
<1>1. slot[k].at = "reply" /\ slot' = [slot EXCEPT ![k] = Free] /\ UNCHANGED <<queues, posts>>
    BY DEF Respond, RespondToNobody, FetchAnswered
<1>2. batch' \subseteq slot[k].batch \cup batch
    BY DEF Respond, RespondToNobody, decode_fetch_batch
<1>3. \A x \in batch' : Posted(x)
    BY <1>1, <1>2 DEF PostedInv
<1>4. Free.at # "reply"
    BY DEF Free
<1> QED
    BY <1>1, <1>3, <1>4, PostedInvSlot DEF PostedInv

LEMMA PostedInvPost ==
    ASSUME PostedInv, NEW post \in Posts, PostToRelay(post)
    PROVE  PostedInv'
<1> DEFINE entry == [no |-> posts + 1, e |-> post, at |-> clock]
<1>1. /\ OwnDomain \in Served /\ posts' = posts + 1 /\ UNCHANGED <<slot, batch>>
      /\ queues' = [queues EXCEPT ![OwnDomain] = enqueue(queues[OwnDomain], entry)]
    BY DEF PostToRelay, enqueue_handler, fetchVars
<1>2. enqueue(queues[OwnDomain], entry) \subseteq queues[OwnDomain] \cup {entry}
    BY DEF enqueue
<1>3. /\ queues' = [d \in Served |-> queues'[d]]
      /\ queues'[OwnDomain] \subseteq queues[OwnDomain] \cup {entry}
      /\ \A d \in Served \ {OwnDomain} : queues'[d] = queues[d]
    BY <1>1, <1>2 DEF PostedInv
<1>4. Posted(entry) /\ posts' \in Nat
    BY SMTT(60), <1>1 DEF Posted, PostedInv
<1> HIDE DEF entry
<1>5. ASSUME NEW d \in Served, NEW x \in queues'[d] PROVE Posted(x)
    BY <1>3, <1>4, <1>5 DEF PostedInv
<1> QED
    BY <1>1, <1>3, <1>4, <1>5 DEF PostedInv

LEMMA PostedInvNext ==
    ASSUME HandledInv, PostedInv, Next
    PROVE  PostedInv'
<1>1. ASSUME UNCHANGED <<queues, slot, posts>>, batch' \subseteq batch PROVE PostedInv'
    BY <1>1 DEF PostedInv
<1>2. ASSUME RelaySweep PROVE PostedInv'
  <2>1. /\ queues' = [d \in Served |-> retain_unexpired(queues[d], clock)]
        /\ UNCHANGED <<slot, batch, posts>>
      BY <1>2 DEF RelaySweep, Sweep, fedVars, fetchVars
  <2>2. \A d \in Served : queues'[d] \subseteq queues[d]
      BY <2>1 DEF retain_unexpired
  <2> QED
      BY <2>1, <2>2 DEF PostedInv
<1>3. ASSUME KillRelay PROVE PostedInv'
  <2>1. queues' = [d \in Served |-> {}] /\ slot' = [k \in Slots |-> Free] /\ UNCHANGED <<batch, posts>>
      BY <1>3 DEF KillRelay, RelayRestart
  <2> QED
      BY <2>1 DEF PostedInv, Free
<1>4. ASSUME NEW k \in Slots, RelayStep(k) PROVE PostedInv'
    BY <1>4, PostedInvRelay DEF RelayStep, fedVars, fetchVars
<1>5. ASSUME (\E h \in Handlers, post \in Posts : PostDirect(h, post)) \/ GatewayStep
             \/ (\E n \in Principals : LocalSend(n)) \/ poll_once \/ Unsent \/ FetchNext
             \/ Start \/ Kill \/ Tick
      PROVE  UNCHANGED <<queues, slot, posts>> /\ batch' \subseteq batch
    BY <1>5 DEF PostDirect, GatewayStep, LocalSend, poll_once, Unsent, FetchNext,
       Start, Kill,
                Tick, relayVars, fedVars, fetchVars
<1> QED
    BY <1>1, <1>2, <1>3, <1>4, <1>5, PostedInvArrive, PostedInvRespond,
       PostedInvPost DEF Next

(* A step of one task is nothing to the requests of the others.            *)
LEMMA RequestInvBy ==
    ASSUME RequestInv, UNCHANGED clock,
           \A s \in Ingesters :
               \/ pc'[s] = pc[s] /\ req'[s] = req[s]
               \/ pc'[s] \in {"look", "gates", "deliver"} => Sound(Request(s), pc[s])'
    PROVE  RequestInv'
<1> SUFFICES ASSUME NEW s \in Ingesters, pc'[s] \in {"look", "gates", "deliver"}
             PROVE  Sound(Request(s), pc[s])'
    BY DEF RequestInv
<1>1. CASE pc'[s] = pc[s] /\ req'[s] = req[s]
  <2>1. Sound(Request(s), pc[s]) /\ Request(s)' = Request(s)
      BY <1>1 DEF RequestInv, Request
  <2> QED
      BY <1>1, <2>1 DEF Sound, Genuine
<1> QED
    BY <1>1

LEMMA RequestInvIngest ==
    ASSUME TaskInv, RequestInv, UNCHANGED clock, NEW t \in Ingesters,
           NEW post \in Posts, Ingest(t, post.e, post.via)
    PROVE  RequestInv'
<1> DEFINE r == [e |-> post.e, via |-> post.via, now |-> clock]
<1>1. /\ pc'[t] \in {"look", "batch", "free"}
      /\ \A s \in Ingesters \ {t} : pc'[s] = pc[s] /\ req'[s] = req[s]
      /\ pc'[t] = "look" => post.e.flaw # "shape" /\ req'[t] = {r}
    BY IngestView, TaskKinds
<1>2. ASSUME pc'[t] = "look" PROVE Sound(Request(t), pc[t])'
  <2>1. Request(t)' = r
      BY <1>1, <1>2 DEF Request
  <2>2. r.e.flaw \in {"none", "class", "signature", "body", "fields"}
      BY <1>1, <1>2, PlanAssumption
  <2>3. r.now = clock' /\ clock' \in Nat /\ clock' <= clock' + IngressLag
      BY SMTT(60), IngressAssumption DEF RequestInv
  <2> QED
      BY SMTT(60), <1>2, <2>1, <2>2, <2>3 DEF Sound
<1> QED
    BY <1>1, <1>2, RequestInvBy

(* Through the gates to the bus: every check is behind the request.        *)
LEMMA GatesMakeGenuine ==
    ASSUME TaskInv, RequestInv, NEW t \in Ingesters, ingest_inbound_at(t), pc'[t] = "deliver"
    PROVE  Genuine(Request(t)) /\ req'[t] = req[t]
<1> DEFINE r == Request(t)
           g == run_cheap_gates(guard, r.e, OwnDomain, r.e.from \in Principals, r.now)
           why == IF g.verdict # "ok" THEN g.verdict
                  ELSE IF verify_inbound_any(r.e, r.now) # "ok"
                  THEN verify_inbound_any(r.e, r.now)
                  ELSE check_audience_and_format(r.e, r.via)
<1>1. pc[t] = "gates" /\ (IF why # "ok" THEN Answered(t, r, why) ELSE UNCHANGED req)
    BY DEF ingest_inbound_at
<1>2. why = "ok" /\ req'[t] = req[t]
  <2>1. why # "ok" => pc'[t] # "deliver"
    <3> SUFFICES ASSUME why # "ok" PROVE pc'[t] # "deliver"
        OBVIOUS
    <3>1. \E w : Answered(t, r, w)
        BY <1>1
    <3> HIDE DEF why, r
    <3> QED
        BY <3>1, AnsweredView
  <2> QED
      BY <1>1, <2>1
<1>3. g.verdict = "ok" /\ verify_inbound_any(r.e, r.now) = "ok"
      /\ check_audience_and_format(r.e, r.via) = "ok"
    BY <1>2
<1>4. Sound(r, "gates")
    BY <1>1 DEF RequestInv
<1>5. r.now \in Nat /\ r.e.flaw \in {"none", "class", "signature", "body", "fields"}
    BY <1>4 DEF Sound
<1>6. r.e.to = OwnDomain /\ freshness_check(r.e.ts, r.now)
    BY <1>3, GatesPassed
<1>7. r.e.rcpt = r.via /\ r.e.flaw # "fields"
    BY <1>3 DEF check_audience_and_format, federation_format_ok
<1> HIDE DEF r
<1>8. /\ r.e.flaw \notin {"class", "signature", "body"}
      /\ \E x \in Pins : /\ x.p = r.e.from /\ x.key = r.e.key /\ x.state = "active"
                         /\ x.until = Never \/ r.now < x.until
    BY <1>3, <1>5, VerifiedIsActive
<1>9. r.e.flaw = "none"
    BY <1>5, <1>7, <1>8
<1>10. Genuine(r)
    BY <1>6, <1>7, <1>8, <1>9 DEF Genuine
<1> QED
    BY <1>2, <1>10 DEF r

LEMMA RequestInvStep ==
    ASSUME TaskInv, RequestInv, UNCHANGED clock, NEW t \in Ingesters, IngestStep(t)
    PROVE  RequestInv'
<1>1. /\ pc[t] \in {"look", "gates", "deliver"}
      /\ \A s \in Ingesters \ {t} : pc'[s] = pc[s] /\ req'[s] = req[s]
    BY IngestStepView, TaskKinds
<1>2. Sound(Request(t), pc[t])
    BY <1>1 DEF RequestInv
<1>3. CASE IngestLook(t)
  <2>1. pc[t] = "look" /\ pc'[t] = "gates" /\ UNCHANGED req
      BY <1>3, TaskKinds DEF IngestLook, Goto, ingressVars, TaskInv
  <2>2. Request(t)' = Request(t)
      BY <2>1 DEF Request
  <2>3. Sound(Request(t), pc[t])'
      BY <1>2, <2>1, <2>2 DEF Sound
  <2> QED
      BY <1>1, <2>3, RequestInvBy
<1>4. CASE ingest_inbound_at(t)
  <2>1. pc[t] = "gates" /\ pc'[t] \in {"deliver", "batch", "free"}
    <3>1. \/ \E why : Answered(t, Request(t), why)
          \/ Goto(t, "deliver")
        BY <1>4 DEF ingest_inbound_at
    <3>2. pc'[t] \in {"deliver", "batch", "free"}
        BY <3>1, AnsweredView, TaskKinds DEF TaskInv, Goto
    <3> QED
        BY <1>4, <3>2 DEF ingest_inbound_at
  <2>2. ASSUME pc'[t] = "deliver" PROVE Sound(Request(t), pc[t])'
    <3>1. Genuine(Request(t)) /\ req'[t] = req[t]
        BY <1>4, <2>2, GatesMakeGenuine
    <3>2. Request(t)' = Request(t)
        BY <3>1 DEF Request
    <3> QED
        BY <1>2, <2>2, <3>1, <3>2 DEF Sound, Genuine
  <2> QED
      BY <1>1, <2>1, <2>2, RequestInvBy
<1>5. CASE deliver(t)
  <2>1. pc'[t] \in {"batch", "free"}
    <3>1. \E why : Answered(t, Request(t), why)
        BY <1>5 DEF deliver
    <3> QED
        BY <3>1, AnsweredView
  <2> QED
      BY <1>1, <2>1, RequestInvBy
<1> QED
    BY <1>3, <1>4, <1>5 DEF IngestStep

(* Some numbers have a least one, and a batch a first entry.               *)
LEMMA Minimum ==
    ASSUME NEW S \in SUBSET Nat, S # {}
    PROVE  \E x \in S : \A y \in S : x <= y
<1> DEFINE Less == {p \in Nat \X Nat : p[1] < p[2]}
<1>1. \E x \in S : \A y \in S : ~(<<y, x>> \in Less)
  <2>1. OpToRel(<, Nat) = Less
      BY DEF OpToRel
  <2>2. IsWellFoundedOn(Less, Nat)
      BY <2>1, NatLessThanWellFounded
  <2> HIDE DEF Less
  <2> QED
      BY <2>2, WFMin
<1>2. PICK x \in S : \A y \in S : ~(<<y, x>> \in Less)
    BY <1>1
<1>3. ASSUME NEW y \in S PROVE x <= y
  <2>1. x \in Nat /\ y \in Nat
      OBVIOUS
  <2>2. ~(y < x)
      BY <1>2, <2>1
  <2> QED
      BY SMTT(60), <2>1, <2>2
<1> QED
    BY <1>3

LEMMA FirstIsIn ==
    ASSUME NEW got, got # {}, \A x \in got : Posted(x)
    PROVE  First(got) \in got
<1> DEFINE N == {x.no : x \in got}
<1>1. PICK n \in N : \A m \in N : n <= m
  <2>1. N \subseteq Nat /\ N # {}
      BY DEF Posted
  <2> HIDE DEF N
  <2> QED
      BY <2>1, Minimum
<1>2. PICK x \in got : x.no = n
    OBVIOUS
<1>3. \A y \in got : x.no <= y.no
    BY <1>1, <1>2
<1> QED
    BY <1>2, <1>3 DEF First

LEMMA RequestInvNext ==
    ASSUME HandledInv, PostedInv, RequestInv, plan \in Plans, Next
    PROVE  RequestInv'
<1>1. TaskInv
    BY DEF HandledInv
<1>2. ASSUME UNCHANGED <<clock, pc, req>> PROVE RequestInv'
    BY <1>2, RequestInvBy
<1>3. ASSUME UNCHANGED <<clock, req>>, NEW l \in {"poll", "asked", "waiting", "batch"},
             Goto(Fetcher, l)
      PROVE  RequestInv'
    BY <1>1, <1>3, FetcherView, RequestInvBy, TaskKinds
<1>4. ASSUME GatewayStep PROVE RequestInv'
  <2>1. UNCHANGED clock
      BY <1>4 DEF GatewayStep
  <2>2. ASSUME NEW n \in plan.egress, EgressStep(n) PROVE RequestInv'
    <3>1. (\A t \in Ingesters : pc'[t] = pc[t]) /\ UNCHANGED req
        BY <1>1, <2>2, EgressView, PlanAssumption DEF ingressVars
    <3> QED
        BY <2>1, <3>1, RequestInvBy
  <2> QED
      BY <1>1, <1>4, <2>1, <2>2, RequestInvStep DEF GatewayStep
<1>5. ASSUME NEW h \in Handlers, NEW post \in Posts, PostDirect(h, post) PROVE RequestInv'
    BY <1>1, <1>5, RequestInvIngest, TaskKinds DEF PostDirect, inbox_handler
<1>6. ASSUME FetchNext PROVE RequestInv'
  <2>1. CASE batch = {}
      BY <1>3, <1>6, <2>1 DEF FetchNext
  <2>2. CASE batch # {}
    <3> DEFINE x == First(batch)
    <3>1. UNCHANGED clock /\ Ingest(Fetcher, x.e.e, x.e.via) /\ batch' = batch \ {x}
        BY <1>6, <2>2 DEF FetchNext
    <3>2. x.e \in Posts
        BY <2>2, FirstIsIn DEF PostedInv, Posted
    <3> QED
        BY <1>1, <3>1, <3>2, RequestInvIngest, TaskKinds
  <2> QED
      BY <2>1, <2>2
<1>7. ASSUME Tick PROVE RequestInv'
  <2>1. clock' = clock + 1 /\ UNCHANGED <<pc, req>> /\ GatewayPrompt
      BY <1>7 DEF Tick, gatewayVars, ingressVars
  <2>2. ASSUME NEW t \in Ingesters, pc[t] \in {"look", "gates", "deliver"}
        PROVE  Sound(Request(t), pc[t])'
    <3>1. Sound(Request(t), pc[t]) /\ Request(t)' = Request(t)
        BY <2>1, <2>2 DEF RequestInv, Request
    <3>2. pc[t] \in {"look", "gates"} => clock + 1 <= Request(t).now + IngressLag
        BY SMTT(60), <2>1, <3>1, IngressAssumption DEF GatewayPrompt, RequestInv, Sound
    <3> QED
        BY SMTT(60), <2>1, <3>1, <3>2 DEF Sound, Genuine, RequestInv
  <2> QED
      BY SMTT(60), <2>1, <2>2 DEF RequestInv
<1>8. ASSUME Start \/ Kill PROVE RequestInv'
  <2>1. UNCHANGED clock /\ \A t \in Ingesters : pc'[t] \in {"dead", "poll", "free"}
      BY <1>8, TaskKinds DEF Start, GatewayStart, Kill, GatewayKill
  <2> QED
      BY <2>1, RequestInvBy
<1>9. ASSUME (\E k \in Slots : Arrive(k) \/ Respond(k)) \/ poll_once \/ Unsent \/ KillRelay
      PROVE  RequestInv'
  <2>1. UNCHANGED <<clock, req>>
      BY <1>9 DEF Arrive, Respond, poll_once, Unsent, KillRelay, FetchArrives,
         FetchAnswered,
                  RelayRestart
  <2>2. UNCHANGED pc \/ \E l \in {"poll", "asked", "waiting", "batch"} : Goto(Fetcher, l)
      BY <1>9 DEF Arrive, Respond, poll_once, Unsent, KillRelay, Retry
  <2> QED
      BY <1>2, <1>3, <2>1, <2>2
<1>10. ASSUME (\E post \in Posts : PostToRelay(post)) \/ RelaySweep
              \/ (\E n \in Principals : LocalSend(n))
              \/ \E k \in Slots : RespondToNobody(k) \/ RelayStep(k)
       PROVE  RequestInv'
  <2>1. UNCHANGED <<clock, pc, req>>
      BY <1>10 DEF PostToRelay, enqueue_handler, RelaySweep, Sweep, LocalSend,
         RespondToNobody,
                   FetchAnswered, RelayStep, FetchNonce, FetchDrain, gatewayVars, ingressVars
  <2> QED
      BY <1>2, <2>1
<1> QED
    BY <1>4, <1>5, <1>6, <1>7, <1>8, <1>9, <1>10 DEF Next

(* Only deliver delivers, and what it has in hand is genuine.              *)
LEMMA DeliveredStep ==
    ASSUME Next
    PROVE  \/ UNCHANGED delivered
           \/ \E t \in Ingesters : pc[t] = "deliver" /\ delivered' = delivered \cup {Request(t)}
<1>1. ASSUME GatewayStep
      PROVE  \/ UNCHANGED delivered
             \/ \E t \in Ingesters : pc[t] = "deliver" /\ delivered' = delivered \cup {Request(t)}
    BY <1>1 DEF GatewayStep, EgressStep, EgressLock, EgressAwait, RelayOne, NotifyStart,
                NotifyGuard, NotifySend, IngestStep, IngestLook, ingest_inbound_at, deliver,
                ingressVars
<1>2. ASSUME Next, ~GatewayStep PROVE UNCHANGED delivered
    BY <1>2 DEF Next, PostDirect, inbox_handler, PostToRelay, LocalSend, Arrive,
       Respond,
       RespondToNobody, RelayStep, poll_once, Unsent, FetchNext, RelaySweep, Start,
       GatewayStart, Kill, GatewayKill, KillRelay, Tick, elsewhere, gatewayVars, ingressVars
<1> QED
    BY <1>1, <1>2

LEMMA GenuineInvAlways == Spec => []GenuineInv
<1>1. Init => GenuineInv
  <2> SUFFICES ASSUME Init PROVE GenuineInv
      OBVIOUS
  <2>1. RelayInit /\ GatewayInit /\ clock = 0 /\ batch = {}
      BY DEF Init, ClockInit
  <2>2. PostedInv
      BY <2>1 DEF RelayInit, PostedInv, Free
  <2>3. RequestInv
      BY <2>1, TaskKinds DEF GatewayInit, RequestInv
  <2>4. DeliveredIsGenuine
      BY <2>1 DEF GatewayInit, DeliveredIsGenuine
  <2> QED
      BY <2>2, <2>3, <2>4 DEF GenuineInv
<1>2. HandledInv /\ RunInv /\ plan \in Plans /\ GenuineInv /\ [Next]_vars => GenuineInv'
  <2> SUFFICES ASSUME HandledInv, plan \in Plans, GenuineInv, [Next]_vars PROVE GenuineInv'
      OBVIOUS
  <2>1. CASE Next
    <3>1. PostedInv' /\ RequestInv'
        BY <2>1, PostedInvNext, RequestInvNext DEF GenuineInv
    <3>2. DeliveredIsGenuine'
      <4>1. CASE UNCHANGED delivered
          BY <4>1 DEF GenuineInv, DeliveredIsGenuine
      <4>2. ASSUME NEW t \in Ingesters, pc[t] = "deliver",
                   delivered' = delivered \cup {Request(t)}
            PROVE  DeliveredIsGenuine'
        <5>1. Genuine(Request(t))
            BY <4>2 DEF GenuineInv, RequestInv, Sound
        <5> QED
            BY <4>2, <5>1 DEF GenuineInv, DeliveredIsGenuine, Genuine
      <4> QED
          BY <2>1, <4>1, <4>2, DeliveredStep
    <3> QED
        BY <3>1, <3>2 DEF GenuineInv
  <2>2. CASE UNCHANGED vars
    <3>1. UNCHANGED <<queues, slot, posts, batch, clock, pc, req, delivered>>
        BY <2>2 DEF vars, gatewayVars, ingressVars, fedVars, fetchVars, relayVars
    <3>2. PostedInv'
        BY <3>1 DEF GenuineInv, PostedInv
    <3>3. RequestInv'
        BY <3>1, RequestInvBy DEF GenuineInv
    <3> QED
        BY <3>1, <3>2, <3>3 DEF GenuineInv, DeliveredIsGenuine
  <2> QED
      BY <2>1, <2>2
<1> QED
    BY <1>1, <1>2, HandledInvAlways, PTL DEF Spec

(* What the gateway hands to the local bus (deliver), however requests,    *)
(* fetched entries and the clock interleave between the first look and the *)
(* delivery, was addressed to it, was fresh when it came in, decoded, and  *)
(* carries the signature of a key that was pinned and active then.         *)
THEOREM DeliveriesAreGenuine == Spec => []DeliveredIsGenuine
<1>1. GenuineInv => DeliveredIsGenuine
    BY DEF GenuineInv
<1> QED
    BY <1>1, GenuineInvAlways, PTL

-----------------------------------------------------------------------------
(* What passes the guard twice is spaced.                                  *)

GuardShape(g) ==
    /\ g = [replay |-> [p \in Principals |-> g.replay[p]],
            rate   |-> [p \in Principals |-> g.rate[p]]]
    /\ \A p \in Principals : \A x \in g.replay[p] : x.at \in Nat

(* A pass that was not evicted is remembered, or is as old as the cache    *)
(* keeps it.                                                               *)
Remembers(a) ==
    \/ <<a.e.from, a.e.nonce>> \in evicted
    \/ a.at + ReplayTtl <= clock
    \/ \E x \in guard.replay[a.e.from] : x.n = a.e.nonce /\ x.at = a.at

SpacingInv ==
    /\ GuardShape(guard)
    /\ \A a \in accepted :
          a.at \in Nat /\ a.at <= clock /\ a.e.from \in Principals /\ Remembers(a)
    /\ ReplaySpacing

(* A sighting that counts as new is remembered, and nothing that is still  *)
(* remembered has its nonce.                                               *)
LEMMA RecordView ==
    ASSUME NEW known, \A x \in known : x.at \in Nat, NEW n, NEW now \in Nat
    PROVE  LET r == record(known, n, now)
           IN  /\ \A x \in r.seen : x.at \in Nat
               /\ r.ok => /\ [n |-> n, at |-> now] \in r.seen
                          /\ \A x \in known : x.n = n => ~(now - x.at < ReplayTtl)
<1> DEFINE kept == Unexpired(known, now)
           old  == \E x \in kept : x.n = n
           room == IF Cardinality(kept) >= MaxPerSender /\ kept # {}
                   THEN kept \ {Oldest(kept)} ELSE kept
           r    == record(known, n, now)
<1>1. r = IF old THEN [ok |-> FALSE, seen |-> kept]
          ELSE [ok |-> TRUE, seen |-> room \cup {[n |-> n, at |-> now]}]
    BY DEF record
<1>2. kept \subseteq known /\ room \subseteq kept
      /\ \A x \in known : x \notin kept => ~(now - x.at < ReplayTtl)
    BY DEF Unexpired
<1> HIDE DEF kept, room
<1>3. CASE old
    BY SMTT(60), <1>1, <1>2, <1>3
<1>4. CASE ~old
  <2>1. r.ok /\ r.seen = room \cup {[n |-> n, at |-> now]}
      BY SMTT(60), <1>1, <1>4
  <2>2. \A x \in r.seen : x.at \in Nat
      BY SMTT(60), <1>2, <2>1
  <2>3. \A x \in known : x.n = n => ~(now - x.at < ReplayTtl)
      BY <1>2, <1>4
  <2>4. [n |-> n, at |-> now] \in r.seen
      BY <2>1
  <2> HIDE DEF r
  <2> QED
      BY <2>2, <2>3, <2>4 DEF r
<1> QED
    BY <1>3, <1>4

(* The gates leave the guard alone, or record the nonce.                   *)
LEMMA GatesView ==
    ASSUME NEW g, GuardShape(g), NEW e, NEW now \in Nat
    PROVE  LET res == run_cheap_gates(g, e, OwnDomain, e.from \in Principals, now)
               rec == record(g.replay[e.from], e.nonce, now)
           IN  \/ res.guard = g /\ res.verdict # "ok"
               \/ /\ e.from \in Principals
                  /\ GuardShape(res.guard)
                  /\ res.guard.replay[e.from] = rec.seen
                  /\ \A p \in Principals \ {e.from} : res.guard.replay[p] = g.replay[p]
                  /\ res.verdict = "ok" => rec.ok
<1> DEFINE res == run_cheap_gates(g, e, OwnDomain, e.from \in Principals, now)
           rec == record(g.replay[e.from], e.nonce, now)
           a   == admit(g.rate[e.from], now)
           g1  == [g EXCEPT !.replay[e.from] = rec.seen]
           g2  == [g EXCEPT !.replay[e.from] = rec.seen, !.rate[e.from] = a.bucket]
<1>1. \/ res.guard = g /\ res.verdict # "ok"
      \/ /\ e.from \in Principals
         /\ \/ res = [verdict |-> "ReplayedNonce", guard |-> g1]
            \/ rec.ok /\ res = [verdict |-> IF a.ok THEN "ok" ELSE "RateLimited", guard |-> g2]
    BY DEF run_cheap_gates, audience_check
<1>2. ASSUME e.from \in Principals
      PROVE  \A x \in rec.seen : x.at \in Nat
    BY <1>2, RecordView DEF GuardShape
<1>3. ASSUME e.from \in Principals, NEW h \in {g1, g2}
      PROVE  /\ GuardShape(h)
             /\ h.replay[e.from] = rec.seen
             /\ \A p \in Principals \ {e.from} : h.replay[p] = g.replay[p]
  <2>1. PICK s : s = rec.seen
      OBVIOUS
  <2>2. PICK b : b = a.bucket
      OBVIOUS
  <2>3. \/ h = [g EXCEPT !.replay[e.from] = s]
        \/ h = [g EXCEPT !.replay[e.from] = s, !.rate[e.from] = b]
      BY <1>3, <2>1, <2>2
  <2>4. \A x \in s : x.at \in Nat
      BY <1>2, <1>3, <2>1
  <2> HIDE DEF rec, a, g1, g2
  <2>5. /\ h.replay = [g.replay EXCEPT ![e.from] = s]
        /\ h.rate = g.rate \/ h.rate = [g.rate EXCEPT ![e.from] = b]
        /\ h = [replay |-> h.replay, rate |-> h.rate]
      BY <2>3 DEF GuardShape
  <2>6. /\ g.replay = [p \in Principals |-> g.replay[p]]
        /\ g.rate = [p \in Principals |-> g.rate[p]]
      BY SMTT(60) DEF GuardShape
  <2>7. /\ h.replay = [p \in Principals |-> h.replay[p]]
        /\ h.rate = [p \in Principals |-> h.rate[p]]
        /\ h.replay[e.from] = s
        /\ \A p \in Principals \ {e.from} : h.replay[p] = g.replay[p]
      BY <1>3, <2>5, <2>6
  <2>8. \A p \in Principals : \A x \in h.replay[p] : x.at \in Nat
      BY <2>4, <2>7 DEF GuardShape
  <2> QED
      BY <2>1, <2>5, <2>7, <2>8 DEF GuardShape
<1> HIDE DEF g1, g2, rec, a, res
<1>4. CASE res.guard = g /\ res.verdict # "ok"
    BY <1>4 DEF res, rec
<1>5. CASE e.from \in Principals /\ res = [verdict |-> "ReplayedNonce", guard |-> g1]
    BY SMTT(60), <1>3, <1>5 DEF res, rec
<1>6. CASE e.from \in Principals /\ rec.ok
           /\ res = [verdict |-> IF a.ok THEN "ok" ELSE "RateLimited", guard |-> g2]
    BY SMTT(60), <1>3, <1>6 DEF res, rec
<1> QED
    BY <1>1, <1>4, <1>5, <1>6

(* Two passes far enough apart, in either order.                           *)
Apart(a, b) == a.at - b.at \notin -(ReplayTtl - IngressLag - 1)..(ReplayTtl - IngressLag - 1)

LEMMA LaterIsApart ==
    ASSUME NEW a, NEW b, a.at \in Nat, b.at \in Nat, a.at + ReplayTtl <= b.at + IngressLag
    PROVE  Apart(a, b) /\ Apart(b, a)
<1>1. ReplayTtl \in Nat /\ IngressLag \in Nat
    BY GuardAssumption, IngressAssumption
<1> QED
    BY SMTT(60), <1>1 DEF Apart

LEMMA SpacingInvGates ==
    ASSUME RequestInv, SpacingInv, UNCHANGED clock, NEW t \in Ingesters, ingest_inbound_at(t)
    PROVE  SpacingInv'
<1> DEFINE r   == Request(t)
           f   == r.e.from
           res == run_cheap_gates(guard, r.e, OwnDomain, f \in Principals, r.now)
           rec == record(guard.replay[f], r.e.nonce, r.now)
           new == [no |-> Cardinality(accepted), e |-> r.e, at |-> r.now]
<1>1. /\ guard' = res.guard
      /\ evicted' = evicted \cup {<<f, x.n>> :
                        x \in Unexpired(guard.replay[f], r.now) \ guard'.replay[f]}
      /\ accepted' = IF res.verdict = "ok" THEN accepted \cup {new} ELSE accepted
    BY DEF ingest_inbound_at
<1>2. clock \in Nat /\ r.now \in Nat /\ r.now <= clock /\ clock <= r.now + IngressLag
  <2>1. pc[t] = "gates"
      BY DEF ingest_inbound_at
  <2>2. Sound(r, "gates")
      BY <2>1 DEF RequestInv
  <2> QED
      BY <2>2 DEF Sound, RequestInv
<1>3. ReplayTtl \in Nat /\ IngressLag \in Nat
    BY GuardAssumption, IngressAssumption
<1>4. GuardShape(guard)
    BY DEF SpacingInv
<1>5. \/ guard' = guard /\ accepted' = accepted
      \/ /\ f \in Principals /\ GuardShape(guard')
         /\ guard'.replay[f] = rec.seen
         /\ \A p \in Principals \ {f} : guard'.replay[p] = guard.replay[p]
         /\ accepted' = accepted \/ (accepted' = accepted \cup {new} /\ rec.ok)
  <2>1. \/ res.guard = guard /\ res.verdict # "ok"
        \/ /\ f \in Principals
           /\ GuardShape(res.guard)
           /\ res.guard.replay[f] = rec.seen
           /\ \A p \in Principals \ {f} : res.guard.replay[p] = guard.replay[p]
           /\ res.verdict = "ok" => rec.ok
      BY <1>2, <1>4, GatesView
  <2> HIDE DEF res, rec, f, r, new
  <2> QED
      BY <1>1, <2>1
<1>6. GuardShape(guard')
    BY <1>4, <1>5
<1>7. PICK c : c = new /\ c.e = r.e /\ c.at = r.now
  <2>1. new.e = r.e /\ new.at = r.now
      OBVIOUS
  <2> HIDE DEF new
  <2> QED
      BY <2>1
<1>8. f \in Principals /\ rec.ok
        => /\ [n |-> r.e.nonce, at |-> r.now] \in rec.seen
           /\ \A x \in guard.replay[f] : x.n = r.e.nonce => ~(r.now - x.at < ReplayTtl)
    BY <1>2, <1>4, RecordView DEF GuardShape
<1> HIDE DEF r, f, rec, res, new
<1>9. ASSUME NEW a \in accepted PROVE Remembers(a)'
  <2>1. Remembers(a) /\ a.at \in Nat /\ a.e.from \in Principals
      BY DEF SpacingInv
  <2>2. CASE <<a.e.from, a.e.nonce>> \in evicted \/ a.at + ReplayTtl <= clock
      BY <1>1, <2>2 DEF Remembers
  <2>3. ASSUME NEW x \in guard.replay[a.e.from], x.n = a.e.nonce, x.at = a.at
        PROVE  Remembers(a)'
    <3>1. CASE x \in guard'.replay[a.e.from]
        BY <2>3, <3>1 DEF Remembers
    <3>2. CASE x \notin guard'.replay[a.e.from]
      <4>1. a.e.from = f
          BY <1>5, <2>1, <2>3, <3>2
      <4>2. CASE r.now - x.at < ReplayTtl
        <5>1. x \in Unexpired(guard.replay[f], r.now)
            BY <2>3, <4>1, <4>2 DEF Unexpired
        <5>2. <<f, x.n>> \in evicted'
            BY <1>1, <3>2, <4>1, <5>1
        <5> QED
            BY <2>3, <4>1, <5>2 DEF Remembers
      <4>3. CASE ~(r.now - x.at < ReplayTtl)
        <5>1. a.at + ReplayTtl <= clock
            BY SMTT(60), <1>2, <1>3, <2>1, <2>3, <4>3
        <5> QED
            BY <5>1 DEF Remembers
      <4> QED
          BY <4>2, <4>3
    <3> QED
        BY <3>1, <3>2
  <2> QED
      BY <2>1, <2>2, <2>3 DEF Remembers
<1>10. CASE accepted' = accepted
  <2>1. ReplaySpacing'
      BY <1>1, <1>10 DEF SpacingInv, ReplaySpacing
  <2> QED
      BY <1>6, <1>9, <1>10, <2>1 DEF SpacingInv
<1>11. CASE accepted' = accepted \cup {c} /\ f \in Principals /\ rec.ok
            /\ guard'.replay[f] = rec.seen
  <2>1. c.e.from = f /\ c.at \in Nat /\ c.at <= clock
      BY <1>2, <1>7 DEF f
  <2>2. Remembers(c)'
    <3>1. [n |-> r.e.nonce, at |-> r.now] \in guard'.replay[c.e.from]
        BY <1>8, <1>11, <2>1
    <3> QED
        BY <1>7, <3>1 DEF Remembers
  <2>3. ASSUME NEW a \in accepted, a.e.from = f, a.e.nonce = c.e.nonce,
               <<a.e.from, a.e.nonce>> \notin evicted'
        PROVE  Apart(a, c) /\ Apart(c, a)
    <3>1. Remembers(a) /\ a.at \in Nat /\ <<a.e.from, a.e.nonce>> \notin evicted
        BY <1>1, <2>3 DEF SpacingInv
    <3>2. CASE a.at + ReplayTtl <= clock
      <4>1. a.at + ReplayTtl <= c.at + IngressLag
          BY SMTT(60), <1>2, <1>3, <1>7, <3>1, <3>2
      <4> QED
          BY <2>1, <3>1, <4>1, LaterIsApart
    <3>3. CASE \E x \in guard.replay[a.e.from] : x.n = a.e.nonce /\ x.at = a.at
      <4>1. ~(r.now - a.at < ReplayTtl)
          BY <1>7, <1>8, <1>11, <2>3, <3>3
      <4>2. a.at + ReplayTtl <= c.at + IngressLag
          BY SMTT(60), <1>2, <1>3, <1>7, <3>1, <4>1
      <4> QED
          BY <2>1, <3>1, <4>2, LaterIsApart
    <3> QED
        BY <3>1, <3>2, <3>3 DEF Remembers
  <2>4. ReplaySpacing'
    <3> SUFFICES ASSUME NEW a \in accepted', NEW b \in accepted', a # b,
                        a.e.from = b.e.from, a.e.nonce = b.e.nonce,
                        <<a.e.from, a.e.nonce>> \notin evicted'
                 PROVE  Apart(a, b)
        BY DEF ReplaySpacing, Apart
    <3>1. CASE a \in accepted /\ b \in accepted
        BY <1>1, <3>1 DEF SpacingInv, ReplaySpacing, Apart
    <3>2. CASE a = c \/ b = c
        BY <1>11, <2>1, <2>3, <3>2
    <3> QED
        BY <1>11, <3>1, <3>2
  <2> QED
      BY <1>6, <1>9, <1>11, <2>1, <2>2, <2>4 DEF SpacingInv
<1> QED
    BY <1>5, <1>7, <1>10, <1>11

(* Only the gates change the guard, and a start empties it.                *)
LEMMA GuardStep ==
    ASSUME Next
    PROVE  \/ UNCHANGED <<guard, accepted, evicted>>
           \/ Start
           \/ UNCHANGED clock /\ \E t \in Ingesters : ingest_inbound_at(t)
<1>1. ASSUME GatewayStep
      PROVE  \/ UNCHANGED <<guard, accepted, evicted>>
             \/ UNCHANGED clock /\ \E t \in Ingesters : ingest_inbound_at(t)
    BY <1>1 DEF GatewayStep, EgressStep, EgressLock, EgressAwait, RelayOne, NotifyStart,
                NotifyGuard, NotifySend, IngestStep, IngestLook, deliver, ingressVars
<1>2. ASSUME ~GatewayStep, ~Start PROVE UNCHANGED <<guard, accepted, evicted>>
    BY <1>2 DEF Next, PostDirect, inbox_handler, PostToRelay, LocalSend, Arrive,
       Respond,
       RespondToNobody, RelayStep, poll_once, Unsent, FetchNext, RelaySweep,
       Kill, GatewayKill, KillRelay, Tick, elsewhere, gatewayVars, ingressVars
<1> QED
    BY <1>1, <1>2

LEMMA ClockStep ==
    ASSUME Next
    PROVE  clock' = clock \/ clock' = clock + 1
BY DEF Next, PostDirect, PostToRelay, enqueue_handler, LocalSend, Arrive, FetchArrives,
   Respond,
       RespondToNobody, FetchAnswered, RelayStep, FetchNonce, FetchDrain, poll_once, Unsent,
       FetchNext, GatewayStep, RelaySweep, Sweep, Start, Kill, KillRelay, RelayRestart, Tick

LEMMA SpacingInvStep ==
    ASSUME RequestInv, SpacingInv, [Next]_vars
    PROVE  SpacingInv'
<1>1. ASSUME UNCHANGED <<guard, accepted, evicted>>, clock' = clock \/ clock' = clock + 1
      PROVE  SpacingInv'
  <2>1. clock \in Nat /\ ReplayTtl \in Nat
      BY GuardAssumption DEF RequestInv
  <2>2. ASSUME NEW a \in accepted
        PROVE  a.at \in Nat /\ a.at <= clock' /\ a.e.from \in Principals /\ Remembers(a)'
    <3>1. a.at \in Nat /\ a.at <= clock /\ a.e.from \in Principals /\ Remembers(a)
        BY DEF SpacingInv
    <3>2. a.at + ReplayTtl <= clock => a.at + ReplayTtl <= clock'
        BY SMTT(60), <1>1, <2>1, <3>1
    <3>3. a.at <= clock'
        BY SMTT(60), <1>1, <2>1, <3>1
    <3> QED
        BY <1>1, <3>1, <3>2, <3>3 DEF Remembers
  <2>3. ReplaySpacing'
      BY <1>1 DEF SpacingInv, ReplaySpacing
  <2> QED
      BY <1>1, <2>2, <2>3 DEF SpacingInv
<1>2. ASSUME Start PROVE SpacingInv'
  <2>1. guard' = EmptyGuard(Principals) /\ accepted' = {}
      BY <1>2 DEF Start, GatewayStart
  <2> QED
      BY <2>1 DEF SpacingInv, GuardShape, EmptyGuard, ReplaySpacing
<1>3. CASE Next
    BY <1>1, <1>2, <1>3, GuardStep, ClockStep, SpacingInvGates
<1>4. CASE UNCHANGED vars
    BY <1>1, <1>4 DEF vars, gatewayVars, ingressVars
<1> QED
    BY <1>3, <1>4

(* The guard lets an envelope pass twice only when the first pass is older *)
(* than the cache keeps it, up to the time a request may be held up, or    *)
(* when the cache had to evict it: whatever number of requests is between  *)
(* the clock reading and the gates (ReplayCache::record, ingest_inbound).  *)
THEOREM ReplaysAreSpaced == Spec => []ReplaySpacing
<1>1. Init => SpacingInv
  <2> SUFFICES ASSUME Init PROVE SpacingInv
      OBVIOUS
  <2>1. guard = EmptyGuard(Principals) /\ accepted = {}
      BY DEF Init, GatewayInit
  <2> QED
      BY <2>1 DEF SpacingInv, GuardShape, EmptyGuard, ReplaySpacing
<1>2. GenuineInv /\ SpacingInv /\ [Next]_vars => SpacingInv'
    BY SpacingInvStep DEF GenuineInv
<1>3. SpacingInv => ReplaySpacing
    BY DEF SpacingInv
<1> QED
    BY <1>1, <1>2, <1>3, GenuineInvAlways, PTL DEF Spec
=============================================================================
