------------------------------ MODULE Federation ------------------------------
(***************************************************************************)
(* A gateway, the relay it fetches from and the network around them.       *)
(*                                                                         *)
(* Peers post envelopes to the gateway or to the relay; the network may    *)
(* deliver a post or a fetch request again and may lose a response.  Both  *)
(* processes may die.  The relay-fetch loop polls the relay and takes what *)
(* it gets through the same ingest core as a direct post.                  *)
(***************************************************************************)
EXTENDS Gateway, Relay

CONSTANTS
    Plans,          \* what happens: records of the command line (args), the
                    \* egress tasks that take part (egress), the envelopes
                    \* local agents send (outbox), the ones posted
                    \* to the gateway (direct) and to the relay (relayed), how
                    \* often each arrives (copies), the fetch requests that
                    \* arrive again (repeats), whether the relay knows the
                    \* gateway's key (good), and the bounds on the polls, on
                    \* the clock and on the processes that die (kills)
    Ahead           \* seconds by which the gateway's clock is ahead

ASSUME AheadAssumption == Ahead \in Int

Nobody == "nobody"

VARIABLES
    plan,       \* the plan that is followed
    outbox,     \* what local agents have still to send to the remote one
    arrived,    \* history: how often each post arrived
    asked,      \* fetch requests that were sent
    mine,       \* the slot that serves the loop's own request, or Nobody
    batch,      \* entries the loop still has to ingest
    polls,      \* number of polls
    lost,       \* history: entries lost on the way from the relay
    spoiled,    \* history: entries of a batch that did not decode
    ingested,   \* history: numbers of the entries given to the ingest core
    kills,      \* number of processes that died
    copies      \* number of fetch requests delivered again

fetchVars == <<asked, mine, batch, polls, lost, spoiled, ingested, copies>>
fedVars   == <<plan, outbox, arrived, fetchVars, kills>>
vars      == <<clock, gatewayVars, relayVars, fedVars>>

(* What the actions of the fetch loop leave alone of the gateway.          *)
elsewhere == <<running, routes, nfail, egressVars, guard, accepted, evicted, delivered>>

Posts     == UNION {p.direct \cup p.relayed : p \in Plans}
Envelopes == UNION {{p.outbox[i] : i \in DOMAIN p.outbox} : p \in Plans}

ASSUME PlanAssumption ==
    /\ \A p \in Plans : p.egress \subseteq Principals /\ p.outbox \in Seq(Envelopes)
    /\ \A post \in Posts :
          post.e.flaw \in {"none", "shape", "class", "signature", "body", "fields"}
ASSUME SlotAssumption == Nobody \notin Slots

-----------------------------------------------------------------------------
(* Posts.                                                                  *)

May(post, where) == post \in where /\ arrived[post] < plan.copies
Arrives(post)    == arrived' = [arrived EXCEPT ![post] = @ + 1]

PostDirect(h, post) ==
    /\ May(post, plan.direct)
    /\ Arrives(post)
    /\ inbox_handler(h, post.e, post.via)
    /\ UNCHANGED <<clock, relayVars, plan, outbox, fetchVars, kills>>

PostToRelay(post) ==
    /\ May(post, plan.relayed)
    /\ Arrives(post)
    /\ enqueue_handler(OwnDomain, post)
    /\ UNCHANGED <<gatewayVars, plan, outbox, fetchVars, kills>>

LocalSend(n) ==
    /\ outbox # <<>>
    /\ n \in plan.egress
    /\ outbox' = Tail(outbox)
    /\ mail' = [mail EXCEPT ![n] = Append(@, Head(outbox))]
    /\ UNCHANGED <<clock, running, routes, lockq, pc, nfail, todo, sent, bounced, gone,
                   ingressVars, relayVars, plan, arrived, fetchVars, kills>>

-----------------------------------------------------------------------------
(* The relay-fetch loop.                                                   *)

(* A failure: the loop sleeps, the longer the more in a row, and polls     *)
(* again.                                                                  *)
Retry == Goto(Fetcher, "poll")

(* A fresh request is signed and sent.                                     *)
poll_once ==
    /\ pc[Fetcher] = "poll"
    /\ polls < plan.polls
    /\ polls' = polls + 1
    /\ asked' = asked \cup {[dom |-> OwnDomain, n |-> polls + 1,
                             ts |-> clock + Ahead, good |-> plan.good]}
    /\ Goto(Fetcher, "asked")
    /\ UNCHANGED <<clock, elsewhere, lockq, req, answers, relayVars, plan, outbox,
                   arrived, mine, batch, lost, spoiled, ingested, kills, copies>>

(* The relay takes the request, or the network takes it twice.             *)
Arrive(k) ==
    \E r \in asked :
        /\ FetchArrives(k, r)
        /\ \/ /\ pc[Fetcher] = "asked"
              /\ r.n = polls
              /\ Goto(Fetcher, "waiting")
              /\ mine' = k
              /\ UNCHANGED copies
           \/ /\ copies < plan.repeats
              /\ copies' = copies + 1
              /\ UNCHANGED <<pc, mine>>
        /\ UNCHANGED <<elsewhere, lockq, req, answers, plan, outbox, arrived,
                       asked, batch, polls, lost, spoiled, ingested, kills>>

(* The connection fails before the relay has the request.                  *)
Unsent ==
    /\ pc[Fetcher] = "asked"
    /\ Retry
    /\ UNCHANGED <<clock, elsewhere, lockq, req, answers, relayVars, plan, outbox,
                   arrived, asked, mine, batch, polls, lost, spoiled, ingested, kills, copies>>

(* One recipient that does not parse fails the whole batch.                *)
decode_fetch_batch(got) ==
    IF \E x \in got : x.e.via = Garbled THEN {} ELSE got

(* How the loop takes a status.                                            *)
classify_fetch_status(status) ==
    CASE status = 200 -> "Success"
      [] status \in {401, 403} -> "Unauthorized"
      [] status = 429 -> "RateLimited"
      [] OTHER -> "Other"

(* The response: a batch to ingest, a refusal, or it is lost on the way.   *)
Respond(k) ==
    /\ k = mine
    /\ FetchAnswered(k)
    /\ mine' = Nobody
    /\ LET got == slot[k].batch
           outcome == classify_fetch_status(slot[k].status)
       IN  \/ /\ outcome = "Success"
              /\ batch' = decode_fetch_batch(got)
              /\ spoiled' = spoiled \cup (got \ batch')
              /\ Goto(Fetcher, "batch")
              /\ UNCHANGED lost
           \/ /\ outcome # "Success"
              /\ Retry
              /\ UNCHANGED <<batch, lost, spoiled>>
           \/ /\ outcome = "Success"
              /\ lost' = lost \cup got
              /\ Retry
              /\ UNCHANGED <<batch, spoiled>>
    /\ UNCHANGED <<elsewhere, lockq, req, answers, plan, outbox, arrived,
                   asked, polls, ingested, kills, copies>>

(* The response to a request delivered again, or to a gateway that died,   *)
(* goes nowhere.                                                           *)
RespondToNobody(k) ==
    /\ k # mine
    /\ FetchAnswered(k)
    /\ lost' = lost \cup slot[k].batch
    /\ UNCHANGED <<gatewayVars, plan, outbox, arrived, asked, mine, batch, polls, spoiled, ingested, kills, copies>>

First(got) == CHOOSE x \in got : \A y \in got : x.no <= y.no

(* Mutant: the batch ends with its first entry.                            *)
M_FetchNext ==
    /\ pc[Fetcher] = "batch"
    /\ batch' = {}
    /\ IF batch = {}
       THEN Goto(Fetcher, "poll") /\ UNCHANGED <<lockq, req, answers, ingested>>
       ELSE /\ ingested' = ingested \cup {First(batch).no}
            /\ Ingest(Fetcher, First(batch).e.e, First(batch).e.via)
    /\ UNCHANGED <<clock, elsewhere, relayVars, plan, outbox, arrived,
                   asked, mine, polls, lost, spoiled, kills, copies>>

(* ingest_success_batch: the next entry, whatever became of the last one.  *)
FetchNext ==
    /\ pc[Fetcher] = "batch"
    /\ IF batch = {}
       THEN /\ Goto(Fetcher, "poll")
            /\ UNCHANGED <<batch, lockq, req, answers, ingested>>
       ELSE /\ batch' = batch \ {First(batch)}
            /\ ingested' = ingested \cup {First(batch).no}
            /\ Ingest(Fetcher, First(batch).e.e, First(batch).e.via)
    /\ UNCHANGED <<clock, elsewhere, relayVars, plan, outbox, arrived,
                   asked, mine, polls, lost, spoiled, kills, copies>>

-----------------------------------------------------------------------------
(* Starts, deaths and time.                                                *)

Start ==
    /\ GatewayStart(plan.args)
    /\ UNCHANGED <<clock, relayVars, plan, outbox, arrived, asked, mine, batch, polls,
                   lost, spoiled, ingested, kills, copies>>

Kill ==
    /\ kills < plan.kills
    /\ kills' = kills + 1
    /\ GatewayKill
    /\ mine' = Nobody
    /\ batch' = {}
    /\ lost' = lost \cup batch
    /\ UNCHANGED <<clock, relayVars, plan, outbox, arrived, asked, polls,
                   spoiled, ingested, copies>>

KillRelay ==
    /\ kills < plan.kills
    /\ kills' = kills + 1
    /\ RelayRestart
    /\ lost' = lost \cup UNION {slot[k].batch : k \in {x \in Slots : slot[x].at = "reply"}}
    /\ mine' = Nobody
    /\ IF mine = Nobody THEN UNCHANGED pc ELSE Retry
    /\ UNCHANGED <<elsewhere, lockq, req, answers, plan, outbox, arrived,
                   asked, batch, polls, spoiled, ingested, copies>>

RelaySweep ==
    /\ Sweep
    /\ UNCHANGED <<gatewayVars, fedVars>>

RelayStep(k) ==
    /\ FetchNonce(k) \/ FetchDrain(k)
    /\ UNCHANGED <<gatewayVars, fedVars>>

GatewayStep ==
    /\ \/ \E n \in plan.egress : EgressStep(n)
       \/ \E t \in Ingesters : IngestStep(t)
    /\ UNCHANGED <<clock, relayVars, fedVars>>

Tick ==
    /\ clock < plan.clock
    /\ GatewayPrompt
    /\ clock' = clock + 1
    /\ UNCHANGED <<gatewayVars, relayVars, fedVars>>

-----------------------------------------------------------------------------

Init ==
    /\ plan \in Plans
    /\ ClockInit /\ GatewayInit /\ RelayInit
    /\ mail = [n \in Principals |-> <<>>]
    /\ outbox = plan.outbox
    /\ arrived = [post \in Posts |-> 0]
    /\ asked = {} /\ mine = Nobody /\ batch = {}
    /\ polls = 0 /\ lost = {} /\ spoiled = {} /\ ingested = {} /\ kills = 0 /\ copies = 0

Next ==
    \/ \E h \in Handlers, post \in Posts : PostDirect(h, post)
    \/ \E post \in Posts : PostToRelay(post)
    \/ \E n \in Principals : LocalSend(n)
    \/ \E k \in Slots : Arrive(k) \/ Respond(k) \/ RespondToNobody(k) \/ RelayStep(k)
    \/ poll_once \/ Unsent \/ FetchNext
    \/ GatewayStep \/ RelaySweep
    \/ Start \/ Kill \/ KillRelay \/ Tick

Spec == Init /\ [][Next]_vars

(* The runtime polls every task that can go on, in whatever order; the     *)
(* mutex itself is fair by its queue.                                      *)
EgressGoesOn(n) == n \in plan.egress /\ EgressStep(n) /\ UNCHANGED <<clock, relayVars, fedVars>>
IngestGoesOn(t) == IngestStep(t) /\ UNCHANGED <<clock, relayVars, fedVars>>

FairSpec ==
    /\ Spec
    /\ \A n \in Principals : WF_vars(EgressGoesOn(n))
    /\ \A t \in Ingesters : WF_vars(IngestGoesOn(t))
    /\ WF_vars(FetchNext)

-----------------------------------------------------------------------------
(* Properties.                                                             *)

(* The guard lets an envelope pass again only when the first sighting is   *)
(* as old as the cache keeps it (less the time a request was held up), or  *)
(* when the cache was full and evicted it (ReplayCache::record).           *)
ReplaySpacing ==
    \A a, b \in accepted :
        (a # b /\ a.e.from = b.e.from /\ a.e.nonce = b.e.nonce
            /\ <<a.e.from, a.e.nonce>> \notin evicted)
        => a.at - b.at \notin -(ReplayTtl - IngressLag - 1)..(ReplayTtl - IngressLag - 1)

(* What a local agent reads was addressed to it, fresh, and signed by a    *)
(* key that was active when the request came in.                           *)
DeliveredIsGenuine ==
    \A d \in delivered :
        /\ d.e.to = OwnDomain /\ d.e.rcpt = d.via /\ d.e.flaw = "none"
        /\ freshness_check(d.e.ts, d.now)
        /\ \E x \in Pins : /\ x.p = d.e.from /\ x.key = d.e.key /\ x.state = "active"
                           /\ x.until = Never \/ d.now < x.until

(* No drained envelope disappears: it is still to be handled, a peer took  *)
(* it, or its sender was told; unless the gateway died, the notice failed, *)
(* or it does not say who sent it to whom, or its sender is a remote one   *)
(* (run_egress, notify_relay_failure).  And no inbound one that the local  *)
(* bus did not take is answered with 202, which the sending gateway counts *)
(* on (deliver, inbox_handler).                                            *)
NoSilentLoss ==
    /\ \A a \in answers : a[2] = 202 => a[1] \in delivered
    /\ \A i \in DOMAIN plan.outbox :
           LET e == plan.outbox[i]
               In(queue) == \E j \in DOMAIN queue : queue[j] = e
           IN  \/ In(outbox)
               \/ \E n \in Principals : In(mail[n]) \/ In(todo[n])
               \/ e.id \in sent \cup gone
               \/ <<e.id, e.name>> \in bounced
               \/ Garbled \in {e.dom, e.to} \/ e.name \in Principals

(* What the relay gave away is given to the ingest core, each entry        *)
(* whatever became of the one before it, unless the response or the batch  *)
(* was lost as a whole.                                                    *)
DrainedIsIngested ==
    \A d \in Served : \A no \in drained[d] :
        \/ \E x \in lost \cup spoiled \cup batch : x.no = no
        \/ \E k \in Slots : slot[k].at = "reply" /\ \E x \in slot[k].batch : x.no = no
        \/ no \in ingested

(* Every request is answered and every batch comes to its end: the egress  *)
(* tasks, which take the mutex again and again, starve nobody.             *)
InboundAnswered ==
    \A t \in Ingesters :
        pc[t] \in {"look", "gates", "deliver", "batch"} ~> pc[t] \in {"free", "poll", "dead"}

(* While the gateway runs, what waits for a remote principal is sent or    *)
(* its failure told, and the task comes back for more.                     *)
OutboundSettles ==
    \A n \in Principals :
        (mail[n] # <<>> \/ todo[n] # <<>>) /\ running
            ~> (mail[n] = <<>> /\ todo[n] = <<>>) \/ ~running

(* The mutex of the registry, held while the bus answers, lets both        *)
(* directions go on.                                                       *)
MutexStarvesNobody == InboundAnswered /\ OutboundSettles
=============================================================================
