------------------------------- MODULE Gateway -------------------------------
(***************************************************************************)
(* famp-gateway: for each remote principal it backs, a connection to the   *)
(* local broker.  One egress task per principal drains its mailbox, signs  *)
(* and posts; request handlers (and the relay-fetch loop) take inbound     *)
(* envelopes through the guard and the signature check to the local bus.   *)
(* All tasks share the registry of connections behind one mutex, which is  *)
(* held while the bus answers; the mutex is fair, so a task that wants it  *)
(* joins the end of lockq and the head of lockq holds it.                  *)
(*                                                                         *)
(* An outbound envelope is a record [id, dom, name, to, owned]: the domain *)
(* and bare name of its `from' (Garbled if it does not parse), its `to' as *)
(* <<domain, name>> (or Garbled), and whether it carries fields only a     *)
(* gateway may set.                                                        *)
(* An inbound one is [from, to, rcpt, ts, nonce, key, flaw]: the domain    *)
(* and the name it is addressed to, the key that signed it, and what else  *)
(* is wrong with it (its shape, its signature or its federation fields).   *)
(***************************************************************************)
EXTENDS IngressGuard, Keyring, Clock

CONSTANTS
    OwnDomain,      \* this host's federation domain
    Garbled,        \* a `from' or `to' that is no principal
    Handlers,       \* inbound requests served at once
    Fetcher,        \* the relay-fetch loop
    Pins,           \* the keyring the gateway loaded
    IngressLag,     \* bound on the seconds between the clock reading of a
                    \* request and its gates
    MaxBusFaults    \* bound on the bus requests that fail

Ingesters == Handlers \cup {Fetcher}
Tasks     == Principals \cup Ingesters

ASSUME TaskAssumption    == Fetcher \notin Handlers /\ Principals \cap Ingesters = {}
ASSUME PinsAssumption    == Pins \subseteq KeyEntry
ASSUME IngressAssumption == IngressLag \in Nat

VARIABLES
    running,
    routes,     \* <<domain, name>> pairs the transport knows a URL for
    mail,       \* for each backed principal what waits in its mailbox
    lockq,      \* the holder of the registry mutex and those that wait for it
    pc,         \* where each task is
    todo,       \* for an egress task the rest of its batch
    req,        \* for an ingester the request: [e, via, now]
    guard,
    nfail,
    sent,       \* history: ids a peer answered with 202
    bounced,    \* history: <<id, name>> failure notices in local mailboxes
    gone,       \* history: ids drained by a gateway that died or could not notify
    accepted,   \* history: passes of the guard [no, e, at] since the last start
    evicted,    \* history: <<from, nonce>> the cache evicted while they counted
    delivered,  \* history: requests handed to the local bus: [e, via, now]
    answers     \* history: requests answered, and the status: <<request, code>>

egressVars  == <<mail, todo, sent, bounced, gone>>
ingressVars == <<req, guard, accepted, evicted, delivered, answers>>
gatewayVars == <<running, routes, lockq, pc, nfail, egressVars, ingressVars>>

Holds(t)   == lockq # <<>> /\ Head(lockq) = t
Goto(t, l) == pc' = [pc EXCEPT ![t] = l]

-----------------------------------------------------------------------------
(* Start.                                                                  *)

(* A command line that leaves a URL open is refused: a backed principal    *)
(* whose domain has no --peer, or no --backs and several peers.            *)
Startable(args) ==
    IF args.backs # {} THEN \A b \in args.backs : b[1] \in args.peers
    ELSE Cardinality(args.peers) <= 1

(* The principals with a URL: with --backs exactly those, without, every   *)
(* name at the one peer there is.                                          *)
build_route_map(args) ==
    IF args.backs # {} THEN args.backs ELSE args.peers \X Principals

(* A new process: no lock is held and the guard has seen nothing.          *)
GatewayStart(args) ==
    /\ ~running
    /\ Startable(args)
    /\ running' = TRUE
    /\ routes' = build_route_map(args)
    /\ lockq' = <<>>
    /\ pc' = [t \in Tasks |-> IF t \in Principals THEN "loop"
                              ELSE IF t = Fetcher THEN "poll" ELSE "free"]
    /\ guard' = EmptyGuard(Principals)
    /\ accepted' = {} /\ evicted' = {}
    /\ UNCHANGED <<nfail, egressVars, req, delivered, answers>>

GatewayKill ==
    /\ running
    /\ running' = FALSE
    /\ lockq' = <<>>
    /\ pc' = [t \in Tasks |-> "dead"]
    /\ todo' = [n \in Principals |-> <<>>]
    /\ gone' = gone \cup UNION {{todo[n][i].id : i \in DOMAIN todo[n]} : n \in Principals}
    /\ req' = [t \in Ingesters |-> {}]
    /\ UNCHANGED <<routes, nfail, mail, sent, bounced,
                   guard, accepted, evicted, delivered, answers>>

-----------------------------------------------------------------------------
(* Egress.                                                                 *)

(* Mutant: a task that was there already goes before those that wait.      *)
M_EgressLock(n) ==
    /\ pc[n] = "loop"
    /\ lockq' = IF lockq = <<>> THEN <<n>> ELSE <<Head(lockq), n>> \o Tail(lockq)
    /\ Goto(n, "await")
    /\ UNCHANGED <<running, routes, nfail, egressVars, ingressVars>>

EgressLock(n) ==
    /\ pc[n] = "loop"
    /\ lockq' = Append(lockq, n)
    /\ Goto(n, "await")
    /\ UNCHANGED <<running, routes, nfail, egressVars, ingressVars>>

(* A short Await with the mutex held: what waits, or nothing in time.  A   *)
(* failure of the bus counts as nothing.                                   *)
EgressAwait(n) ==
    /\ pc[n] = "await"
    /\ Holds(n)
    /\ lockq' = Tail(lockq)
    /\ \/ /\ todo' = [todo EXCEPT ![n] = mail[n]]
          /\ mail' = [mail EXCEPT ![n] = <<>>]
          /\ Goto(n, IF mail[n] = <<>> THEN "loop" ELSE "relay")
          /\ UNCHANGED nfail
       \/ /\ nfail < MaxBusFaults
          /\ nfail' = nfail + 1
          /\ Goto(n, "loop")
          /\ UNCHANGED <<todo, mail>>
    /\ UNCHANGED <<running, routes, sent, bounced, gone, ingressVars>>

Current(n)  == Head(todo[n])
Advance(n)  == /\ todo' = [todo EXCEPT ![n] = Tail(@)]
               /\ Goto(n, IF Len(todo[n]) = 1 THEN "loop" ELSE "relay")

(* relay_one up to the post: both ends are principals, and the gateway     *)
(* signs for its own domain only, and nothing that already carries what it *)
(* would add.                                                              *)
Signable(e) == e.dom = OwnDomain /\ e.to # Garbled /\ ~e.owned

(* HttpTransport::send: a recipient without a URL is refused; a post is     *)
(* taken with 202, or fails for any other answer, for none in time, or on   *)
(* its way.                                                                 *)
http_send(to) == {"failed"} \cup IF to \in routes THEN {"202"} ELSE {}

Relayable(e) == Signable(e) /\ "202" \in http_send(e.to)

(* Mutant: a failure is only logged.                                       *)
M_RelayOne(n) ==
    /\ pc[n] = "relay"
    /\ \/ Relayable(Current(n)) /\ sent' = sent \cup {Current(n).id}
       \/ UNCHANGED sent
    /\ Advance(n)
    /\ UNCHANGED <<running, routes, lockq, nfail, mail, bounced, gone, ingressVars>>

(* The post is answered with 202, or fails; when it fails the peer may     *)
(* have taken it all the same.                                             *)
RelayOne(n) ==
    /\ pc[n] = "relay"
    /\ \/ /\ Relayable(Current(n))
          /\ sent' = sent \cup {Current(n).id}
          /\ Advance(n)
       \/ Goto(n, "failed") /\ UNCHANGED <<todo, sent>>
    /\ UNCHANGED <<running, routes, lockq, nfail, mail, bounced, gone, ingressVars>>

(* notify_relay_failure: whom to tell is looked up in the envelope, then   *)
(* in the registry; the notice is built, for which the `to' must be a      *)
(* principal too, and sent in a second turn at the mutex.                  *)
NotifyStart(n) ==
    /\ pc[n] = "failed"
    /\ IF Current(n).dom = Garbled
       THEN Advance(n) /\ UNCHANGED lockq
       ELSE /\ lockq' = Append(lockq, n)
            /\ Goto(n, "guard")
            /\ UNCHANGED todo
    /\ UNCHANGED <<running, routes, nfail, mail, sent, bounced, gone, ingressVars>>

sender_is_itself_backed(name) == name \in Principals

build_relay_failure_ack(e) == Garbled \notin {e.dom, e.to}

NotifyGuard(n) ==
    /\ pc[n] = "guard"
    /\ Holds(n)
    /\ IF sender_is_itself_backed(Current(n).name) \/ ~build_relay_failure_ack(Current(n))
       THEN lockq' = Tail(lockq) /\ Advance(n)
       ELSE /\ lockq' = Append(Tail(lockq), n)
            /\ Goto(n, "bounce")
            /\ UNCHANGED todo
    /\ UNCHANGED <<running, routes, nfail, mail, sent, bounced, gone, ingressVars>>

(* The notice is an ack from the stand-in of the recipient.  A failure to  *)
(* send it is only logged.                                                 *)
NotifySend(n) ==
    /\ pc[n] = "bounce"
    /\ Holds(n)
    /\ lockq' = Tail(lockq)
    /\ Advance(n)
    /\ \/ /\ bounced' = bounced \cup {<<Current(n).id, Current(n).name>>}
          /\ UNCHANGED <<nfail, gone>>
       \/ /\ nfail < MaxBusFaults
          /\ nfail' = nfail + 1
          /\ gone' = gone \cup {Current(n).id}
          /\ UNCHANGED bounced
    /\ UNCHANGED <<running, routes, mail, sent, ingressVars>>

-----------------------------------------------------------------------------
(* Ingress.                                                                *)

(* The status of an answer (IngressError).                                 *)
into_response(why) ==
    CASE why = "ok" -> 202
      [] why \in {"UnpinnedKey", "ExpiredKey", "RevokedKey", "ForeignDomain"} -> 403
      [] why = "RateLimited" -> 429
      [] why = "Internal" -> 500
      [] why = "SenderNotBacked" -> 502
      [] OTHER -> 400

(* The answer to a request: the handler is free again; the fetch loop logs *)
(* a refusal and goes on with its batch.                                   *)
Answered(t, r, why) ==
    /\ req' = [req EXCEPT ![t] = {}]
    /\ Goto(t, IF t = Fetcher THEN "batch" ELSE "free")
    /\ answers' = IF t = Fetcher THEN answers
                  ELSE answers \cup {<<r, into_response(why)>>}

(* ingest_inbound reads the clock, peeks at the fields, and queues for the *)
(* registry.  `via' is the recipient of the URL path or of the relay.      *)
Ingest(t, e, via) ==
    LET r == [e |-> e, via |-> via, now |-> clock]
    IN  IF ~peek_guard_fields(e)
        THEN Answered(t, r, "BadEnvelopeShape") /\ UNCHANGED lockq
        ELSE /\ req' = [req EXCEPT ![t] = {r}]
             /\ lockq' = Append(lockq, t)
             /\ Goto(t, "look")
             /\ UNCHANGED answers

Request(t) == CHOOSE r \in req[t] : TRUE

inbox_handler(h, e, via) ==
    /\ pc[h] = "free"
    /\ Ingest(h, e, via)
    /\ UNCHANGED <<running, routes, nfail, egressVars, guard, accepted, evicted, delivered>>

(* The registry is looked at with the mutex held.                          *)
IngestLook(t) ==
    /\ pc[t] = "look"
    /\ Holds(t)
    /\ lockq' = Tail(lockq)
    /\ Goto(t, "gates")
    /\ UNCHANGED <<running, routes, nfail, egressVars, ingressVars>>

(* Why a key cannot be used.                                               *)
reject_for_outcome(outcome) ==
    CASE outcome = "Expired" -> "ExpiredKey"
      [] outcome = "Revoked" -> "RevokedKey"
      [] OTHER -> "UnpinnedKey"

(* Mutant: the expiry of the key is not looked at.                         *)
M_verify_inbound_any(e, now) ==
    IF e.key \in get(Pins, e.from) THEN "ok" ELSE "InvalidSignature"

(* SignedEnvelope::decode_value: the signature over all but itself, then   *)
(* the version, the types, the scope of the class and the body's rules.    *)
decode_value(e, key) == e.key = key /\ e.flaw \notin {"signature", "body"}

(* AnySignedEnvelope::decode                                               *)
decode_any(e, key) == e.flaw # "class" /\ decode_value(e, key)

(* A nonce, and an expiry later than ts, both in the one form in which the *)
(* order of the strings is the order of the times.                         *)
federation_format_ok(e) == e.flaw # "fields"

(* A key that is active at `now' made the signature.                       *)
verify_inbound_any(e, now) ==
    LET k == active_key(Pins, e.from, now)
    IN  IF k.outcome # "Active" THEN reject_for_outcome(k.outcome)
        ELSE IF decode_any(e, k.key) THEN "ok" ELSE "InvalidSignature"

check_audience_and_format(e, via) ==
    IF e.rcpt # via THEN "MisaddressedRecipient"
    ELSE IF federation_format_ok(e) THEN "ok" ELSE "MalformedFederationFields"

(* The guard with its lock held, then the signature, the recipient and the *)
(* format of the fields, and the queue for the registry.                   *)
ingest_inbound_at(t) ==
    /\ pc[t] = "gates"
    /\ LET r == Request(t)
           g == run_cheap_gates(guard, r.e, OwnDomain, r.e.from \in Principals, r.now)
           before == guard.replay[r.e.from]
           after  == g.guard.replay[r.e.from]
       IN  /\ guard' = g.guard
           /\ evicted' = evicted \cup {<<r.e.from, x.n>> :
                                              x \in Unexpired(before, r.now) \ after}
           /\ accepted' = IF g.verdict = "ok"
                          THEN accepted \cup {[no |-> Cardinality(accepted), e |-> r.e,
                                                at |-> r.now]}
                          ELSE accepted
           /\ LET why == IF g.verdict # "ok" THEN g.verdict
                         ELSE IF verify_inbound_any(r.e, r.now) # "ok"
                         THEN verify_inbound_any(r.e, r.now)
                         ELSE check_audience_and_format(r.e, r.via)
              IN  IF why # "ok" THEN Answered(t, r, why) /\ UNCHANGED lockq
                  ELSE /\ lockq' = Append(lockq, t)
                       /\ Goto(t, "deliver")
                       /\ UNCHANGED <<req, answers>>
    /\ UNCHANGED <<running, routes, nfail, egressVars, delivered>>

(* The relay's fields are stripped and the envelope sent to the local name *)
(* over the sender's own connection.                                       *)
deliver(t) ==
    /\ pc[t] = "deliver"
    /\ Holds(t)
    /\ lockq' = Tail(lockq)
    /\ \/ /\ delivered' = delivered \cup {Request(t)}
          /\ Answered(t, Request(t), "ok")
          /\ UNCHANGED nfail
       \/ /\ nfail < MaxBusFaults
          /\ nfail' = nfail + 1
          /\ Answered(t, Request(t), "Internal")
          /\ UNCHANGED delivered
    /\ UNCHANGED <<running, routes, egressVars, guard, accepted, evicted>>

GatewayInit ==
    /\ running = FALSE
    /\ routes = {}
    /\ lockq = <<>>
    /\ pc = [t \in Tasks |-> "dead"]
    /\ todo = [n \in Principals |-> <<>>]
    /\ req = [t \in Ingesters |-> {}]
    /\ guard = EmptyGuard(Principals)
    /\ nfail = 0
    /\ sent = {} /\ bounced = {} /\ gone = {}
    /\ accepted = {} /\ evicted = {} /\ delivered = {} /\ answers = {}

EgressStep(n) ==
    \/ EgressLock(n) \/ EgressAwait(n) \/ RelayOne(n)
    \/ NotifyStart(n) \/ NotifyGuard(n) \/ NotifySend(n)

IngestStep(t) == IngestLook(t) \/ ingest_inbound_at(t) \/ deliver(t)

(* A request is not held up for longer than IngressLag before its gates.   *)
GatewayPrompt ==
    \A t \in Ingesters : pc[t] \in {"look", "gates"} => clock < Request(t).now + IngressLag
=============================================================================
