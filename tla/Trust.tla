-------------------------------- MODULE Trust --------------------------------
(***************************************************************************)
(* How a host comes to trust a remote key: the `famp peer' and `famp pair' *)
(* commands, the redemption endpoint of the gateway and the redeemers on   *)
(* other hosts, over the files peers.keyring, pairing.json (with its       *)
(* lockfile) and identity.ed25519.                                         *)
(*                                                                         *)
(* Processes are commands (one at a time per operator), the handlers of    *)
(* redemption requests, and the start of the gateway.  peers.keyring has   *)
(* no lock.  `famp peer' truncates it and writes it line by line; `famp    *)
(* pair' writes a sibling file, reloads it and renames it.  pairing.json   *)
(* is replaced by a rename, under a lockfile nobody breaks.                *)
(***************************************************************************)
EXTENDS Keyring, Invites

CONSTANTS
    Operators,      \* terminals in which commands run
    Handlers,       \* requests the gateway serves at once
    Redeemers,      \* who redeems: records [p, key]
    Own,            \* principals inside the inviter's own authority
    Absent,         \* a file that does not exist
    Torn,           \* a file that was created and not written
    Peered,         \* keyring files the host may start with
    Plans,          \* what is run: commands of the operators, and how many
                    \* redemption requests that are not refused at once
    MaxCommands,    \* bound on the commands that are not refused at once
    MaxInvites,     \* bound on the invites
    MaxCrashes,     \* bound on the processes killed
    MaxClock        \* bound on the clock

Gateway == "gateway"
Procs   == Operators \cup Handlers \cup {Gateway}

ASSUME TrustAssumption ==
    /\ Operators \cap Handlers = {} /\ Gateway \notin Operators \cup Handlers
    /\ Nobody \notin Handlers \cup Redeemers
    /\ Absent \notin Procs \cup {Torn} /\ Torn \notin Procs
    /\ {MaxInvites, MaxClock} \subseteq Nat

(* The files the host may start with hold lines the program wrote, and     *)
(* redeemers claim principals and keys that such lines can hold.           *)
ASSUME FileAssumption ==
    /\ Redeemers \subseteq [p : Nat, key : Nat]
    /\ Peered \subseteq {Absent} \cup SUBSET Line

VARIABLES
    keyfile,    \* lines of peers.keyring, or Absent
    store,      \* records of pairing.json
    lock,       \* the lockfile exists
    ident,      \* who generated the key in identity.ed25519, Absent or Torn
    gateway,    \* the gateway runs, with the keyring it loaded at its start
    pc,         \* where each process is
    loc,        \* its local variables
    waits,      \* the handler each redeemer waits for, or Nobody
    paired,     \* the redeemers that pinned the inviter
    clock,
    plan,       \* the plan that is followed
    ncmd, nreq, ncrash,
    revoked,    \* history: <<p, key>> revoked by commands that succeeded
    lost,       \* history: a save of the keyring was cut short or overlapped
    wrong       \* history: guesses answered "code_mismatch" while an invite was open

files   == <<keyfile, store, lock, ident>>
remote  == <<waits, paired>>
bounds  == <<clock, plan, ncmd, nreq, ncrash>>
history == <<revoked, lost, wrong>>
vars    == <<files, gateway, pc, loc, remote, bounds, history>>

NoLocals == [cmd |-> Nobody]

(* A command line: its subcommand, and the principal, the key, the signer  *)
(* or the invite it names, or the confirmation it gives.                   *)
PeerCommands ==
         [verb : {"import", "retire", "revoke"}, p : Principals, key : Keys]
    \cup [verb : {"rotate"}, p : Principals, key : Keys, flag : BOOLEAN]
    \cup [verb : {"import-revocation"}, p : Principals, key : Keys, by : Keys]
PairCommands ==
         [verb : {"invite", "revoke-all"}]
    \cup [verb : {"status"}, flag : BOOLEAN]
    \cup [verb : {"revoke-id"}, id : 1..MaxInvites]

Lines(f) == IF f = Absent THEN {} ELSE f
Loaded(f) == Parsed(Lines(f))

Goto(x, label)         == pc' = [pc EXCEPT ![x] = label]
Idle(o)                == pc[o] = "idle" /\ ncmd < MaxCommands
Finish(x)              == /\ Goto(x, "idle")
                          /\ loc' = [loc EXCEPT ![x] = NoLocals]

-----------------------------------------------------------------------------
(* famp peer.                                                              *)

(* What each command makes of the keyring it loaded.  rotate presupposes   *)
(* an existing pin: import is the only first sight.                        *)
peer_import(kr, c) == pin_tofu(kr, c.p, c.key)
peer_rotate(kr, c) ==
    IF entries(kr, c.p) = {} THEN Refuse(kr) ELSE rotate_to(kr, c.p, c.key, c.flag)
peer_retire(kr, c) == retire(kr, c.p, c.key)
peer_revoke(kr, c) == revoke(kr, c.p, c.key)
peer_import_revocation(kr, c) == apply_signed_revocation(kr, c.p, c.key, c.by)

Changed(kr, c) ==
    CASE c.verb = "import" -> peer_import(kr, c)
      [] c.verb = "rotate" -> peer_rotate(kr, c)
      [] c.verb = "retire" -> peer_retire(kr, c)
      [] c.verb = "revoke" -> peer_revoke(kr, c)
      [] c.verb = "import-revocation" -> peer_import_revocation(kr, c)

(* Another command is between its load and the end of its save.            *)
Overlap(o) == \E x \in Operators \ {o} : pc[x] \in {"truncate", "write", "rename"}

(* Load the file and change the keyring in memory.  A file that does not   *)
(* load, or a refusal, ends the command; only import goes on without one.  *)
PeerLoad(o, c) ==
    /\ c.verb \in plan.verbs[o]
    /\ Idle(o)
    /\ LET r == Changed(Loaded(keyfile), c)
       IN  IF /\ keyfile # Absent \/ c.verb = "import"
              /\ Loadable(Lines(keyfile))
              /\ r.ok
           THEN /\ Goto(o, "truncate")
                /\ ncmd' = ncmd + 1
                /\ lost' = (lost \/ Overlap(o))
                /\ loc' = [loc EXCEPT ![o] = [cmd |-> c, lines |-> Saved(r.kr)]]
           ELSE UNCHANGED <<pc, ncmd, lost, loc>>
    /\ UNCHANGED <<files, gateway, remote, clock, plan, nreq, ncrash, revoked, wrong>>

(* save_to_file: File::create, then a write per line.                      *)
PeerTruncate(o) ==
    /\ pc[o] = "truncate"
    /\ keyfile' = {}
    /\ Goto(o, "write")
    /\ UNCHANGED <<store, lock, ident, gateway, loc, remote, bounds, history>>

PeerWriteLine(o) ==
    /\ pc[o] = "write"
    /\ loc[o].lines # {}
    /\ LET line == NextLine(loc[o].lines)
       IN  /\ keyfile' = Lines(keyfile) \cup {line}
           /\ loc' = [loc EXCEPT ![o].lines = @ \ {line}]
    /\ UNCHANGED <<store, lock, ident, gateway, pc, remote, bounds, history>>

(* The command ends with its last line, also when its file was replaced.   *)
PeerDone(o) ==
    /\ pc[o] = "detached" \/ (pc[o] = "write" /\ loc[o].lines = {})
    /\ Finish(o)
    /\ revoked' = IF loc[o].cmd.verb \in {"revoke", "import-revocation"}
                  THEN revoked \cup {<<loc[o].cmd.p, loc[o].cmd.key>>}
                  ELSE revoked
    /\ UNCHANGED <<files, gateway, remote, bounds, lost, wrong>>

-----------------------------------------------------------------------------
(* The signing key: generated on first use by `famp peer export', by the   *)
(* redeeming side and by the start of the gateway.  The file is created    *)
(* exclusively, then written.                                              *)

Export(o) ==
    /\ "export" \in plan.verbs[o]
    /\ Idle(o)
    /\ IF ident = Absent THEN Goto(o, "create") /\ ncmd' = ncmd + 1
                         ELSE UNCHANGED <<pc, ncmd>>
    /\ UNCHANGED <<files, gateway, loc, remote, clock, plan, nreq, ncrash, history>>

GatewayStart ==
    /\ ~gateway
    /\ pc[Gateway] = "idle"
    /\ CASE ident = Absent -> Goto(Gateway, "create")
         [] ident = Torn   -> UNCHANGED pc
         [] OTHER          -> Goto(Gateway, "load")
    /\ UNCHANGED <<files, gateway, loc, remote, bounds, history>>

(* Mutant: the file is created whether or not another one is there.        *)
M_CreateIdentity(x) ==
    /\ pc[x] = "create"
    /\ ident' = Torn
    /\ Goto(x, "fill")
    /\ UNCHANGED <<keyfile, store, lock, gateway, loc, remote, bounds, history>>

CreateIdentity(x) ==
    /\ pc[x] = "create"
    /\ IF ident = Absent THEN ident' = Torn /\ Goto(x, "fill")
                         ELSE UNCHANGED ident /\ Goto(x, "idle")
    /\ UNCHANGED <<keyfile, store, lock, gateway, loc, remote, bounds, history>>

FillIdentity(x) ==
    /\ pc[x] = "fill"
    /\ ident' = x
    /\ Goto(x, IF x = Gateway THEN "load" ELSE "idle")
    /\ UNCHANGED <<keyfile, store, lock, gateway, loc, remote, bounds, history>>

(* A missing keyring is an empty one; one that does not load is fatal.     *)
GatewayLoad ==
    /\ pc[Gateway] = "load"
    /\ Goto(Gateway, "idle")
    /\ gateway' = Loadable(Lines(keyfile))
    /\ UNCHANGED <<files, loc, remote, bounds, history>>

-----------------------------------------------------------------------------
(* famp pair invite, status and revoke.                                    *)

(* Mutant: the lockfile is not waited for.                                 *)
M_PairLock(o, c) ==
    /\ c.verb \in plan.verbs[o]
    /\ Idle(o)
    /\ ncmd' = ncmd + 1
    /\ lock' = TRUE
    /\ Goto(o, c.verb)
    /\ loc' = [loc EXCEPT ![o] = [cmd |-> c]]
    /\ UNCHANGED <<keyfile, store, ident, gateway, remote, clock, plan, nreq, ncrash, history>>

(* StoreLock::acquire: create the lockfile, or give up after fifty tries.  *)
PairLock(o, c) ==
    /\ c.verb \in plan.verbs[o]
    /\ Idle(o)
    /\ \/ /\ ~lock
          /\ lock' = TRUE
          /\ ncmd' = ncmd + 1
          /\ Goto(o, c.verb)
          /\ loc' = [loc EXCEPT ![o] = [cmd |-> c]]
       \/ lock /\ UNCHANGED <<lock, ncmd, pc, loc>>
    /\ UNCHANGED <<keyfile, store, ident, gateway, remote, clock, plan, nreq, ncrash, history>>

PairInvite(o) ==
    /\ pc[o] = "invite"
    /\ store' = IF Len(store) < MaxInvites
                THEN Append(store, NewInvite(Len(store) + 1, clock)) ELSE store
    /\ Goto(o, "unlock")
    /\ UNCHANGED <<keyfile, lock, ident, gateway, loc, remote, bounds, history>>

PairRevoke(o) ==
    /\ \/ /\ pc[o] = "revoke-id"
          /\ store' = IF loc[o].cmd.id \in DOMAIN store
                      THEN revoke_invite(store, loc[o].cmd.id) ELSE store
       \/ /\ pc[o] = "revoke-all"
          /\ store' = revoke_all_pending(store)
    /\ Goto(o, "unlock")
    /\ UNCHANGED <<keyfile, lock, ident, gateway, loc, remote, bounds, history>>

(* status: the redeemed invites are pinned one after the other.            *)
StatusLoad(o) ==
    /\ pc[o] = "status"
    /\ loc' = [loc EXCEPT ![o] =
                 [cmd |-> loc[o].cmd, store |-> store, done |-> {},
                  todo |-> {i \in DOMAIN store : store[i].state = "Redeemed"}]]
    /\ Goto(o, "pin")
    /\ UNCHANGED <<files, gateway, remote, bounds, history>>

First(ids) == CHOOSE i \in ids : \A j \in ids : i <= j

(* rotate_to_with_validation reloads the sibling file: an error ends the   *)
(* command, a key that is not active leaves the invite as it is.           *)
Validated(lines, p) ==
    IF ~Loadable(lines) THEN "error"
    ELSE IF active_key(Parsed(lines), p, clock).outcome = "Active" THEN "pinned"
    ELSE "failed"

StatusPin(o) ==
    /\ pc[o] = "pin"
    /\ loc[o].todo # {}
    /\ LET i  == First(loc[o].todo)
           by == loc[o].store[i].by
           r  == rotate_to(Loaded(keyfile), by.p, by.key, loc[o].cmd.flag)
           v  == IF ~Loadable(Lines(keyfile)) \/ ~r.ok THEN "error"
                 ELSE Validated(Saved(r.kr), by.p)
       IN  \/ v = "error" /\ Goto(o, "unlock") /\ UNCHANGED loc
           \/ /\ v = "failed"
              /\ loc' = [loc EXCEPT ![o].todo = @ \ {i}]
              /\ UNCHANGED pc
           \/ /\ v = "pinned"
              /\ Goto(o, "rename")
              /\ loc' = [loc EXCEPT ![o] =
                           [cmd |-> @.cmd, store |-> @.store, done |-> @.done,
                            todo |-> @.todo, lines |-> Saved(r.kr)]]
    /\ lost' = (lost \/ Overlap(o))
    /\ UNCHANGED <<files, gateway, remote, bounds, revoked, wrong>>

(* A command that is writing the file that is replaced writes on unseen.   *)
StatusRename(o) ==
    /\ pc[o] = "rename"
    /\ keyfile' = loc[o].lines
    /\ pc' = [x \in Procs |-> IF x = o THEN "pin"
                             ELSE IF pc[x] = "write" THEN "detached" ELSE pc[x]]
    /\ LET i == First(loc[o].todo)
       IN  loc' = [loc EXCEPT ![o] = [cmd |-> @.cmd, store |-> @.store,
                                      done |-> @.done \cup {i}, todo |-> @.todo \ {i}]]
    /\ UNCHANGED <<store, lock, ident, gateway, remote, bounds, history>>

(* The store is saved if anything was pinned.                              *)
StatusSave(o) ==
    /\ pc[o] = "pin"
    /\ loc[o].todo = {}
    /\ store' = IF loc[o].done = {} THEN store
                ELSE [i \in DOMAIN loc[o].store |->
                        IF i \in loc[o].done
                        THEN [loc[o].store[i] EXCEPT !.state = "Pinned"]
                        ELSE loc[o].store[i]]
    /\ Goto(o, "unlock")
    /\ UNCHANGED <<keyfile, lock, ident, gateway, loc, remote, bounds, history>>

Unlock(o) ==
    /\ pc[o] = "unlock"
    /\ lock' = FALSE
    /\ Finish(o)
    /\ UNCHANGED <<keyfile, store, ident, gateway, remote, bounds, history>>

-----------------------------------------------------------------------------
(* The redemption endpoint, and `famp pair redeem' on the other host.      *)

(* What becomes of a request: a claim on the inviter's own domain, a code  *)
(* the store refuses as it is read without the lock, and a bad signature   *)
(* are answered at once.                                                   *)
ingest_redemption_at(r, code, signed) ==
    LET verdict == decide(store, code, clock).verdict
    IN  IF r.p \in Own THEN "idle"
        ELSE IF verdict = "WrongCode" THEN "burn"
        ELSE IF verdict = "Accept" /\ signed THEN "accept"
        ELSE "idle"

(* `famp pair redeem' posts a request and waits for the answer.            *)
Redeem(h, r, code, signed) ==
    /\ gateway
    /\ pc[h] = "idle"
    /\ waits[r] = Nobody
    /\ nreq < plan.requests
    /\ LET next == ingest_redemption_at(r, code, signed)
       IN  IF next = "idle" THEN UNCHANGED <<pc, loc, waits, nreq>>
           ELSE /\ Goto(h, next)
                /\ nreq' = nreq + 1
                /\ waits' = [waits EXCEPT ![r] = h]
                /\ loc' = [loc EXCEPT ![h] =
                             [cmd |-> Nobody, r |-> r, code |-> code, now |-> clock]]
    /\ UNCHANGED <<files, gateway, paired, clock, plan, ncmd, ncrash, history>>

Answer(h) ==
    /\ Finish(h)
    /\ waits' = [r \in Redeemers |-> IF waits[r] = h THEN Nobody ELSE waits[r]]

(* Mutant: the lock is waited for as long as it takes.                     *)
M_HandlerLock(h) ==
    /\ pc[h] \in {"burn", "accept"}
    /\ ~lock
    /\ lock' = TRUE
    /\ Goto(h, IF pc[h] = "burn" THEN "burning" ELSE "accepting")
    /\ UNCHANGED <<keyfile, store, ident, gateway, loc, remote, bounds, history>>

(* The lock is taken, or the request is refused as if no invite were there,*)
(* whatever its code is worth.                                             *)
HandlerLock(h) ==
    /\ pc[h] \in {"burn", "accept"}
    /\ \/ /\ ~lock
          /\ lock' = TRUE
          /\ Goto(h, IF pc[h] = "burn" THEN "burning" ELSE "accepting")
          /\ UNCHANGED <<loc, waits>>
       \/ lock /\ UNCHANGED lock /\ Answer(h)
    /\ UNCHANGED <<keyfile, store, ident, gateway, paired, bounds, history>>

(* A wrong code: reload, charge every open invite, save.                   *)
burn_and_reject_wrong_code(h) ==
    /\ pc[h] = "burning"
    /\ store' = burn_attempt(store, loc[h].now)
    /\ Goto(h, "burned")
    /\ UNCHANGED <<keyfile, lock, ident, gateway, loc, remote, bounds, history>>

(* Mutant: the record the unlocked pass found is consumed if its budget    *)
(* still allows it.                                                        *)
M_accept_and_consume(h) ==
    /\ pc[h] = "accepting"
    /\ IF store[loc[h].code].attempts < MaxAttempts
       THEN store' = consume(store, loc[h].code, loc[h].r) /\ Goto(h, "consumed")
       ELSE UNCHANGED store /\ Goto(h, "rejected")
    /\ UNCHANGED <<keyfile, lock, ident, gateway, loc, remote, bounds, history>>

(* The right code: reload, decide again under the lock, consume, save.     *)
accept_and_consume(h) ==
    /\ pc[h] = "accepting"
    /\ LET d == decide(store, loc[h].code, loc[h].now)
       IN  IF d.verdict = "Accept"
           THEN store' = consume(store, d.id, loc[h].r) /\ Goto(h, "consumed")
           ELSE UNCHANGED store /\ Goto(h, "rejected")
    /\ UNCHANGED <<keyfile, lock, ident, gateway, loc, remote, bounds, history>>

(* The lock is released and the answer sent.  A redeemer that still waits  *)
(* for a signed response pins the inviter.                                 *)
HandlerAnswer(h) ==
    /\ pc[h] \in {"burned", "rejected", "consumed"}
    /\ lock' = FALSE
    /\ Answer(h)
    /\ wrong' = [i \in 1..MaxInvites |->
                   IF pc[h] = "burned" /\ i \in Open(store, loc[h].now)
                   THEN wrong[i] + 1 ELSE wrong[i]]
    /\ paired' = IF pc[h] = "consumed"
                 THEN paired \cup {r \in Redeemers : waits[r] = h} ELSE paired
    /\ UNCHANGED <<keyfile, store, ident, gateway, bounds, revoked, lost>>

(* The redeemer gives up after its ten seconds, or the answer is lost.     *)
Unreachable(r) ==
    /\ waits[r] # Nobody
    /\ waits' = [waits EXCEPT ![r] = Nobody]
    /\ UNCHANGED <<files, gateway, pc, loc, paired, bounds, history>>

-----------------------------------------------------------------------------
(* Processes die between any two steps, and a lockfile stays where it is.  *)
(* A command also ends when the disk is full, in the middle of a line.     *)

KillCommand(o) ==
    /\ pc[o] # "idle"
    /\ ncrash < MaxCrashes
    /\ ncrash' = ncrash + 1
    /\ Finish(o)
    /\ IF pc[o] = "write" /\ loc[o].lines # {}
       THEN /\ \/ UNCHANGED keyfile
               \/ \E l \in Cut(NextLine(loc[o].lines)) :
                     keyfile' = Lines(keyfile) \cup {l}
            /\ lost' = TRUE
       ELSE UNCHANGED <<keyfile, lost>>
    /\ UNCHANGED <<store, lock, ident, gateway, remote, clock, plan, ncmd, nreq, revoked, wrong>>

KillGateway ==
    /\ gateway \/ pc[Gateway] # "idle"
    /\ ncrash < MaxCrashes
    /\ ncrash' = ncrash + 1
    /\ gateway' = FALSE
    /\ pc'  = [x \in Procs |-> IF x \in Operators THEN pc[x] ELSE "idle"]
    /\ loc' = [x \in Procs |-> IF x \in Operators THEN loc[x] ELSE NoLocals]
    /\ waits' = [r \in Redeemers |-> Nobody]
    /\ UNCHANGED <<files, paired, clock, plan, ncmd, nreq, history>>

Tick ==
    /\ clock < MaxClock
    /\ clock' = clock + 1
    /\ UNCHANGED <<files, gateway, pc, loc, remote, plan, ncmd, nreq, ncrash, history>>

-----------------------------------------------------------------------------

Init ==
    /\ keyfile \in Peered
    /\ store = <<>>
    /\ lock = FALSE
    /\ \/ ident = Absent /\ gateway = FALSE
       \/ ident = Gateway /\ gateway = TRUE
    /\ plan \in {x \in Plans :
                  (ident = Absent) = (\E o \in Operators : "export" \in x.verbs[o])}
    /\ pc  = [x \in Procs |-> "idle"]
    /\ loc = [x \in Procs |-> NoLocals]
    /\ waits = [r \in Redeemers |-> Nobody]
    /\ paired = {}
    /\ clock = 0 /\ ncmd = 0 /\ nreq = 0 /\ ncrash = 0
    /\ revoked = {} /\ lost = FALSE
    /\ wrong = [i \in 1..MaxInvites |-> 0]

CommandStep(o) ==
    \/ PeerTruncate(o) \/ PeerWriteLine(o) \/ PeerDone(o)
    \/ PairInvite(o) \/ PairRevoke(o)
    \/ StatusLoad(o) \/ StatusPin(o) \/ StatusRename(o) \/ StatusSave(o)
    \/ Unlock(o)

HandlerStep(h) ==
    \/ HandlerLock(h)
    \/ burn_and_reject_wrong_code(h)
    \/ accept_and_consume(h)
    \/ HandlerAnswer(h)

Next ==
    \/ \E o \in Operators :
          \/ \E c \in PeerCommands : PeerLoad(o, c)
          \/ \E c \in PairCommands : PairLock(o, c)
          \/ Export(o) \/ CommandStep(o) \/ KillCommand(o)
    \/ \E x \in Operators \cup {Gateway} : CreateIdentity(x) \/ FillIdentity(x)
    \/ GatewayStart \/ GatewayLoad \/ KillGateway
    \/ \E h \in Handlers : HandlerStep(h)
    \/ \E h \in Handlers, r \in Redeemers, code \in 0..MaxInvites, signed \in BOOLEAN :
          Redeem(h, r, code, signed)
    \/ \E r \in Redeemers : Unreachable(r)
    \/ Tick

Spec == Init /\ [][Next]_vars

(* The runtime polls every handler, and acquire gives up by itself.        *)
FairSpec == Spec /\ \A h \in Handlers : WF_vars(HandlerStep(h))

-----------------------------------------------------------------------------
(* Properties.                                                             *)

(* A code pairs at most one redeemer, however the requests that present it *)
(* interleave, and whoever pinned the inviter is the one the store names:  *)
(* accept_and_consume persists before it answers.                          *)
OneRedemption ==
    \A r \in paired : \E i \in DOMAIN store : store[i].by = r

(* The budget of guesses is real: an invite is never redeemed once         *)
(* MAX_ATTEMPTS guesses were told that they are wrong while it was open,   *)
(* concurrent ones included.  (A request that finds the lockfile taken is  *)
(* told no_pending_invite, whether its code is right or wrong, and is not  *)
(* charged: burn_and_reject_wrong_code, accept_and_consume.)               *)
BudgetHolds ==
    \A i \in DOMAIN store :
        store[i].state \in {"Redeemed", "Pinned"} => wrong[i] < MaxAttempts

(* Whoever `famp pair status' is about to pin holds an invite that is      *)
(* redeemed and has not been revoked since the command read the store.     *)
RevokedNeverPinned ==
    \A o \in Operators :
        pc[o] = "rename" => store[First(loc[o].todo)].state = "Redeemed"

(* A key that a command revoked is never the active key of its principal   *)
(* again, unless a save of the keyring was cut short or overlapped.        *)
NoResurrection ==
    ~lost => \A x \in revoked : x[2] \notin get(Loaded(keyfile), x[1])

(* `famp pair' never leaves a keyring behind that does not load: it would  *)
(* keep the gateway from starting.                                         *)
PairKeepsLoadable ==
    [][\A o \in Operators : StatusRename(o) => Loadable(keyfile')]_vars

(* The signing key, once in the file, is never replaced: peers have pinned *)
(* it (load_or_generate).                                                  *)
IdentityStable == [][(ident \in Procs) => (ident' = ident)]_vars

(* Every redemption request is answered, also when a killed process left   *)
(* the lockfile behind.                                                    *)
RedemptionAnswered == \A h \in Handlers : pc[h] # "idle" ~> pc[h] = "idle"

(* The test of rotated keyrings says that one that was rotated and saved   *)
(* reloads; here: whenever no command is saving and none was cut short.    *)
RotatedReloads ==
    (~lost /\ \A o \in Operators : pc[o] = "idle") => Loadable(Lines(keyfile))
=============================================================================
