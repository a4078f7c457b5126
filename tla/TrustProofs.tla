----------------------------- MODULE TrustProofs -----------------------------
(***************************************************************************)
(* Proofs about the trust bootstrap, for any number of operators, request  *)
(* handlers, redeemers, invites, commands and crashes.                     *)
(***************************************************************************)
EXTENDS Trust, WellFoundedInduction, TLAPS

(* Zenon proves a leaf unless the leaf asks for arithmetic (SMTT).         *)
USE ZenonT(60)

-----------------------------------------------------------------------------
(* The least and the greatest of some numbers.                             *)

LEMMA Minimum ==
    ASSUME NEW S \in SUBSET Nat, S # {}
    PROVE  \E x \in S : \A y \in S : x <= y
<1> DEFINE Less == {p \in Nat \X Nat : p[1] < p[2]}
<1>1. \E x \in S : \A y \in S : ~(<<y, x>> \in Less)
  <2>1. OpToRel(<, Nat) = Less
      BY DEF OpToRel
  <2>2. IsWellFoundedOn(Less, Nat)
      BY <2>1, NatLessThanWellFounded
  <2> HIDE DEF Less
  <2> QED
      BY <2>2, WFMin
<1>2. PICK x \in S : \A y \in S : ~(<<y, x>> \in Less)
    BY <1>1
<1>3. ASSUME NEW y \in S PROVE x <= y
  <2>1. x \in Nat /\ y \in Nat
      OBVIOUS
  <2>2. ~(y < x)
      BY <1>2, <2>1
  <2> QED
      BY SMTT(60), <2>1, <2>2
<1> QED
    BY <1>3

LEMMA Maximum ==
    ASSUME NEW n \in Nat, NEW S \in SUBSET (0..n), S # {}
    PROVE  \E x \in S : \A y \in S : y <= x
<1> DEFINE R == {n - s : s \in S}
<1>1. \A s \in S : s \in 0..n /\ n - s \in Nat
    BY SMTT(60)
<1>2. R \subseteq Nat /\ R # {}
    BY <1>1
<1> HIDE DEF R
<1>3. PICK r \in R : \A y \in R : r <= y
    BY <1>2, Minimum
<1>4. PICK x \in S : r = n - x
    BY DEF R
<1>5. ASSUME NEW y \in S PROVE y <= x
  <2>1. n - y \in R
      BY DEF R
  <2> QED
      BY SMTT(60), <2>1, <1>1, <1>3, <1>4
<1> QED
    BY <1>5

-----------------------------------------------------------------------------
(* The invite store.                                                       *)

Invite == [code : Nat, expires : Int, attempts : Nat, state : InviteState,
           by : Redeemers \cup {Nobody}]

LEMMA StateChange ==
    ASSUME NEW r \in Invite, NEW new \in InviteState
    PROVE  [r EXCEPT !.state = new] \in Invite
BY DEF Invite

LEMMA StateChanges ==
    ASSUME NEW s \in Seq(Invite), NEW new \in InviteState
    PROVE  \A j \in DOMAIN s : s[j] \in Invite /\ [s[j] EXCEPT !.state = new] \in Invite
<1> SUFFICES ASSUME NEW j \in DOMAIN s
             PROVE  s[j] \in Invite /\ [s[j] EXCEPT !.state = new] \in Invite
    OBVIOUS
<1>1. s[j] \in Invite
    BY SMTT(60)
<1> QED
    BY <1>1, StateChange

(* An accepted code belongs to an invite that is pending and has attempts  *)
(* left.                                                                   *)
LEMMA AcceptsPending ==
    ASSUME NEW s \in Seq(Invite), NEW code, NEW now,
           decide(s, code, now).verdict = "Accept"
    PROVE  LET i == decide(s, code, now).id
           IN  i \in DOMAIN s /\ s[i].state = "Pending" /\ s[i].attempts < MaxAttempts
<1> DEFINE matched == {i \in Live(s) : s[i].code = code}
           i == CHOOSE m \in matched : \A n \in matched : n <= m
<1>1. matched # {} /\ s[i].state = "Pending" /\ ~(s[i].attempts >= MaxAttempts)
         /\ decide(s, code, now).id = i
    BY DEF decide
<1>2. Len(s) \in Nat /\ matched \subseteq DOMAIN s /\ DOMAIN s = 1..Len(s)
    BY SMTT(60) DEF Live
<1>3. matched \subseteq 0..Len(s)
    BY SMTT(60), <1>2
<1> HIDE DEF matched
<1>4. \E m \in matched : \A n \in matched : n <= m
    BY <1>1, <1>2, <1>3, Maximum
<1>5. i \in matched
    BY <1>4
<1>6. i \in DOMAIN s /\ s[i] \in Invite
    BY SMTT(60), <1>2, <1>5
<1> HIDE DEF i
<1>7. s[i].attempts \in Nat
    BY <1>6 DEF Invite
<1> QED
    BY SMTT(60), <1>1, <1>6, <1>7, InvitesAssumption
-----------------------------------------------------------------------------
(* The lockfile and the identity file.                                     *)

(* Where a process holds the lockfile of the invite store.                 *)
Locked == {"invite", "revoke-id", "revoke-all", "status", "pin", "rename", "unlock",
           "burning", "accepting", "burned", "rejected", "consumed"}

Shape == pc = [x \in Procs |-> pc[x]] /\ loc = [x \in Procs |-> loc[x]]

(* One process at most holds the lockfile; one that was killed leaves it.  *)
LockInv ==
    \A x \in Procs : pc[x] \in Locked =>
        lock /\ \A y \in Procs : pc[y] \in Locked => y = x

(* One process at most fills the identity file, which it created.          *)
FillInv ==
    \A x \in Procs : pc[x] = "fill" =>
        ident = Torn /\ \A y \in Procs : pc[y] = "fill" => y = x

(* What a step is to the lockfile.                                         *)
KeepsLock == lock' = lock /\ \A x \in Procs : pc'[x] \in Locked => pc[x] \in Locked
Takes     == /\ ~lock /\ lock'
             /\ \E x \in Procs : \A y \in Procs : y # x => pc'[y] = pc[y]
Releases  == \E x \in Procs : /\ pc[x] \in Locked /\ pc'[x] \notin Locked
                              /\ \A y \in Procs : y # x => pc'[y] = pc[y]

LEMMA LockStep ==
    ASSUME LockInv, KeepsLock \/ Takes \/ Releases
    PROVE  LockInv'
BY SMTT(60) DEF LockInv, KeepsLock, Takes, Releases

(* What a step is to the identity file.                                    *)
KeepsIdent == ident' = ident /\ \A x \in Procs : pc'[x] = "fill" => pc[x] = "fill"

LEMMA IdentStep ==
    ASSUME FillInv, KeepsIdent
    PROVE  FillInv'
BY DEF FillInv, KeepsIdent

Small == LockInv /\ FillInv

(* Commands.                                                               *)
LEMMA SmallPeer ==
    ASSUME Shape, Small, NEW o \in Operators,
           \/ \E c \in PeerCommands : PeerLoad(o, c)
           \/ PeerTruncate(o) \/ PeerWriteLine(o) \/ PeerDone(o) \/ Export(o) \/ KillCommand(o)
    PROVE  Shape' /\ Small'
<1>1. o \in Procs
    BY DEF Procs
<1>2. CASE \E c \in PeerCommands : PeerLoad(o, c)
  <2>1. PICK c \in PeerCommands : PeerLoad(o, c)
      BY <1>2
  <2>2. lock' = lock /\ ident' = ident
      BY <2>1 DEF PeerLoad, files
  <2>3. \/ UNCHANGED <<pc, loc>>
        \/ pc' = [pc EXCEPT ![o] = "truncate"] /\ \E v : loc' = [loc EXCEPT ![o] = v]
      BY <2>1 DEF PeerLoad, Goto
  <2>4. Shape' /\ KeepsLock /\ KeepsIdent
      BY <2>2, <2>3, <1>1 DEF Shape, KeepsLock, KeepsIdent, Locked
  <2> QED
      BY <2>4, LockStep, IdentStep DEF Small
<1>3. CASE PeerTruncate(o) \/ PeerWriteLine(o) \/ PeerDone(o) \/ Export(o) \/ KillCommand(o)
  <2>1. lock' = lock /\ ident' = ident
      BY <1>3 DEF PeerTruncate, PeerWriteLine, PeerDone, Export, KillCommand, files
  <2>2. /\ \/ UNCHANGED pc
           \/ \E l \in {"write", "idle", "create"} : pc' = [pc EXCEPT ![o] = l]
        /\ \/ UNCHANGED loc
           \/ \E v : loc' = [loc EXCEPT ![o] = v]
      BY <1>3 DEF PeerTruncate, PeerWriteLine, PeerDone, Export, KillCommand, Goto,
         Finish
  <2>3. Shape' /\ KeepsLock /\ KeepsIdent
      BY <2>1, <2>2, <1>1 DEF Shape, KeepsLock, KeepsIdent, Locked
  <2> QED
      BY <2>3, LockStep, IdentStep DEF Small
<1> QED
    BY <1>2, <1>3

LEMMA SmallPair ==
    ASSUME Shape, Small, NEW o \in Operators,
           \/ \E c \in PairCommands : PairLock(o, c)
           \/ PairInvite(o) \/ PairRevoke(o) \/ StatusLoad(o) \/ StatusPin(o)
           \/ StatusRename(o) \/ StatusSave(o) \/ Unlock(o)
    PROVE  Shape' /\ Small'
<1>1. o \in Procs
    BY DEF Procs
<1>2. CASE \E c \in PairCommands : PairLock(o, c)
  <2>1. PICK c \in PairCommands : PairLock(o, c)
      BY <1>2
  <2>2. c.verb \in {"invite", "revoke-all", "status", "revoke-id"}
      BY DEF PairCommands
  <2>3. CASE ~lock
    <3>1. lock' /\ ident' = ident /\ pc' = [pc EXCEPT ![o] = c.verb]
             /\ \E v : loc' = [loc EXCEPT ![o] = v]
        BY <2>1, <2>3 DEF PairLock, Goto
    <3>2. Shape' /\ Takes /\ KeepsIdent
        BY <2>2, <2>3, <3>1, <1>1 DEF Shape, Takes, KeepsIdent
    <3> QED
        BY <3>2, LockStep, IdentStep DEF Small
  <2>4. CASE lock
    <3>1. UNCHANGED <<lock, ident, pc, loc>>
        BY <2>1, <2>4 DEF PairLock
    <3> QED
        BY <3>1 DEF Shape, Small, LockInv, FillInv
  <2> QED
      BY <2>3, <2>4
<1>3. CASE PairInvite(o) \/ PairRevoke(o) \/ StatusLoad(o) \/ StatusPin(o) \/ StatusSave(o)
  <2>1. lock' = lock /\ ident' = ident /\ pc[o] \in Locked
      BY <1>3 DEF PairInvite, PairRevoke, StatusLoad, StatusPin, StatusSave, files,
         Locked
  <2>2. /\ \/ UNCHANGED pc
           \/ \E l \in {"unlock", "pin", "rename"} : pc' = [pc EXCEPT ![o] = l]
        /\ \/ UNCHANGED loc
           \/ \E v : loc' = [loc EXCEPT ![o] = v]
      BY <1>3 DEF PairInvite, PairRevoke, StatusLoad, StatusPin, StatusSave, Goto
  <2>3. Shape' /\ KeepsLock /\ KeepsIdent
      BY <2>1, <2>2, <1>1 DEF Shape, KeepsLock, KeepsIdent
  <2> QED
      BY <2>3, LockStep, IdentStep DEF Small
<1>4. CASE StatusRename(o)
  <2>1. lock' = lock /\ ident' = ident /\ pc[o] = "rename"
      BY <1>4 DEF StatusRename
  <2>2. pc' = [x \in Procs |-> IF x = o THEN "pin"
                               ELSE IF pc[x] = "write" THEN "detached" ELSE pc[x]]
      BY <1>4 DEF StatusRename
  <2>3. \E v : loc' = [loc EXCEPT ![o] = v]
      BY <1>4 DEF StatusRename
  <2>4. Shape' /\ KeepsLock /\ KeepsIdent
      BY <2>1, <2>2, <2>3, <1>1 DEF Shape, KeepsLock, KeepsIdent, Locked
  <2> QED
      BY <2>4, LockStep, IdentStep DEF Small
<1>5. CASE Unlock(o)
  <2>1. ident' = ident /\ pc[o] \in Locked /\ pc' = [pc EXCEPT ![o] = "idle"]
           /\ \E v : loc' = [loc EXCEPT ![o] = v]
      BY <1>5 DEF Unlock, Finish, Goto, Locked
  <2>2. Shape' /\ Releases /\ KeepsIdent
      BY <2>1, <1>1 DEF Shape, Releases, KeepsIdent, Locked
  <2> QED
      BY <2>2, LockStep, IdentStep DEF Small
<1> QED
    BY <1>2, <1>3, <1>4, <1>5
LEMMA SmallIdentity ==
    ASSUME Shape, Small, NEW x \in Operators \cup {Gateway},
           CreateIdentity(x) \/ FillIdentity(x)
    PROVE  Shape' /\ Small'
<1>1. x \in Procs
    BY DEF Procs
<1>2. UNCHANGED <<lock, loc>>
    BY DEF CreateIdentity, FillIdentity
<1>3. CASE CreateIdentity(x) /\ ident = Absent
  <2>1. pc[x] = "create" /\ ident' = Torn /\ pc' = [pc EXCEPT ![x] = "fill"]
      BY <1>3 DEF CreateIdentity, Goto
  <2>2. \A y \in Procs : pc[y] # "fill"
      BY <1>3, TrustAssumption DEF Small, FillInv
  <2>3. Shape' /\ KeepsLock /\ FillInv'
      BY <2>1, <2>2, <1>1, <1>2 DEF Shape, KeepsLock, Locked, FillInv
  <2> QED
      BY <2>3, LockStep DEF Small
<1>4. CASE CreateIdentity(x) /\ ident # Absent
  <2>1. ident' = ident /\ pc' = [pc EXCEPT ![x] = "idle"]
      BY <1>4 DEF CreateIdentity, Goto
  <2>2. Shape' /\ KeepsLock /\ KeepsIdent
      BY <2>1, <1>1, <1>2 DEF Shape, KeepsLock, KeepsIdent, Locked
  <2> QED
      BY <2>2, LockStep, IdentStep DEF Small
<1>5. CASE FillIdentity(x)
  <2>1. pc[x] = "fill" /\ \E l \in {"load", "idle"} : pc' = [pc EXCEPT ![x] = l]
      BY <1>5 DEF FillIdentity, Goto
  <2>2. \A y \in Procs : pc'[y] # "fill"
      BY <2>1, <1>1 DEF Shape, Small, FillInv
  <2>3. Shape' /\ KeepsLock /\ FillInv'
      BY <2>1, <2>2, <1>1, <1>2 DEF Shape, KeepsLock, Locked, FillInv
  <2> QED
      BY <2>3, LockStep DEF Small
<1> QED
    BY <1>3, <1>4, <1>5

LEMMA SmallGateway ==
    ASSUME Shape, Small, GatewayStart \/ GatewayLoad \/ KillGateway
    PROVE  Shape' /\ Small'
<1>1. Gateway \in Procs
    BY DEF Procs
<1>2. UNCHANGED <<lock, ident>>
    BY DEF GatewayStart, GatewayLoad, KillGateway, files
<1>3. CASE GatewayStart \/ GatewayLoad
  <2>1. UNCHANGED loc /\ \/ UNCHANGED pc
                         \/ \E l \in {"create", "load", "idle"} : pc' = [pc EXCEPT ![Gateway] = l]
      BY <1>3 DEF GatewayStart, GatewayLoad, Goto
  <2>2. Shape' /\ KeepsLock /\ KeepsIdent
      BY <2>1, <1>1, <1>2 DEF Shape, KeepsLock, KeepsIdent, Locked
  <2> QED
      BY <2>2, LockStep, IdentStep DEF Small
<1>4. CASE KillGateway
  <2>1. /\ pc'  = [x \in Procs |-> IF x \in Operators THEN pc[x] ELSE "idle"]
        /\ loc' = [x \in Procs |-> IF x \in Operators THEN loc[x] ELSE NoLocals]
      BY <1>4 DEF KillGateway
  <2>2. Shape' /\ KeepsLock /\ KeepsIdent
      BY <2>1, <1>2 DEF Shape, KeepsLock, KeepsIdent, Locked
  <2> QED
      BY <2>2, LockStep, IdentStep DEF Small
<1> QED
    BY <1>3, <1>4

LEMMA SmallHandler ==
    ASSUME Shape, Small, NEW h \in Handlers,
           \/ HandlerStep(h)
           \/ \E r \in Redeemers, code \in 0..MaxInvites, signed \in BOOLEAN :
                 Redeem(h, r, code, signed)
    PROVE  Shape' /\ Small'
<1>1. h \in Procs
    BY DEF Procs
<1>2. ident' = ident
    BY DEF HandlerStep, HandlerLock, burn_and_reject_wrong_code, accept_and_consume,
           HandlerAnswer, Redeem, files
<1>3. CASE HandlerLock(h)
  <2>1. CASE ~lock
    <3>1. /\ lock' /\ UNCHANGED loc
          /\ \E l \in {"burning", "accepting"} : pc' = [pc EXCEPT ![h] = l]
        BY <1>3, <2>1 DEF HandlerLock, Goto
    <3>2. Shape' /\ Takes /\ KeepsIdent
        BY <2>1, <3>1, <1>1, <1>2 DEF Shape, Takes, KeepsIdent
    <3> QED
        BY <3>2, LockStep, IdentStep DEF Small
  <2>2. CASE lock
    <3>1. /\ lock' = lock /\ pc' = [pc EXCEPT ![h] = "idle"]
          /\ loc' = [loc EXCEPT ![h] = NoLocals]
        BY <1>3, <2>2 DEF HandlerLock, Answer, Finish, Goto
    <3>2. Shape' /\ KeepsLock /\ KeepsIdent
        BY <3>1, <1>1, <1>2 DEF Shape, KeepsLock, KeepsIdent, Locked
    <3> QED
        BY <3>2, LockStep, IdentStep DEF Small
  <2> QED
      BY <2>1, <2>2
<1>4. CASE burn_and_reject_wrong_code(h) \/ accept_and_consume(h)
  <2>1. /\ UNCHANGED <<lock, loc>> /\ pc[h] \in Locked
        /\ \E l \in {"burned", "rejected", "consumed"} : pc' = [pc EXCEPT ![h] = l]
      BY <1>4 DEF burn_and_reject_wrong_code, accept_and_consume, Goto, Locked
  <2>2. Shape' /\ KeepsLock /\ KeepsIdent
      BY <2>1, <1>1, <1>2 DEF Shape, KeepsLock, KeepsIdent
  <2> QED
      BY <2>2, LockStep, IdentStep DEF Small
<1>5. CASE HandlerAnswer(h)
  <2>1. /\ pc[h] \in Locked /\ pc' = [pc EXCEPT ![h] = "idle"]
        /\ loc' = [loc EXCEPT ![h] = NoLocals]
      BY <1>5 DEF HandlerAnswer, Answer, Finish, Goto, Locked
  <2>2. Shape' /\ Releases /\ KeepsIdent
      BY <2>1, <1>1, <1>2 DEF Shape, Releases, KeepsIdent, Locked
  <2> QED
      BY <2>2, LockStep, IdentStep DEF Small
<1>6. ASSUME NEW r \in Redeemers, NEW code \in 0..MaxInvites, NEW signed \in BOOLEAN,
             Redeem(h, r, code, signed)
      PROVE  Shape' /\ Small'
  <2>1. ingest_redemption_at(r, code, signed) \in {"idle", "burn", "accept"}
      BY DEF ingest_redemption_at
  <2>2. \/ UNCHANGED <<pc, loc>>
        \/ /\ \E l \in {"burn", "accept"} : pc' = [pc EXCEPT ![h] = l]
           /\ \E v : loc' = [loc EXCEPT ![h] = v]
      BY <2>1, <1>6 DEF Redeem, Goto
  <2>3. lock' = lock
      BY <1>6 DEF Redeem, files
  <2>4. Shape' /\ KeepsLock /\ KeepsIdent
      BY <2>2, <2>3, <1>1, <1>2 DEF Shape, KeepsLock, KeepsIdent, Locked
  <2> QED
      BY <2>4, LockStep, IdentStep DEF Small
<1> QED
    BY <1>3, <1>4, <1>5, <1>6 DEF HandlerStep

LEMMA SmallElsewhere ==
    ASSUME Shape, Small, (\E r \in Redeemers : Unreachable(r)) \/ Tick \/ UNCHANGED vars
    PROVE  Shape' /\ Small'
<1>1. UNCHANGED <<lock, ident, pc, loc>>
    BY DEF Unreachable, Tick, vars, files
<1> QED
    BY <1>1 DEF Shape, Small, LockInv, FillInv

LEMMA SmallInit == Init => Shape /\ Small
BY DEF Init, Shape, Small, LockInv, FillInv, Locked

LEMMA SmallNext == Shape /\ Small /\ [Next]_vars => Shape' /\ Small'
BY SmallPeer, SmallPair, SmallIdentity, SmallGateway, SmallHandler, SmallElsewhere
   DEF Next, CommandStep
-----------------------------------------------------------------------------
(* The invite store and those who use it.                                  *)

(* Where a handler has a request that is not answered.                     *)
Busy == {"burn", "accept", "burning", "accepting", "burned", "rejected", "consumed"}

StoreType ==
    /\ store \in Seq(Invite) /\ Len(store) <= MaxInvites
    /\ clock \in Int
    /\ wrong \in [1..MaxInvites -> Nat]
    /\ waits = [r \in Redeemers |-> waits[r]]
    /\ paired \subseteq Redeemers

(* Whoever waits for a handler sent the request it is serving.             *)
RequestInv ==
    /\ \A h \in Handlers : pc[h] \in Busy => loc[h].r \in Redeemers
    /\ \A r \in Redeemers, h \in Handlers : waits[r] = h => pc[h] \in Busy /\ loc[h].r = r

(* Who is told, or was told, that the code was taken is in the store, and  *)
(* nobody is written over it.                                              *)
RedeemInv ==
    /\ \A i \in DOMAIN store :
          /\ store[i].state = "Pending" => store[i].by = Nobody
          /\ store[i].state \in {"Redeemed", "Pinned"} => store[i].by \in Redeemers
    /\ \A h \in Handlers : pc[h] = "consumed" => \E i \in DOMAIN store : store[i].by = loc[h].r
    /\ OneRedemption

(* The copy of the store that `famp pair status' works on is current, and  *)
(* what it will rename into place was reloaded.                            *)
StatusInv ==
    \A o \in Operators : pc[o] \in {"pin", "rename"} =>
        /\ loc[o].store = store
        /\ \A i \in loc[o].todo \cup loc[o].done : i \in DOMAIN store /\ store[i].state = "Redeemed"
        /\ pc[o] = "rename" => loc[o].todo # {} /\ Loadable(loc[o].lines)

(* Every wrong guess that was answered, and the one about to be, was       *)
(* charged to the invites that were open.                                  *)
BudgetInv ==
    /\ \A i \in 1..MaxInvites : i \notin DOMAIN store => wrong[i] = 0
    /\ \A i \in DOMAIN store :
          /\ wrong[i] <= store[i].attempts
          /\ store[i].state \in {"Redeemed", "Pinned"} => wrong[i] < MaxAttempts
    /\ \A h \in Handlers : pc[h] = "burned" =>
          \A i \in Open(store, loc[h].now) : wrong[i] < store[i].attempts

StoreInv == StoreType /\ RequestInv /\ RedeemInv /\ StatusInv /\ BudgetInv

TrustInv == Shape /\ Small /\ StoreInv

LEMMA StoreInvInit == Init => StoreInv
<1> SUFFICES ASSUME Init PROVE StoreInv
    OBVIOUS
<1>1. /\ store = <<>> /\ clock = 0 /\ paired = {}
      /\ waits = [r \in Redeemers |-> Nobody] /\ wrong = [i \in 1..MaxInvites |-> 0]
      /\ \A x \in Procs : pc[x] = "idle"
    BY DEF Init
<1>2. store \in Seq(Invite) /\ Len(store) = 0 /\ DOMAIN store = {}
    BY SMTT(60), <1>1
<1>3. \A h \in Handlers : h \in Procs /\ h # Nobody
    BY TrustAssumption DEF Procs
<1>4. \A o \in Operators : o \in Procs
    BY DEF Procs
<1>5. StoreType
    BY SMTT(60), <1>1, <1>2, TrustAssumption DEF StoreType
<1>6. RequestInv /\ RedeemInv
    BY <1>1, <1>2, <1>3 DEF RequestInv, RedeemInv, OneRedemption, Busy
<1>7. StatusInv /\ BudgetInv
    BY <1>1, <1>2, <1>3, <1>4 DEF StatusInv, BudgetInv
<1> QED
    BY <1>5, <1>6, <1>7 DEF StoreInv

(* A step that leaves the store and what depends on it alone.              *)
Calm ==
    /\ UNCHANGED <<store, paired, wrong>> /\ clock' \in Int
    /\ \A o \in Operators : pc'[o] \in {"pin", "rename"} => pc'[o] = pc[o] /\ loc'[o] = loc[o]
    /\ \A h \in Handlers : pc'[h] \in Busy =>
          /\ pc[h] \in Busy /\ loc'[h] = loc[h]
          /\ pc'[h] \in {"burned", "consumed"} => pc'[h] = pc[h]
    /\ waits' = [r \in Redeemers |-> waits'[r]]
    /\ \A r \in Redeemers : waits'[r] \in Handlers => waits'[r] = waits[r] /\ pc'[waits[r]] \in Busy

LEMMA CalmStep ==
    ASSUME StoreInv, Calm
    PROVE  StoreInv'
<1>1. StoreType'
    BY DEF StoreInv, StoreType, Calm
<1>2. RequestInv'
    BY SMTT(60) DEF StoreInv, RequestInv, Calm
<1>3. RedeemInv'
    BY SMTT(60) DEF StoreInv, RedeemInv, OneRedemption, Calm, Busy
<1>4. StatusInv'
    BY DEF StoreInv, StatusInv, Calm
<1>5. BudgetInv'
    BY DEF StoreInv, BudgetInv, Calm, Busy
<1> QED
    BY <1>1, <1>2, <1>3, <1>4, <1>5 DEF StoreInv

LEMMA CalmCommand ==
    ASSUME Shape, StoreInv, NEW o \in Operators,
           \/ \E c \in PeerCommands : PeerLoad(o, c)
           \/ \E c \in PairCommands : PairLock(o, c)
           \/ PeerTruncate(o) \/ PeerWriteLine(o) \/ PeerDone(o) \/ Export(o) \/ KillCommand(o)
           \/ Unlock(o)
    PROVE  Calm
<1>1. o \in Procs /\ o \notin Handlers
    BY TrustAssumption DEF Procs
<1>2. UNCHANGED <<store, waits, paired, wrong, clock>>
    BY DEF PeerLoad, PairLock, PeerTruncate, PeerWriteLine, PeerDone, Export,
       KillCommand, Unlock,
           files, remote, bounds, history
<1>3. \A c \in PairCommands : c.verb \in {"invite", "revoke-all", "status", "revoke-id"}
    BY DEF PairCommands
<1>4. /\ \A y \in Procs : y # o => pc'[y] = pc[y] /\ loc'[y] = loc[y]
      /\ \/ pc'[o] \notin {"pin", "rename"}
         \/ pc'[o] = pc[o] /\ loc'[o] = loc[o]
  <2>1. CASE \E c \in PeerCommands : PeerLoad(o, c)
      BY <2>1, <1>1 DEF Shape, PeerLoad, Goto
  <2>2. CASE \E c \in PairCommands : PairLock(o, c)
      BY <2>2, <1>1, <1>3 DEF Shape, PairLock, Goto
  <2>3. CASE PeerTruncate(o) \/ PeerWriteLine(o) \/ PeerDone(o) \/ Export(o) \/ KillCommand(o) \/ Unlock(o)
      BY <2>3, <1>1 DEF Shape, PeerTruncate, PeerWriteLine, PeerDone, Export,
         KillCommand, Unlock,
                        Finish, Goto
  <2> QED
      BY <2>1, <2>2, <2>3
<1>5. \A h \in Handlers : h \in Procs /\ pc'[h] = pc[h] /\ loc'[h] = loc[h]
    BY <1>1, <1>4 DEF Procs
<1>6. \A y \in Operators : y \in Procs
    BY DEF Procs
<1> QED
    BY <1>2, <1>4, <1>5, <1>6 DEF Calm, StoreInv, StoreType, RequestInv

LEMMA CalmGateway ==
    ASSUME Shape, StoreInv,
           \/ \E x \in Operators \cup {Gateway} : CreateIdentity(x) \/ FillIdentity(x)
           \/ GatewayStart \/ GatewayLoad \/ KillGateway
           \/ (\E r \in Redeemers : Unreachable(r)) \/ Tick \/ UNCHANGED vars
    PROVE  Calm
<1>1. \A y \in Operators \cup Handlers \cup {Gateway} : y \in Procs
    BY DEF Procs
<1>2. Gateway \notin Operators /\ Gateway \notin Handlers /\ Operators \cap Handlers = {} /\ Nobody \notin Handlers
    BY TrustAssumption
<1>3. ASSUME NEW x \in Operators \cup {Gateway}, CreateIdentity(x) \/ FillIdentity(x)
      PROVE  Calm
  <2>1. UNCHANGED <<store, waits, paired, wrong, clock, loc>>
      BY <1>3 DEF CreateIdentity, FillIdentity, remote, bounds, history
  <2>2. \E l \in {"fill", "idle", "load"} : pc' = [pc EXCEPT ![x] = l]
      BY <1>3 DEF CreateIdentity, FillIdentity, Goto
  <2> QED
      BY SMTT(60), <1>1, <1>2, <2>1, <2>2
         DEF Shape, Calm, StoreInv, StoreType, RequestInv
<1>4. CASE GatewayStart \/ GatewayLoad
  <2>1. UNCHANGED <<store, waits, paired, wrong, clock, loc>>
      BY <1>4 DEF GatewayStart, GatewayLoad, files, remote, bounds, history
  <2>2. UNCHANGED pc \/ \E l \in {"create", "idle", "load"} : pc' = [pc EXCEPT ![Gateway] = l]
      BY <1>4 DEF GatewayStart, GatewayLoad, Goto
  <2> QED
      BY <1>1, <1>2, <2>1, <2>2 DEF Shape, Calm, StoreInv, StoreType, RequestInv
<1>5. CASE KillGateway
  <2>1. UNCHANGED <<store, paired, wrong, clock>> /\ waits' = [r \in Redeemers |-> Nobody]
      BY <1>5 DEF KillGateway, files, history
  <2>2. \A y \in Procs : IF y \in Operators THEN pc'[y] = pc[y] /\ loc'[y] = loc[y] ELSE pc'[y] = "idle"
      BY <1>5 DEF KillGateway
  <2> QED
      BY <1>1, <1>2, <2>1, <2>2 DEF Calm, StoreInv, StoreType, Busy
<1>6. CASE (\E r \in Redeemers : Unreachable(r)) \/ Tick \/ UNCHANGED vars
  <2>1. UNCHANGED <<store, paired, wrong, pc, loc>> /\ clock' \in Int
      BY SMTT(60), <1>6 DEF Unreachable, Tick, vars, files, remote, bounds, history,
         StoreInv, StoreType
  <2>2. waits' = waits \/ \E r \in Redeemers : waits' = [waits EXCEPT ![r] = Nobody]
      BY <1>6 DEF Unreachable, Tick, vars, remote
  <2>3. waits = [r \in Redeemers |-> waits[r]]
      BY DEF StoreInv, StoreType
  <2>4. \A r \in Redeemers : waits'[r] = waits[r] \/ waits'[r] = Nobody
      BY <2>2, <2>3
  <2>5. waits' = [r \in Redeemers |-> waits'[r]]
      BY <2>2, <2>3
  <2> QED
      BY <1>1, <1>2, <2>1, <2>4, <2>5 DEF Calm, StoreInv, RequestInv
<1> QED
    BY <1>3, <1>4, <1>5, <1>6
(* A command that holds the lockfile rewrites the store: who redeemed what *)
(* and the attempts stay, states only go forward, new invites are fresh.   *)
Rewrites(o) ==
    /\ pc[o] \in Locked /\ pc' = [pc EXCEPT ![o] = "unlock"]
    /\ UNCHANGED <<loc, waits, paired, wrong, clock>>
    /\ store' \in Seq(Invite) /\ Len(store') <= MaxInvites
    /\ DOMAIN store \subseteq DOMAIN store'
    /\ \A i \in DOMAIN store :
          /\ store'[i].by = store[i].by /\ store'[i].attempts = store[i].attempts
          /\ \/ store'[i].state \in {store[i].state, "Revoked"}
             \/ store[i].state = "Redeemed" /\ store'[i].state = "Pinned"
    /\ \A i \in DOMAIN store' \ DOMAIN store :
          store'[i].state = "Pending" /\ store'[i].by = Nobody /\ store'[i].attempts = 0

(* Nobody else holds the lockfile.                                         *)
LEMMA Alone ==
    ASSUME Small, NEW x \in Procs, pc[x] \in Locked
    PROVE  \A y \in Procs : y # x => pc[y] \notin Locked
BY DEF Small, LockInv

LEMMA RewriteStep ==
    ASSUME Shape, Small, StoreInv, NEW o \in Operators, Rewrites(o)
    PROVE  StoreInv'
<1>1. o \in Procs /\ \A h \in Handlers : h \in Procs /\ h # o
    BY TrustAssumption DEF Procs
<1>2. \A y \in Procs : y # o => pc'[y] = pc[y] /\ pc'[y] \notin Locked
    BY <1>1, Alone DEF Rewrites, Shape
<1>3. pc'[o] = "unlock"
    BY <1>1 DEF Rewrites, Shape
<1>4. StoreType'
    BY DEF StoreInv, StoreType, Rewrites
<1>5. RequestInv'
    BY <1>1, <1>2 DEF StoreInv, RequestInv, Rewrites
<1>6. RedeemInv'
  <2>1. \A h \in Handlers : pc'[h] # "consumed"
      BY <1>1, <1>2 DEF Locked
  <2>2. OneRedemption'
      BY SMTT(60) DEF StoreInv, RedeemInv, OneRedemption, Rewrites
  <2>3. ASSUME NEW i \in DOMAIN store'
        PROVE  /\ store'[i].state = "Pending" => store'[i].by = Nobody
               /\ store'[i].state \in {"Redeemed", "Pinned"} => store'[i].by \in Redeemers
      BY <2>3 DEF StoreInv, RedeemInv, Rewrites
  <2> QED
      BY <2>1, <2>2, <2>3 DEF RedeemInv
<1>7. StatusInv'
  <2>1. \A y \in Operators : pc'[y] \notin {"pin", "rename"}
      BY <1>2, <1>3 DEF Locked, Procs
  <2> QED
      BY <2>1 DEF StatusInv
<1>8. BudgetInv'
  <2>1. \A h \in Handlers : pc'[h] # "burned"
      BY <1>1, <1>2 DEF Locked
  <2>2. \A i \in 1..MaxInvites : i \notin DOMAIN store' => wrong'[i] = 0
      BY DEF StoreInv, BudgetInv, Rewrites
  <2>3. ASSUME NEW i \in DOMAIN store'
        PROVE  /\ wrong'[i] <= store'[i].attempts
               /\ store'[i].state \in {"Redeemed", "Pinned"} => wrong'[i] < MaxAttempts
    <3>1. CASE i \in DOMAIN store
        BY <3>1 DEF StoreInv, BudgetInv, Rewrites
    <3>2. CASE i \notin DOMAIN store
      <4>1. i \in 1..MaxInvites
        <5>1. store' \in Seq(Invite) /\ Len(store') <= MaxInvites
            BY DEF Rewrites
        <5>2. i \in 1..Len(store')
            BY SMTT(60), <5>1
        <5> QED
            BY SMTT(60), <5>1, <5>2, TrustAssumption
      <4>2. wrong'[i] = 0
          BY <4>1, <3>2 DEF StoreInv, BudgetInv, Rewrites
      <4>3. store'[i].attempts = 0 /\ store'[i].state = "Pending"
          BY <3>2 DEF Rewrites
      <4> QED
          BY SMTT(60), <4>2, <4>3
    <3> QED
        BY <3>1, <3>2
  <2> QED
      BY <2>1, <2>2, <2>3 DEF BudgetInv
<1> QED
    BY <1>4, <1>5, <1>6, <1>7, <1>8 DEF StoreInv

LEMMA RewriteCommands ==
    ASSUME Shape, Small, StoreInv, NEW o \in Operators,
           PairInvite(o) \/ PairRevoke(o) \/ StatusSave(o)
    PROVE  Rewrites(o)
<1>1. /\ pc[o] \in Locked /\ pc' = [pc EXCEPT ![o] = "unlock"]
      /\ UNCHANGED <<loc, waits, paired, wrong, clock>>
    BY DEF PairInvite, PairRevoke, StatusSave, Goto, Locked, remote, bounds, history
<1>2. store \in Seq(Invite) /\ Len(store) <= MaxInvites /\ Len(store) \in Nat /\ DOMAIN store = 1..Len(store)
    BY SMTT(60) DEF StoreInv, StoreType
<1>3. CASE store' = store
    BY <1>1, <1>2, <1>3 DEF Rewrites
<1>4. CASE PairInvite(o) /\ store' # store
  <2> DEFINE new == NewInvite(Len(store) + 1, clock)
  <2>1. Len(store) < MaxInvites /\ store' = Append(store, new)
      BY <1>4 DEF PairInvite
  <2>2. new \in Invite
      BY SMTT(60), <1>2, InvitesAssumption
         DEF NewInvite, Invite, InviteState, StoreInv, StoreType
  <2>3. new.state = "Pending" /\ new.by = Nobody /\ new.attempts = 0
      BY DEF NewInvite
  <2> HIDE DEF new
  <2>4. /\ store' \in Seq(Invite) /\ Len(store') = Len(store) + 1
        /\ \A i \in DOMAIN store : store'[i] = store[i]
        /\ store'[Len(store) + 1] = new
      BY SMTT(60), <1>2, <2>1, <2>2
  <2>5. DOMAIN store' = 1..(Len(store) + 1)
      BY SMTT(60), <2>4
  <2>6. \A i \in DOMAIN store' \ DOMAIN store : i = Len(store) + 1
      BY SMTT(60), <1>2, <2>5
  <2>7. Len(store') <= MaxInvites
      BY SMTT(60), <1>2, <2>1, <2>4, TrustAssumption
  <2>8. DOMAIN store \subseteq DOMAIN store'
      BY SMTT(60), <1>2, <2>5
  <2> QED
      BY <1>1, <2>3, <2>4, <2>6, <2>7, <2>8 DEF Rewrites
<1>5. ASSUME NEW i \in DOMAIN store, store' = revoke_invite(store, i)
      PROVE  Rewrites(o)
  <2>1. store' = [store EXCEPT ![i] = [store[i] EXCEPT !.state = "Revoked"]]
      BY <1>5 DEF revoke_invite
  <2>2. store[i] \in Invite
      BY SMTT(60), <1>2
  <2>3. [store[i] EXCEPT !.state = "Revoked"] \in Invite
      BY <2>2, StateChange DEF InviteState
  <2>4. store' \in Seq(Invite) /\ Len(store') = Len(store) /\ DOMAIN store' = DOMAIN store
      BY SMTT(60), <2>1, <2>3, <1>2
  <2>5. \A j \in DOMAIN store : /\ store'[j].by = store[j].by /\ store'[j].attempts = store[j].attempts
                                /\ store'[j].state \in {store[j].state, "Revoked"}
      BY <2>1, <2>2, <1>2 DEF Invite
  <2> QED
      BY <1>1, <1>2, <2>4, <2>5 DEF Rewrites
<1>6. CASE store' = revoke_all_pending(store)
  <2>1. /\ DOMAIN store' = DOMAIN store
        /\ \A j \in DOMAIN store : store'[j] = IF j \in Pending(store)
                                               THEN [store[j] EXCEPT !.state = "Revoked"] ELSE store[j]
        /\ store' = [j \in 1..Len(store) |-> store'[j]]
      BY <1>2, <1>6 DEF revoke_all_pending
  <2>2. \A j \in DOMAIN store : store[j] \in Invite /\ [store[j] EXCEPT !.state = "Revoked"] \in Invite
      BY <1>2, StateChanges DEF InviteState
  <2>3. \A j \in 1..Len(store) : store'[j] \in Invite
      BY <1>2, <2>1, <2>2
  <2>4. store' \in Seq(Invite) /\ Len(store') = Len(store)
      BY SMTT(60), <1>2, <2>1, <2>3
  <2>5. \A j \in DOMAIN store : /\ store'[j].by = store[j].by /\ store'[j].attempts = store[j].attempts
                                /\ store'[j].state \in {store[j].state, "Revoked"}
      BY <2>1, <2>2 DEF Invite
  <2> QED
      BY <1>1, <1>2, <2>1, <2>4, <2>5 DEF Rewrites
<1>7. CASE StatusSave(o) /\ store' # store
  <2>1. pc[o] = "pin"
      BY <1>7 DEF StatusSave
  <2>2. loc[o].store = store /\ \A i \in loc[o].done : store[i].state = "Redeemed"
      BY <2>1 DEF StoreInv, StatusInv
  <2>3. store' = [i \in DOMAIN store |-> IF i \in loc[o].done
                                         THEN [store[i] EXCEPT !.state = "Pinned"] ELSE store[i]]
      BY <1>7, <2>2 DEF StatusSave
  <2>4. \A j \in DOMAIN store : store[j] \in Invite /\ [store[j] EXCEPT !.state = "Pinned"] \in Invite
      BY <1>2, StateChanges DEF InviteState
  <2>5. /\ DOMAIN store' = DOMAIN store /\ store' = [j \in 1..Len(store) |-> store'[j]]
        /\ \A j \in 1..Len(store) : store'[j] \in Invite
      BY <1>2, <2>3, <2>4
  <2>6. store' \in Seq(Invite) /\ Len(store') = Len(store)
      BY SMTT(60), <1>2, <2>5
  <2>7. \A j \in DOMAIN store :
           /\ store'[j].by = store[j].by /\ store'[j].attempts = store[j].attempts
           /\ store'[j].state = store[j].state \/ (store[j].state = "Redeemed" /\ store'[j].state = "Pinned")
      BY <2>2, <2>3, <2>4 DEF Invite
  <2> QED
      BY <1>1, <1>2, <2>5, <2>6, <2>7 DEF Rewrites
<1>8. PairRevoke(o) => \/ store' = store \/ store' = revoke_all_pending(store)
                       \/ \E i \in DOMAIN store : store' = revoke_invite(store, i)
    BY DEF PairRevoke
<1> QED
    BY <1>3, <1>4, <1>5, <1>6, <1>7, <1>8
(* The loop of `famp pair status': the store is not touched.               *)
LEMMA StatusSteps ==
    ASSUME Shape, Small, StoreInv, NEW o \in Operators,
           StatusLoad(o) \/ StatusPin(o) \/ StatusRename(o)
    PROVE  StoreInv'
<1>1. o \in Procs /\ pc[o] \in Locked /\ \A h \in Handlers : h \in Procs /\ h # o
    BY TrustAssumption DEF Procs, Locked, StatusLoad, StatusPin, StatusRename
<1>2. UNCHANGED <<store, waits, paired, wrong, clock>>
    BY DEF StatusLoad, StatusPin, StatusRename, files, remote, bounds, history
<1>3. \A y \in Procs : y # o =>
         /\ pc[y] \notin Locked /\ loc'[y] = loc[y]
         /\ pc'[y] = pc[y] \/ (pc[y] = "write" /\ pc'[y] = "detached")
  <2>1. \A y \in Procs : y # o => pc[y] \notin Locked
      BY <1>1, Alone
  <2>2. CASE StatusLoad(o) \/ StatusPin(o)
      BY <1>1, <2>1, <2>2 DEF StatusLoad, StatusPin, Goto, Shape
  <2>3. CASE StatusRename(o)
      BY <1>1, <2>1, <2>3 DEF StatusRename, Shape
  <2> QED
      BY <2>2, <2>3
<1>4. \A h \in Handlers : /\ pc[h] \notin {"burned", "consumed"} /\ loc'[h] = loc[h]
                          /\ pc'[h] \in Busy => pc'[h] = pc[h]
                          /\ pc[h] \in Busy => pc'[h] = pc[h]
                          /\ pc'[h] \notin {"burned", "consumed"}
    BY <1>1, <1>3 DEF Locked, Busy
<1>5. StoreType' /\ RequestInv' /\ RedeemInv' /\ BudgetInv'
  <2>1. StoreType'
      BY <1>2 DEF StoreInv, StoreType
  <2>2. RequestInv'
      BY SMTT(60), <1>2, <1>4 DEF StoreInv, RequestInv
  <2>3. RedeemInv'
      BY <1>2, <1>4 DEF StoreInv, RedeemInv, OneRedemption
  <2>4. BudgetInv'
      BY <1>2, <1>4 DEF StoreInv, BudgetInv
  <2> QED
      BY <2>1, <2>2, <2>3, <2>4
<1>6. \A y \in Operators : y # o => pc'[y] \notin {"pin", "rename"}
    BY <1>3 DEF Locked, Procs
<1>7. SUFFICES ASSUME pc'[o] \in {"pin", "rename"}
               PROVE  /\ loc'[o].store = store
                      /\ \A i \in loc'[o].todo \cup loc'[o].done :
                            i \in DOMAIN store /\ store[i].state = "Redeemed"
                      /\ pc'[o] = "rename" => loc'[o].todo # {} /\ Loadable(loc'[o].lines)
    BY <1>2, <1>5, <1>6 DEF StoreInv, StatusInv
<1>8. CASE StatusLoad(o)
  <2>1. /\ pc'[o] = "pin" /\ loc'[o].store = store /\ loc'[o].done = {}
        /\ loc'[o].todo = {i \in DOMAIN store : store[i].state = "Redeemed"}
      BY <1>1, <1>8 DEF StatusLoad, Goto, Shape
  <2> QED
      BY <2>1
<1>9. CASE StatusPin(o)
  <2>1. /\ pc[o] = "pin" /\ loc[o].store = store /\ loc[o].todo # {}
        /\ \A i \in loc[o].todo \cup loc[o].done : i \in DOMAIN store /\ store[i].state = "Redeemed"
      BY <1>9 DEF StatusPin, StoreInv, StatusInv
  <2> DEFINE i == First(loc[o].todo)
             by == loc[o].store[i].by
             r == rotate_to(Loaded(keyfile), by.p, by.key, loc[o].cmd.flag)
             v == IF ~Loadable(Lines(keyfile)) \/ ~r.ok THEN "error"
                  ELSE Validated(Saved(r.kr), by.p)
  <2>2. v = "pinned" => Loadable(Saved(r.kr))
      BY DEF Validated
  <2>3. \/ pc' = [pc EXCEPT ![o] = "unlock"]
        \/ UNCHANGED pc /\ loc' = [loc EXCEPT ![o].todo = @ \ {i}]
        \/ /\ v = "pinned" /\ pc' = [pc EXCEPT ![o] = "rename"]
           /\ loc' = [loc EXCEPT ![o] = [cmd |-> @.cmd, store |-> @.store, done |-> @.done,
                                         todo |-> @.todo, lines |-> Saved(r.kr)]]
      BY <1>9 DEF StatusPin, Goto
  <2> HIDE DEF i, by, r, v
  <2>4. CASE pc' = [pc EXCEPT ![o] = "unlock"]
      BY <1>1, <1>7, <2>4 DEF Shape
  <2>5. CASE UNCHANGED pc /\ loc' = [loc EXCEPT ![o].todo = @ \ {i}]
    <3>1. loc'[o] = [loc[o] EXCEPT !.todo = @ \ {i}]
        BY <1>1, <2>5 DEF Shape
    <3>2. loc'[o].store = loc[o].store /\ loc'[o].done = loc[o].done
        BY SMTT(60), <3>1
    <3>3. loc'[o].todo \subseteq loc[o].todo
        BY SMTT(60), <3>1
    <3> QED
        BY <2>1, <2>5, <3>2, <3>3
  <2>6. CASE v = "pinned" /\ pc' = [pc EXCEPT ![o] = "rename"]
             /\ loc' = [loc EXCEPT ![o] = [cmd |-> @.cmd, store |-> @.store, done |-> @.done,
                                           todo |-> @.todo, lines |-> Saved(r.kr)]]
    <3>1. /\ loc'[o].store = loc[o].store /\ loc'[o].done = loc[o].done
          /\ loc'[o].todo = loc[o].todo /\ loc'[o].lines = Saved(r.kr)
        BY <1>1, <2>6 DEF Shape
    <3> QED
        BY <2>1, <2>2, <2>6, <3>1
  <2> QED
      BY <2>3, <2>4, <2>5, <2>6
<1>10. CASE StatusRename(o)
  <2>1. /\ pc[o] = "rename" /\ loc[o].store = store
        /\ \A i \in loc[o].todo \cup loc[o].done : i \in DOMAIN store /\ store[i].state = "Redeemed"
        /\ loc[o].todo # {}
      BY <1>10 DEF StatusRename, StoreInv, StatusInv
  <2>2. First(loc[o].todo) \in loc[o].todo
    <3>1. loc[o].todo \subseteq Nat
        BY SMTT(60), <2>1 DEF StoreInv, StoreType
    <3>2. \E i \in loc[o].todo : \A j \in loc[o].todo : i <= j
        BY <3>1, <2>1, Minimum
    <3> QED
        BY <3>2 DEF First
  <2>3. /\ pc'[o] = "pin" /\ loc'[o].store = loc[o].store
        /\ loc'[o].done = loc[o].done \cup {First(loc[o].todo)}
        /\ loc'[o].todo = loc[o].todo \ {First(loc[o].todo)}
      BY <1>1, <1>10 DEF StatusRename, Shape
  <2> QED
      BY <2>1, <2>2, <2>3
<1> QED
    BY <1>8, <1>9, <1>10
-----------------------------------------------------------------------------
(* The redemption endpoint.                                                *)

(* A wrong code: the charge is in the store before the answer is sent.     *)
LEMMA BurnStep ==
    ASSUME Shape, Small, StoreInv, NEW h \in Handlers, burn_and_reject_wrong_code(h)
    PROVE  StoreInv'
<1> DEFINE open == Open(store, loc[h].now)
<1>1. /\ pc[h] = "burning" /\ pc' = [pc EXCEPT ![h] = "burned"]
      /\ UNCHANGED <<loc, waits, paired, wrong, clock>>
      /\ store' = [i \in DOMAIN store |-> IF i \in open
                     THEN [store[i] EXCEPT !.attempts = @ + 1] ELSE store[i]]
    BY DEF burn_and_reject_wrong_code, Goto, burn_attempt, remote, bounds, history
<1>2. h \in Procs /\ \A o \in Operators : o \in Procs /\ o # h
    BY TrustAssumption DEF Procs
<1>3. pc'[h] = "burned" /\ \A y \in Procs : y # h => pc'[y] = pc[y] /\ pc[y] \notin Locked
    BY <1>1, <1>2, Alone DEF Shape, Locked
<1>4. store \in Seq(Invite) /\ Len(store) <= MaxInvites /\ wrong \in [1..MaxInvites -> Nat]
    BY DEF StoreInv, StoreType
<1>5. \A i \in DOMAIN store : store[i] \in Invite /\ [store[i] EXCEPT !.attempts = @ + 1] \in Invite
  <2> SUFFICES ASSUME NEW i \in DOMAIN store
               PROVE  store[i] \in Invite /\ [store[i] EXCEPT !.attempts = @ + 1] \in Invite
      OBVIOUS
  <2>1. store[i] \in Invite
      BY SMTT(60), <1>4
  <2> QED
      BY SMTT(60), <2>1 DEF Invite
<1>6. /\ store' \in Seq(Invite) /\ Len(store') = Len(store) /\ DOMAIN store' = DOMAIN store
      /\ DOMAIN store = 1..Len(store) /\ Len(store) \in Nat
  <2> HIDE DEF open
  <2> QED
      BY SMTT(60), <1>1, <1>4, <1>5
<1>7. ASSUME NEW i \in DOMAIN store
      PROVE  /\ store'[i].state = store[i].state /\ store'[i].by = store[i].by
             /\ store'[i].expires = store[i].expires
             /\ store'[i].attempts = IF i \in open THEN store[i].attempts + 1 ELSE store[i].attempts
  <2> HIDE DEF open
  <2>1. store[i] \in Invite
      BY <1>5
  <2> QED
      BY <1>1, <2>1 DEF Invite
<1>8. Open(store', loc'[h].now) = open
    BY <1>1, <1>6, <1>7 DEF Open, Pending, is_expired
<1> HIDE DEF open
<1>9. StoreType'
    BY <1>1, <1>4, <1>6 DEF StoreInv, StoreType
<1>10. RequestInv'
    BY SMTT(60), <1>1, <1>2, <1>3 DEF StoreInv, RequestInv, Busy, Procs
<1>11. RedeemInv'
    BY SMTT(60), <1>1, <1>3, <1>6, <1>7 DEF StoreInv, RedeemInv, OneRedemption, Procs,
       Locked
<1>12. StatusInv'
    BY <1>2, <1>3 DEF StatusInv, Locked
<1>13. BudgetInv'
  <2>1. \A x \in Handlers : x # h => pc'[x] # "burned"
      BY <1>3 DEF Locked, Procs
  <2>2. \A i \in DOMAIN store : store[i].attempts \in Nat /\ wrong[i] \in Nat
    <3>1. \A i \in DOMAIN store : i \in 1..MaxInvites
        BY SMTT(60), <1>4, <1>6, TrustAssumption
    <3> QED
        BY <1>4, <1>5, <3>1 DEF Invite
  <2>3. \A i \in DOMAIN store : i \in open => wrong[i] < store'[i].attempts
      BY SMTT(60), <1>7, <2>2 DEF StoreInv, BudgetInv
  <2>4. ASSUME NEW i \in DOMAIN store
        PROVE  /\ wrong[i] <= store'[i].attempts
               /\ store'[i].state \in {"Redeemed", "Pinned"} => wrong[i] < MaxAttempts
      BY SMTT(60), <1>7, <2>2 DEF StoreInv, BudgetInv
  <2>5. open \subseteq DOMAIN store
      BY DEF open, Open, Pending
  <2>6. \A i \in 1..MaxInvites : i \notin DOMAIN store' => wrong'[i] = 0
      BY <1>1, <1>6 DEF StoreInv, BudgetInv
  <2> QED
      BY <1>1, <1>6, <1>8, <2>1, <2>3, <2>4, <2>5, <2>6 DEF BudgetInv
<1> QED
    BY <1>9, <1>10, <1>11, <1>12, <1>13 DEF StoreInv

(* The right code: the invite is decided again under the lock, so it is    *)
(* still pending and within its budget.                                    *)
LEMMA AcceptStep ==
    ASSUME Shape, Small, StoreInv, NEW h \in Handlers, accept_and_consume(h)
    PROVE  StoreInv'
<1>1. /\ pc[h] = "accepting" /\ UNCHANGED <<loc, waits, paired, wrong, clock>>
    BY DEF accept_and_consume, remote, bounds, history
<1>2. h \in Procs /\ \A o \in Operators : o \in Procs /\ o # h
    BY TrustAssumption DEF Procs
<1>3. store \in Seq(Invite) /\ Len(store) <= MaxInvites /\ wrong \in [1..MaxInvites -> Nat]
    BY DEF StoreInv, StoreType
<1>4. loc[h].r \in Redeemers
    BY <1>1 DEF StoreInv, RequestInv, Busy
<1>5. CASE UNCHANGED store /\ pc' = [pc EXCEPT ![h] = "rejected"]
  <2>1. pc'[h] = "rejected" /\ \A y \in Procs : y # h => pc'[y] = pc[y] /\ pc[y] \notin Locked
      BY <1>1, <1>2, <1>5, Alone DEF Shape, Locked
  <2>2. Calm
      BY SMTT(60), <1>1, <1>2, <1>5, <2>1
         DEF Calm, StoreInv, StoreType, RequestInv, Busy, Procs
  <2> QED
      BY <2>2, CalmStep
<1>6. CASE /\ decide(store, loc[h].code, loc[h].now).verdict = "Accept"
           /\ store' = consume(store, decide(store, loc[h].code, loc[h].now).id, loc[h].r)
           /\ pc' = [pc EXCEPT ![h] = "consumed"]
  <2>1. PICK i : /\ i \in DOMAIN store /\ store[i].state = "Pending" /\ store[i].attempts < MaxAttempts
                 /\ store' = [store EXCEPT ![i].state = "Redeemed", ![i].by = loc[h].r]
      BY <1>3, <1>6, AcceptsPending DEF consume
  <2>2. pc'[h] = "consumed" /\ \A y \in Procs : y # h => pc'[y] = pc[y] /\ pc[y] \notin Locked
      BY <1>1, <1>2, <1>6, Alone DEF Shape, Locked
  <2>3. store[i] \in Invite
      BY SMTT(60), <1>3, <2>1
  <2>4. store' = [store EXCEPT ![i] = [store[i] EXCEPT !.state = "Redeemed", !.by = loc[h].r]]
      BY <1>3, <2>1
  <2>5. [store[i] EXCEPT !.state = "Redeemed", !.by = loc[h].r] \in Invite
      BY <1>4, <2>3 DEF Invite, InviteState
  <2>6. /\ store' \in Seq(Invite) /\ Len(store') = Len(store) /\ DOMAIN store' = DOMAIN store
        /\ DOMAIN store = 1..Len(store) /\ Len(store) \in Nat
    <3>1. PICK new \in Invite : store' = [store EXCEPT ![i] = new]
        BY <2>4, <2>5
    <3>2. i \in DOMAIN store
        BY <2>1
    <3> QED
        BY SMTT(60), <1>3, <3>1, <3>2
  <2>7. /\ store'[i].state = "Redeemed" /\ store'[i].by = loc[h].r
        /\ store'[i].attempts = store[i].attempts
      BY SMTT(60), <2>1, <2>3, <2>4, <2>6 DEF Invite
  <2>8. \A j \in DOMAIN store : j # i => store'[j] = store[j]
      BY <2>4
  <2>9. StoreType'
      BY <1>1, <1>3, <2>6 DEF StoreInv, StoreType
  <2>10. RequestInv'
      BY SMTT(60), <1>1, <1>2, <2>2 DEF StoreInv, RequestInv, Busy, Procs
  <2>11. RedeemInv'
    <3>1. \A j \in DOMAIN store' :
             /\ store'[j].state = "Pending" => store'[j].by = Nobody
             /\ store'[j].state \in {"Redeemed", "Pinned"} => store'[j].by \in Redeemers
        BY <1>4, <2>6, <2>7, <2>8 DEF StoreInv, RedeemInv
    <3>2. \A x \in Handlers : pc'[x] = "consumed" => x = h
        BY <2>2 DEF Procs, Locked
    <3>3. ASSUME NEW r \in paired PROVE \E j \in DOMAIN store' : store'[j].by = r
      <4>1. PICK j \in DOMAIN store : store[j].by = r
          BY <3>3 DEF StoreInv, RedeemInv, OneRedemption
      <4>2. r \in Redeemers /\ Nobody \notin Redeemers
          BY <3>3, TrustAssumption DEF StoreInv, StoreType
      <4>3. j # i
          BY <2>1, <4>1, <4>2 DEF StoreInv, RedeemInv
      <4> QED
          BY <2>6, <2>8, <4>1, <4>3
    <3> QED
        BY SMTT(60), <1>1, <2>1, <2>6, <2>7, <3>1, <3>2, <3>3
           DEF RedeemInv, OneRedemption
  <2>12. StatusInv'
      BY <1>2, <2>2 DEF StatusInv, Locked
  <2>13. BudgetInv'
    <3>1. \A x \in Handlers : pc'[x] # "burned"
        BY <2>2 DEF Procs, Locked
    <3>2. wrong[i] \in Nat /\ store[i].attempts \in Nat /\ MaxAttempts \in Nat
      <4>1. i \in 1..MaxInvites
          BY SMTT(60), <1>3, <2>1, <2>6, TrustAssumption
      <4> QED
          BY <1>3, <2>3, <4>1, InvitesAssumption DEF Invite
    <3>3. wrong[i] <= store[i].attempts
        BY <2>1 DEF StoreInv, BudgetInv
    <3>4. wrong[i] < MaxAttempts
        BY SMTT(60), <2>1, <3>2, <3>3
    <3> QED
        BY <1>1, <2>6, <2>7, <2>8, <3>1, <3>3, <3>4 DEF StoreInv, BudgetInv
  <2> QED
      BY <2>9, <2>10, <2>11, <2>12, <2>13 DEF StoreInv
<1> QED
    BY <1>5, <1>6 DEF accept_and_consume, Goto
(* The lock is taken or refused: nothing is decided yet.                   *)
LEMMA LockCalm ==
    ASSUME Shape, StoreInv, NEW h \in Handlers, HandlerLock(h)
    PROVE  Calm
<1>1. /\ pc[h] \in {"burn", "accept"} /\ UNCHANGED <<store, paired, wrong, clock>>
      /\ \/ \E l \in {"burning", "accepting"} :
               pc' = [pc EXCEPT ![h] = l] /\ UNCHANGED <<loc, waits>>
         \/ /\ pc' = [pc EXCEPT ![h] = "idle"] /\ loc' = [loc EXCEPT ![h] = NoLocals]
            /\ waits' = [r \in Redeemers |-> IF waits[r] = h THEN Nobody ELSE waits[r]]
    BY DEF HandlerLock, Goto, Answer, Finish, bounds, history
<1>2. h \in Procs /\ Nobody \notin Handlers /\ \A o \in Operators : o \in Procs /\ o # h
    BY TrustAssumption DEF Procs
<1>3. CASE \E l \in {"burning", "accepting"} :
              pc' = [pc EXCEPT ![h] = l] /\ UNCHANGED <<loc, waits>>
  <2>1. PICK l \in {"burning", "accepting"} : pc' = [pc EXCEPT ![h] = l]
      BY <1>3
  <2>2. pc'[h] = l /\ \A y \in Procs : y # h => pc'[y] = pc[y]
      BY <1>2, <2>1 DEF Shape
  <2>3. UNCHANGED <<loc, waits>>
      BY <1>3
  <2> QED
      BY SMTT(60), <1>1, <1>2, <2>2, <2>3
         DEF Calm, StoreInv, StoreType, RequestInv, Busy, Procs
<1>4. CASE /\ pc' = [pc EXCEPT ![h] = "idle"] /\ loc' = [loc EXCEPT ![h] = NoLocals]
           /\ waits' = [r \in Redeemers |-> IF waits[r] = h THEN Nobody ELSE waits[r]]
  <2>1. pc'[h] = "idle" /\ \A y \in Procs : y # h => pc'[y] = pc[y] /\ loc'[y] = loc[y]
      BY <1>2, <1>4 DEF Shape
  <2> QED
      BY SMTT(60), <1>1, <1>2, <1>4, <2>1
         DEF Calm, StoreInv, StoreType, RequestInv, Busy, Procs
<1> QED
    BY <1>1, <1>3, <1>4

(* The answer: the store already names the redeemer, and already holds the *)
(* charge.                                                                 *)
LEMMA AnswerStep ==
    ASSUME Shape, Small, StoreInv, NEW h \in Handlers, HandlerAnswer(h)
    PROVE  StoreInv'
<1>1. /\ pc[h] \in {"burned", "rejected", "consumed"} /\ UNCHANGED <<store, clock>>
      /\ pc' = [pc EXCEPT ![h] = "idle"] /\ loc' = [loc EXCEPT ![h] = NoLocals]
      /\ waits' = [r \in Redeemers |-> IF waits[r] = h THEN Nobody ELSE waits[r]]
      /\ wrong' = [i \in 1..MaxInvites |->
                     IF pc[h] = "burned" /\ i \in Open(store, loc[h].now)
                     THEN wrong[i] + 1 ELSE wrong[i]]
      /\ paired' = IF pc[h] = "consumed"
                   THEN paired \cup {r \in Redeemers : waits[r] = h} ELSE paired
    BY DEF HandlerAnswer, Answer, Finish, Goto, bounds
<1>2. h \in Procs /\ Nobody \notin Handlers /\ \A o \in Operators : o \in Procs /\ o # h
    BY TrustAssumption DEF Procs
<1>3. /\ pc'[h] = "idle"
      /\ \A y \in Procs : y # h => pc'[y] = pc[y] /\ loc'[y] = loc[y] /\ pc[y] \notin Locked
    BY <1>1, <1>2, Alone DEF Shape, Locked
<1>4. store \in Seq(Invite) /\ Len(store) <= MaxInvites /\ wrong \in [1..MaxInvites -> Nat]
    BY DEF StoreInv, StoreType
<1>5. \A i \in DOMAIN store : i \in 1..MaxInvites
    BY SMTT(60), <1>4, TrustAssumption
<1>6. StoreType'
    BY SMTT(60), <1>1, <1>4 DEF StoreInv, StoreType
<1>7. RequestInv'
    BY SMTT(60), <1>1, <1>2, <1>3 DEF StoreInv, RequestInv, Busy, Procs
<1>8. RedeemInv'
  <2>1. ASSUME NEW r \in paired' PROVE \E i \in DOMAIN store : store[i].by = r
    <3>1. CASE r \in paired
        BY <3>1 DEF StoreInv, RedeemInv, OneRedemption
    <3>2. CASE pc[h] = "consumed" /\ r \in Redeemers /\ waits[r] = h
        BY <3>2 DEF StoreInv, RequestInv, RedeemInv
    <3> QED
        BY <1>1, <2>1, <3>1, <3>2
  <2>2. \A x \in Handlers : pc'[x] # "consumed"
      BY <1>3 DEF Procs, Locked
  <2> QED
      BY <1>1, <2>1, <2>2 DEF StoreInv, RedeemInv, OneRedemption
<1>9. StatusInv'
    BY <1>2, <1>3 DEF StatusInv, Locked
<1>10. BudgetInv'
  <2>1. \A x \in Handlers : pc'[x] # "burned"
      BY <1>3 DEF Procs, Locked
  <2>2. Open(store, loc[h].now) \subseteq Pending(store) /\ Pending(store) \subseteq DOMAIN store
      BY DEF Open, Pending
  <2>3. \A i \in 1..MaxInvites : i \notin DOMAIN store => wrong'[i] = 0
      BY <1>1, <2>2 DEF StoreInv, BudgetInv
  <2>4. ASSUME NEW i \in DOMAIN store
        PROVE  /\ wrong'[i] <= store[i].attempts
               /\ store[i].state \in {"Redeemed", "Pinned"} => wrong'[i] < MaxAttempts
    <3>1. CASE pc[h] = "burned" /\ i \in Open(store, loc[h].now)
      <4>1. wrong[i] < store[i].attempts
          BY <3>1 DEF StoreInv, BudgetInv
      <4>2. wrong[i] \in Nat /\ store[i].attempts \in Nat
        <5>1. store[i] \in Invite
            BY SMTT(60), <1>4
        <5> QED
            BY <1>4, <1>5, <5>1 DEF Invite
      <4>3. wrong'[i] = wrong[i] + 1 /\ store[i].state = "Pending"
          BY <1>1, <1>5, <3>1 DEF Open, Pending
      <4> QED
          BY SMTT(60), <4>1, <4>2, <4>3
    <3>2. CASE ~(pc[h] = "burned" /\ i \in Open(store, loc[h].now))
      <4>1. wrong'[i] = wrong[i]
          BY <1>1, <1>5, <3>2
      <4> QED
          BY <4>1 DEF StoreInv, BudgetInv
    <3> QED
        BY <3>1, <3>2
  <2> QED
      BY <1>1, <2>1, <2>3, <2>4 DEF BudgetInv
<1> QED
    BY <1>6, <1>7, <1>8, <1>9, <1>10 DEF StoreInv

(* A request arrives: its redeemer waits for the handler that took it.     *)
LEMMA RedeemStep ==
    ASSUME Shape, StoreInv, NEW h \in Handlers, NEW r \in Redeemers,
           NEW code, NEW signed, Redeem(h, r, code, signed)
    PROVE  StoreInv'
<1> DEFINE next == ingest_redemption_at(r, code, signed)
           req  == [cmd |-> Nobody, r |-> r, code |-> code, now |-> clock]
<1>1. pc[h] = "idle" /\ waits[r] = Nobody /\ UNCHANGED <<store, paired, wrong, clock>>
    BY DEF Redeem, files, history
<1>2. /\ h \in Procs /\ Nobody \notin Handlers
      /\ \A o \in Operators : o \in Procs /\ o # h
    BY TrustAssumption DEF Procs
<1>3. CASE next = "idle"
  <2>1. UNCHANGED <<pc, loc, waits>>
      BY <1>3 DEF Redeem
  <2> QED
      BY <1>1, <2>1 DEF StoreInv, StoreType, RequestInv, RedeemInv, OneRedemption,
                        StatusInv, BudgetInv
<1>4. CASE next # "idle"
  <2>1. next \in {"burn", "accept"}
      BY <1>4 DEF ingest_redemption_at
  <2>2. /\ pc' = [pc EXCEPT ![h] = next] /\ loc' = [loc EXCEPT ![h] = req]
        /\ waits' = [waits EXCEPT ![r] = h]
      BY <1>4 DEF Redeem, Goto
  <2> HIDE DEF next
  <2>3. /\ pc'[h] = next /\ loc'[h].r = r
        /\ \A y \in Procs : y # h => pc'[y] = pc[y] /\ loc'[y] = loc[y]
      BY <1>2, <2>2 DEF Shape
  <2>4. /\ waits' = [x \in Redeemers |-> waits'[x]] /\ waits'[r] = h
        /\ \A x \in Redeemers : x # r => waits'[x] = waits[x]
      BY <2>2 DEF StoreInv, StoreType
  <2>5. StoreType'
      BY <1>1, <2>4 DEF StoreInv, StoreType
  <2>6. RequestInv'
    <3>1. \A x \in Redeemers : waits[x] # h
        BY <1>1 DEF StoreInv, RequestInv, Busy
    <3> QED
        BY SMTT(60), <1>1, <1>2, <2>1, <2>3, <2>4, <3>1
           DEF StoreInv, RequestInv, Busy, Procs
  <2>7. RedeemInv'
      BY <1>1, <2>1, <2>3 DEF StoreInv, RedeemInv, OneRedemption, Procs
  <2>8. StatusInv'
      BY <1>1, <1>2, <2>3 DEF StoreInv, StatusInv
  <2>9. BudgetInv'
      BY <1>1, <2>1, <2>3 DEF StoreInv, BudgetInv, Procs
  <2> QED
      BY <2>5, <2>6, <2>7, <2>8, <2>9 DEF StoreInv
<1> QED
    BY <1>3, <1>4
LEMMA TrustInvNext == TrustInv /\ [Next]_vars => TrustInv'
<1> SUFFICES ASSUME TrustInv, [Next]_vars PROVE TrustInv'
    OBVIOUS
<1>1. Shape /\ Small /\ StoreInv
    BY DEF TrustInv
<1>2. Shape' /\ Small'
    BY <1>1, SmallNext
<1>3. ASSUME NEW o \in Operators,
             \/ \E c \in PeerCommands : PeerLoad(o, c)
             \/ \E c \in PairCommands : PairLock(o, c)
             \/ Export(o) \/ CommandStep(o) \/ KillCommand(o)
      PROVE  StoreInv'
  <2>1. CASE PairInvite(o) \/ PairRevoke(o) \/ StatusSave(o)
      BY <1>1, <2>1, RewriteCommands, RewriteStep
  <2>2. CASE StatusLoad(o) \/ StatusPin(o) \/ StatusRename(o)
      BY <1>1, <2>2, StatusSteps
  <2>3. CASE \/ \E c \in PeerCommands : PeerLoad(o, c)
             \/ \E c \in PairCommands : PairLock(o, c)
             \/ PeerTruncate(o) \/ PeerWriteLine(o) \/ PeerDone(o) \/ Export(o)
             \/ KillCommand(o) \/ Unlock(o)
      BY <1>1, <2>3, CalmCommand, CalmStep
  <2> QED
      BY <1>3, <2>1, <2>2, <2>3 DEF CommandStep
<1>4. ASSUME NEW h \in Handlers, HandlerStep(h)
      PROVE  StoreInv'
    BY <1>1, <1>4, LockCalm, CalmStep, BurnStep, AcceptStep, AnswerStep DEF HandlerStep
<1>5. ASSUME NEW h \in Handlers, NEW r \in Redeemers, NEW code, NEW signed,
             Redeem(h, r, code, signed)
      PROVE  StoreInv'
    BY <1>1, <1>5, RedeemStep
<1>6. CASE \/ \E x \in Operators \cup {Gateway} : CreateIdentity(x) \/ FillIdentity(x)
           \/ GatewayStart \/ GatewayLoad \/ KillGateway
           \/ (\E r \in Redeemers : Unreachable(r)) \/ Tick \/ UNCHANGED vars
    BY <1>1, <1>2, <1>6, CalmGateway, CalmStep DEF TrustInv
<1> QED
    BY <1>2, <1>3, <1>4, <1>5, <1>6 DEF Next, TrustInv

LEMMA TrustInvariant == Spec => []TrustInv
<1>1. Init => TrustInv
    BY SmallInit, StoreInvInit DEF TrustInv
<1> QED
    BY <1>1, TrustInvNext, PTL DEF Spec

-----------------------------------------------------------------------------
(* What the keyring says of a revoked key.                                 *)

Entry == [p : Nat, key : Nat, state : KeyState, until : Int, dated : BOOLEAN]

(* Key x[2] of principal x[1] has an entry, and every one is a tombstone.  *)
Dead(kr, x) ==
    /\ \E e \in kr : e.p = x[1] /\ e.key = x[2]
    /\ \A e \in kr : e.p = x[1] /\ e.key = x[2] => e.state = "revoked"

LEMMA ParsedLine ==
    ASSUME NEW l \in Line
    PROVE  /\ parse_line(l) \in Entry
           /\ parse_line(l).p = l[1] /\ parse_line(l).key = l[2]
<1>1. CASE l \in Nat \X Nat
    BY SMTT(60), <1>1 DEF parse_line, legacy, Entry, KeyState, Never
<1>2. CASE l \in Nat \X Nat \X KeyState \X Int
    BY SMTT(60), <1>2 DEF parse_line, legacy, Entry, KeyState, Never
<1> QED
    BY <1>1, <1>2 DEF Line

(* What is saved and loaded again names the same key in the same state.    *)
LEMMA SavedLine ==
    ASSUME NEW e \in Entry
    PROVE  /\ serialize_entry(e) \in Line
           /\ parse_line(serialize_entry(e)).p = e.p
           /\ parse_line(serialize_entry(e)).key = e.key
           /\ parse_line(serialize_entry(e)).state = e.state
<1>1. e.p \in Nat /\ e.key \in Nat /\ e.state \in KeyState /\ e.until \in Int
    BY DEF Entry
<1>2. CASE is_legacy_shaped(e)
  <2>1. serialize_entry(e) = <<e.p, e.key>> /\ e.state = "active"
      BY <1>2 DEF serialize_entry, is_legacy_shaped
  <2>2. PICK l : l = <<e.p, e.key>>
      OBVIOUS
  <2>3. l \in Nat \X Nat /\ Len(l) = 2 /\ l[1] = e.p /\ l[2] = e.key
      BY SMTT(60), <1>1, <2>2
  <2>4. parse_line(l) = legacy(l[1], l[2])
      BY <2>3 DEF parse_line
  <2>5. parse_line(l).p = e.p /\ parse_line(l).key = e.key /\ parse_line(l).state = e.state
      BY SMTT(60), <2>1, <2>3, <2>4 DEF legacy
  <2>6. serialize_entry(e) = l
      BY <2>1, <2>2
  <2>7. l \in Line
      BY <2>3 DEF Line
  <2> QED
      BY <2>5, <2>6, <2>7
<1>3. CASE ~is_legacy_shaped(e)
  <2>1. serialize_entry(e) = <<e.p, e.key, e.state, e.until>>
      BY <1>3 DEF serialize_entry
  <2>2. PICK l : l = <<e.p, e.key, e.state, e.until>>
      OBVIOUS
  <2>3. /\ l \in Nat \X Nat \X KeyState \X Int /\ Len(l) # 2
        /\ l[1] = e.p /\ l[2] = e.key /\ l[3] = e.state
      BY SMTT(60), <1>1, <2>2
  <2>4. parse_line(l) = [p |-> l[1], key |-> l[2], state |-> l[3], until |-> l[4],
                         dated |-> TRUE]
      BY <2>3 DEF parse_line
  <2>5. parse_line(l).p = e.p /\ parse_line(l).key = e.key /\ parse_line(l).state = e.state
      BY SMTT(60), <2>3, <2>4
  <2>6. serialize_entry(e) = l
      BY <2>1, <2>2
  <2>7. l \in Line
      BY <2>3 DEF Line
  <2> QED
      BY <2>5, <2>6, <2>7
<1> QED
    BY <1>2, <1>3

LEMMA SavedDead ==
    ASSUME NEW kr \in SUBSET Entry, NEW x, Dead(kr, x)
    PROVE  Dead(Parsed(Saved(kr)), x)
<1>1. ASSUME NEW f \in Parsed(Saved(kr))
      PROVE  \E e \in kr : f.p = e.p /\ f.key = e.key /\ f.state = e.state
  <2>1. PICK e \in kr : f = parse_line(serialize_entry(e))
      BY <1>1 DEF Parsed, Saved
  <2> QED
      BY <2>1, SavedLine
<1>2. PICK e \in kr : e.p = x[1] /\ e.key = x[2]
    BY DEF Dead
<1>3. parse_line(serialize_entry(e)) \in Parsed(Saved(kr))
    BY DEF Parsed, Saved
<1>4. \E f \in Parsed(Saved(kr)) : f.p = x[1] /\ f.key = x[2]
    BY <1>2, <1>3, SavedLine
<1> QED
    BY <1>1, <1>4 DEF Dead

(* The line that is written next is one of those that are left.            *)
LEMMA NextIsLeft ==
    ASSUME NEW L \in SUBSET Line, L # {}
    PROVE  NextLine(L) \in L
<1>1. \A l \in L : l[1] \in Nat /\ l[2] \in Nat
    BY ParsedLine DEF Entry
<1> DEFINE P == {l[1] : l \in L}
<1>2. P \in SUBSET Nat /\ P # {}
    BY <1>1
<1>3. PICK a \in P : \A b \in P : a <= b
    BY <1>2, Minimum
<1> DEFINE Q == {l[2] : l \in {m \in L : m[1] = a}}
<1>4. Q \in SUBSET Nat /\ Q # {}
    BY <1>1
<1>5. PICK k \in Q : \A b \in Q : k <= b
    BY <1>4, Minimum
<1>6. PICK l \in L : l[1] = a /\ l[2] = k
    BY <1>5
<1>7. ASSUME NEW y \in L
      PROVE  l[1] < y[1] \/ (l[1] = y[1] /\ l[2] <= y[2])
  <2>1. y[1] \in P /\ (y[1] = a => y[2] \in Q)
      OBVIOUS
  <2> HIDE DEF P, Q
  <2>2. a <= y[1] /\ (y[1] = a => k <= y[2])
      BY <1>3, <1>5, <2>1
  <2>3. a \in Nat /\ y[1] \in Nat
      BY <1>1, <1>6
  <2> QED
      BY SMTT(60), <1>6, <2>2, <2>3
<1> QED
    BY <1>6, <1>7 DEF NextLine

(* What a change of the keyring must do: no revoked key comes back.        *)
Buries(kr, new) == new \in SUBSET Entry /\ \A x : Dead(kr, x) => Dead(new, x)

LEMMA AddBuries ==
    ASSUME NEW kr \in SUBSET Entry, NEW e \in Entry, ~IsRevoked(kr, e.p, e.key)
    PROVE  Buries(kr, kr \cup {e})
<1>1. ASSUME NEW x, Dead(kr, x) PROVE Dead(kr \cup {e}, x)
  <2>1. PICK w \in kr : w.p = x[1] /\ w.key = x[2] /\ w.state = "revoked"
      BY <1>1 DEF Dead
  <2>2. ~(e.p = x[1] /\ e.key = x[2])
      BY <2>1 DEF IsRevoked, InState, entries
  <2>3. \A f \in kr \cup {e} : f.p = x[1] /\ f.key = x[2] => f.state = "revoked"
      BY <1>1, <2>2 DEF Dead
  <2> QED
      BY <2>1, <2>3 DEF Dead
<1> QED
    BY <1>1 DEF Buries

LEMMA MoveBuries ==
    ASSUME NEW kr \in SUBSET Entry, NEW e \in kr, NEW s \in KeyState,
           s = "revoked" \/ e.state # "revoked"
    PROVE  /\ Buries(kr, Move(kr, e, s))
           /\ \E m \in Entry : /\ Move(kr, e, s) = (kr \ {e}) \cup {m}
                               /\ m.p = e.p /\ m.key = e.key /\ m.state = s
<1>1. PICK m : m = [e EXCEPT !.state = s, !.dated = @ \/ e.state # s]
    OBVIOUS
<1>2. m \in Entry /\ m.p = e.p /\ m.key = e.key /\ m.state = s
    BY <1>1 DEF Entry
<1>3. Move(kr, e, s) = (kr \ {e}) \cup {m}
    BY <1>1 DEF Move
<1>4. ASSUME NEW x, Dead(kr, x) PROVE Dead((kr \ {e}) \cup {m}, x)
  <2>1. PICK w \in kr : w.p = x[1] /\ w.key = x[2] /\ w.state = "revoked"
      BY <1>4 DEF Dead
  <2>2. \A f \in (kr \ {e}) \cup {m} : f.p = x[1] /\ f.key = x[2] => f.state = "revoked"
      BY <1>2, <1>4 DEF Dead
  <2>3. \E f \in (kr \ {e}) \cup {m} : f.p = x[1] /\ f.key = x[2]
      BY <1>2, <2>1
  <2> QED
      BY <2>2, <2>3 DEF Dead
<1> QED
    BY <1>2, <1>3, <1>4 DEF Buries

LEMMA PinBuries ==
    ASSUME NEW kr \in SUBSET Entry, NEW p \in Nat, NEW k \in Nat, pin_tofu(kr, p, k).ok
    PROVE  Buries(kr, pin_tofu(kr, p, k).kr)
<1>1. /\ ~IsRevoked(kr, p, k)
      /\ pin_tofu(kr, p, k).kr = kr \/ pin_tofu(kr, p, k).kr = kr \cup {legacy(p, k)}
    BY DEF pin_tofu, Refuse, Accept
<1>2. legacy(p, k) \in Entry /\ legacy(p, k).p = p /\ legacy(p, k).key = k
    BY SMTT(60) DEF legacy, Entry, KeyState, Never
<1>3. Buries(kr, kr)
    BY DEF Buries
<1>4. Buries(kr, kr \cup {legacy(p, k)})
    BY <1>1, <1>2, AddBuries
<1> QED
    BY <1>1, <1>3, <1>4

LEMMA RotateBuries ==
    ASSUME NEW kr \in SUBSET Entry, NEW p \in Nat, NEW k \in Nat, NEW sure,
           rotate_to(kr, p, k, sure).ok
    PROVE  Buries(kr, rotate_to(kr, p, k, sure).kr)
<1> DEFINE old == CHOOSE e \in InState(kr, p, "active") : TRUE
           new == rotate_to(kr, p, k, sure).kr
<1>1. /\ ~IsRevoked(kr, p, k)
      /\ \/ new = kr
         \/ new = kr \cup {Pinned(p, k)}
         \/ /\ InState(kr, p, "active") # {} /\ old.key # k
            /\ new = Move(kr, old, "retired") \cup {Pinned(p, k)}
    BY DEF rotate_to, Refuse, Accept
<1>2. PICK n \in Entry : n = Pinned(p, k) /\ n.p = p /\ n.key = k
  <2>1. PICK e : e = legacy(p, k)
      OBVIOUS
  <2>2. e \in Entry /\ e.p = p /\ e.key = k
      BY SMTT(60), <2>1 DEF legacy, Entry, KeyState, Never
  <2>3. Pinned(p, k) = [e EXCEPT !.dated = TRUE]
      BY <2>1 DEF Pinned
  <2> QED
      BY <2>2, <2>3 DEF Entry
<1> HIDE DEF new
<1> SUFFICES Buries(kr, new)
    BY DEF new
<1>3. CASE new = kr \/ new = kr \cup {n}
  <2>1. Buries(kr, kr)
      BY DEF Buries
  <2>2. ~IsRevoked(kr, n.p, n.key)
      BY <1>1, <1>2
  <2>3. Buries(kr, kr \cup {n})
      BY <2>2, AddBuries
  <2> QED
      BY <1>3, <2>1, <2>3
<1>4. CASE /\ InState(kr, p, "active") # {} /\ old.key # k
           /\ new = Move(kr, old, "retired") \cup {n}
  <2>1. old \in kr /\ old.state = "active" /\ old.key # k
      BY <1>4 DEF InState, entries
  <2> HIDE DEF old
  <2>2. "retired" \in KeyState /\ old.state # "revoked"
      BY <2>1 DEF KeyState
  <2>3. Buries(kr, Move(kr, old, "retired"))
      BY <2>1, <2>2, MoveBuries
  <2>4. PICK m \in Entry : /\ Move(kr, old, "retired") = (kr \ {old}) \cup {m}
                           /\ m.p = old.p /\ m.key = old.key /\ m.state = "retired"
      BY <2>1, <2>2, MoveBuries
  <2>5. ~IsRevoked(Move(kr, old, "retired"), n.p, n.key)
      BY <1>1, <1>2, <2>4 DEF IsRevoked, InState, entries
  <2>6. Move(kr, old, "retired") \in SUBSET Entry
      BY <2>3 DEF Buries
  <2>7. Buries(Move(kr, old, "retired"), Move(kr, old, "retired") \cup {n})
      BY <2>5, <2>6, AddBuries
  <2> QED
      BY <1>4, <2>3, <2>7 DEF Buries
<1> QED
    BY <1>1, <1>2, <1>3, <1>4

LEMMA RetireBuries ==
    ASSUME NEW kr \in SUBSET Entry, NEW p, NEW k, retire(kr, p, k).ok
    PROVE  Buries(kr, retire(kr, p, k).kr)
<1> DEFINE e == CHOOSE x \in WithKey(kr, p, k) : TRUE
<1>1. /\ WithKey(kr, p, k) # {} /\ e.state = "retired"
      /\ retire(kr, p, k).kr = kr \ {e}
    BY DEF retire, Refuse, Accept
<1>2. e.state # "revoked"
    BY <1>1
<1> HIDE DEF e
<1>3. \A x : Dead(kr, x) => Dead(kr \ {e}, x)
    BY <1>2 DEF Dead
<1> QED
    BY <1>1, <1>3 DEF Buries

(* A file that loads has one line for a key.                               *)
OnePerKey(kr) == \A e, f \in kr : e.key = f.key => e = f

LEMMA RevokeBuries ==
    ASSUME NEW kr \in SUBSET Entry, NEW p, NEW k, OnePerKey(kr), revoke(kr, p, k).ok
    PROVE  Buries(kr, revoke(kr, p, k).kr) /\ Dead(revoke(kr, p, k).kr, <<p, k>>)
<1> DEFINE e == CHOOSE x \in WithKey(kr, p, k) : TRUE
<1>1. WithKey(kr, p, k) # {} /\ revoke(kr, p, k).kr = Move(kr, e, "revoked")
    BY DEF revoke, Refuse, Accept
<1>2. e \in kr /\ e.p = p /\ e.key = k
    BY <1>1 DEF WithKey, entries
<1> HIDE DEF e
<1>3. "revoked" \in KeyState
    BY DEF KeyState
<1>4. Buries(kr, Move(kr, e, "revoked"))
    BY <1>2, <1>3, MoveBuries
<1>5. PICK m \in Entry : /\ Move(kr, e, "revoked") = (kr \ {e}) \cup {m}
                         /\ m.p = e.p /\ m.key = e.key /\ m.state = "revoked"
    BY <1>2, <1>3, MoveBuries
<1>6. \A f \in (kr \ {e}) \cup {m} : f.key = k => f = m
    BY <1>2 DEF OnePerKey
<1>7. <<p, k>>[1] = p /\ <<p, k>>[2] = k
    OBVIOUS
<1>8. Dead((kr \ {e}) \cup {m}, <<p, k>>)
    BY <1>2, <1>5, <1>6, <1>7 DEF Dead
<1> QED
    BY <1>1, <1>4, <1>5, <1>8

LEMMA LoadedEntries ==
    ASSUME NEW L \in SUBSET Line
    PROVE  Parsed(L) \in SUBSET Entry /\ (Loadable(L) => OnePerKey(Parsed(L)))
<1>1. Parsed(L) \in SUBSET Entry
    BY ParsedLine DEF Parsed
<1>2. ASSUME Loadable(L), NEW e \in Parsed(L), NEW f \in Parsed(L), e.key = f.key
      PROVE  e = f
  <2>1. PICK l \in L : e = parse_line(l)
      BY DEF Parsed
  <2>2. PICK m \in L : f = parse_line(m)
      BY DEF Parsed
  <2>3. l[2] = m[2]
      BY <1>2, <2>1, <2>2, ParsedLine
  <2> QED
      BY <1>2, <2>1, <2>2, <2>3 DEF Loadable
<1> QED
    BY <1>1, <1>2 DEF OnePerKey

(* A command that revokes a key.                                           *)
Revokes(c) == c.verb \in {"revoke", "import-revocation"}

LEMMA ChangedBuries ==
    ASSUME NEW kr \in SUBSET Entry, OnePerKey(kr), NEW c \in PeerCommands, Changed(kr, c).ok
    PROVE  /\ Buries(kr, Changed(kr, c).kr)
           /\ Revokes(c) => Dead(Changed(kr, c).kr, <<c.p, c.key>>)
<1>1. /\ c.p \in Nat /\ c.key \in Nat
      /\ c.verb \in {"import", "rotate", "retire", "revoke", "import-revocation"}
    BY KeyringAssumption DEF PeerCommands
<1> ~Refuse(kr).ok
    BY DEF Refuse
<1>2. CASE c.verb = "import"
  <2>1. Changed(kr, c) = pin_tofu(kr, c.p, c.key) /\ ~Revokes(c)
      BY <1>2 DEF Changed, peer_import, Revokes
  <2> QED
      BY <1>1, <2>1, PinBuries
<1>3. CASE c.verb = "rotate"
  <2>1. ~Revokes(c) /\ Changed(kr, c) = peer_rotate(kr, c)
      BY <1>3 DEF Changed, Revokes
  <2>2. Changed(kr, c) = rotate_to(kr, c.p, c.key, c.flag)
      BY <2>1 DEF peer_rotate
  <2>3. rotate_to(kr, c.p, c.key, c.flag).ok
      BY <2>2
  <2>4. Buries(kr, rotate_to(kr, c.p, c.key, c.flag).kr)
      BY <1>1, <2>3, RotateBuries
  <2> QED
      BY <2>1, <2>2, <2>4
<1>4. CASE c.verb = "retire"
  <2>1. Changed(kr, c) = retire(kr, c.p, c.key) /\ ~Revokes(c)
      BY <1>4 DEF Changed, peer_retire, Revokes
  <2> QED
      BY <2>1, RetireBuries
<1>5. CASE Revokes(c)
  <2>1. \/ Changed(kr, c) = revoke(kr, c.p, c.key)
        \/ Changed(kr, c) = apply_signed_revocation(kr, c.p, c.key, c.by)
      BY <1>5 DEF Changed, peer_revoke, peer_import_revocation, Revokes
  <2>2. Changed(kr, c) = revoke(kr, c.p, c.key)
      BY <2>1 DEF apply_signed_revocation
  <2>3. revoke(kr, c.p, c.key).ok
      BY <2>2
  <2>4. /\ Buries(kr, revoke(kr, c.p, c.key).kr)
        /\ Dead(revoke(kr, c.p, c.key).kr, <<c.p, c.key>>)
      BY <2>3, RevokeBuries
  <2> QED
      BY <2>2, <2>4
<1> QED
    BY <1>1, <1>2, <1>3, <1>4, <1>5 DEF Revokes

-----------------------------------------------------------------------------
(* The keyring file, as long as no save was cut short or overlapped.       *)

(* No file is not a file with some lines.                                  *)
NoFile == Absent \notin SUBSET Line

LEMMA LinesOf ==
    ASSUME NoFile, NEW L \in SUBSET Line
    PROVE  Lines(L) = L
BY DEF NoFile, Lines

Tombs(lines, R) == \A x \in R : Dead(Parsed(lines), x)

(* From its load to the end of its save a command holds the only copy.     *)
Saving == {"truncate", "write", "rename"}

(* What must be dead when the command of o is through, and what the file   *)
(* holds then.                                                             *)
Due(o) ==
    IF pc[o] # "rename" /\ Revokes(loc[o].cmd)
    THEN revoked \cup {<<loc[o].cmd.p, loc[o].cmd.key>>} ELSE revoked
Written(o) == IF pc[o] = "write" THEN Lines(keyfile) \cup loc[o].lines ELSE loc[o].lines

OneSaver ==
    /\ \A o \in Operators : pc[o] # "detached"
    /\ \A o, q \in Operators : pc[o] \in Saving /\ pc[q] \in Saving => o = q

SaverInv(o) ==
    /\ loc[o].lines \in SUBSET Line
    /\ pc[o] # "rename" => loc[o] = [cmd |-> loc[o].cmd, lines |-> loc[o].lines]
    /\ Tombs(Written(o), Due(o))

FileInv ==
    /\ Lines(keyfile) \in SUBSET Line
    /\ (\A o \in Operators : pc[o] # "write") => Tombs(Lines(keyfile), revoked)

SaveInv == ~lost => /\ OneSaver /\ FileInv
                    /\ \A o \in Operators : pc[o] \in Saving => SaverInv(o)

(* A step that neither saves nor prepares a save.                          *)
Quiet ==
    /\ UNCHANGED <<keyfile, revoked>> /\ (lost => lost')
    /\ \A o \in Operators :
          /\ pc'[o] \in Saving \cup {"detached"} => pc'[o] = pc[o] /\ loc'[o] = loc[o]
          /\ pc[o] = "write" => pc'[o] = "write"

LEMMA QuietStep ==
    ASSUME SaveInv, Quiet
    PROVE  SaveInv'
<1> SUFFICES ASSUME ~lost'
             PROVE  /\ OneSaver' /\ FileInv'
                    /\ \A o \in Operators : pc'[o] \in Saving => SaverInv(o)'
    BY DEF SaveInv
<1>1. OneSaver /\ FileInv /\ \A o \in Operators : pc[o] \in Saving => SaverInv(o)
    BY DEF SaveInv, Quiet
<1>2. OneSaver'
    BY <1>1 DEF OneSaver, Quiet
<1>3. FileInv'
    BY <1>1 DEF FileInv, Quiet
<1>4. ASSUME NEW o \in Operators, pc'[o] \in Saving
      PROVE  SaverInv(o)'
  <2>1. pc'[o] = pc[o] /\ loc'[o] = loc[o] /\ keyfile' = keyfile /\ revoked' = revoked
      BY <1>4 DEF Quiet
  <2>2. SaverInv(o) /\ Due(o)' = Due(o) /\ Written(o)' = Written(o)
      BY <1>1, <1>4, <2>1 DEF Due, Written
  <2> QED
      BY <2>1, <2>2 DEF SaverInv
<1> QED
    BY <1>2, <1>3, <1>4

(* Commands that do not save, and those that are refused.                  *)
LEMMA QuietCommand ==
    ASSUME Shape, NEW o \in Operators,
           \/ \E c \in PairCommands : PairLock(o, c)
           \/ Export(o) \/ PairInvite(o) \/ PairRevoke(o) \/ StatusLoad(o) \/ StatusSave(o)
           \/ Unlock(o)
    PROVE  Quiet
<1>1. \A q \in Operators : q \in Procs
    BY DEF Procs
<1>2. UNCHANGED <<keyfile, revoked, lost>>
    BY DEF PairLock, Export, PairInvite, PairRevoke, StatusLoad, StatusSave, Unlock, files,
           history
<1>3. \A c \in PairCommands : c.verb \in {"invite", "revoke-all", "status", "revoke-id"}
    BY DEF PairCommands
<1>4. /\ pc[o] # "write"
      /\ \/ pc' = pc /\ loc' = loc
         \/ \E l \in {"invite", "revoke-all", "status", "revoke-id", "create", "unlock",
                     "pin", "idle"} :
               /\ pc' = [pc EXCEPT ![o] = l]
               /\ \A q \in Operators : q # o => loc'[q] = loc[q]
  <2>1. CASE \E c \in PairCommands : PairLock(o, c)
      BY <1>1, <1>3, <2>1 DEF PairLock, Idle, Goto, Shape
  <2>2. CASE Export(o) \/ PairInvite(o) \/ PairRevoke(o) \/ StatusSave(o)
      BY <2>2 DEF Export, PairInvite, PairRevoke, StatusSave, Goto, Idle
  <2>3. CASE StatusLoad(o) \/ Unlock(o)
      BY <1>1, <2>3 DEF StatusLoad, Unlock, Finish, Goto, Shape
  <2> QED
      BY <2>1, <2>2, <2>3
<1>5. CASE pc' = pc /\ loc' = loc
    BY <1>2, <1>5 DEF Quiet
<1>6. ASSUME NEW l \in {"invite", "revoke-all", "status", "revoke-id", "create", "unlock",
                        "pin", "idle"},
             pc' = [pc EXCEPT ![o] = l], \A q \in Operators : q # o => loc'[q] = loc[q]
      PROVE  Quiet
  <2>1. pc'[o] = l /\ \A q \in Operators : q # o => pc'[q] = pc[q]
      BY <1>1, <1>6 DEF Shape
  <2>2. l \notin Saving \cup {"detached"}
      BY DEF Saving
  <2> QED
      BY <1>2, <1>4, <1>6, <2>1, <2>2 DEF Quiet
<1> QED
    BY <1>4, <1>5, <1>6

LEMMA QuietElsewhere ==
    ASSUME Shape,
           \/ \E x \in Operators \cup {Gateway} : CreateIdentity(x) \/ FillIdentity(x)
           \/ GatewayStart \/ GatewayLoad \/ KillGateway
           \/ \E h \in Handlers : HandlerStep(h)
           \/ \E h \in Handlers, r \in Redeemers, code \in 0..MaxInvites, signed \in BOOLEAN :
                 Redeem(h, r, code, signed)
           \/ (\E r \in Redeemers : Unreachable(r)) \/ Tick \/ UNCHANGED vars
    PROVE  Quiet
<1>1. \A y \in Operators \cup Handlers \cup {Gateway} : y \in Procs
    BY DEF Procs
<1>2. Gateway \notin Operators /\ \A h \in Handlers : h \notin Operators
    BY TrustAssumption
<1>3. UNCHANGED <<keyfile, revoked, lost>>
    BY DEF CreateIdentity, FillIdentity, GatewayStart, GatewayLoad, KillGateway,
           HandlerStep, HandlerLock, burn_and_reject_wrong_code, accept_and_consume,
           HandlerAnswer, Redeem, Unreachable, Tick, files, history, vars
<1>4. ASSUME NEW x \in Operators \cup {Gateway}, CreateIdentity(x) \/ FillIdentity(x)
      PROVE  Quiet
  <2>1. loc' = loc /\ pc[x] # "write" /\ \E l \in {"fill", "idle", "load"} : pc' = [pc EXCEPT ![x] = l]
      BY <1>4 DEF CreateIdentity, FillIdentity, Goto
  <2>2. PICK l \in {"fill", "idle", "load"} : pc' = [pc EXCEPT ![x] = l]
      BY <2>1
  <2>3. pc'[x] = l /\ \A q \in Operators : q # x => pc'[q] = pc[q]
      BY <1>1, <2>2 DEF Shape
  <2>4. l \notin Saving \cup {"detached"}
      BY DEF Saving
  <2> QED
      BY <1>3, <2>1, <2>3, <2>4 DEF Quiet
<1>5. CASE \A q \in Operators : pc'[q] = pc[q] /\ loc'[q] = loc[q]
    BY <1>3, <1>5 DEF Quiet
<1>6. CASE GatewayStart \/ GatewayLoad \/ KillGateway
    BY <1>1, <1>2, <1>5, <1>6 DEF GatewayStart, GatewayLoad, KillGateway, Goto, Shape
<1>7. ASSUME NEW h \in Handlers, HandlerStep(h) PROVE Quiet
  <2>1. /\ pc' = pc \/ \E l : pc' = [pc EXCEPT ![h] = l]
        /\ loc' = loc \/ \E v : loc' = [loc EXCEPT ![h] = v]
      BY <1>7 DEF HandlerStep, HandlerLock, burn_and_reject_wrong_code, accept_and_consume,
                  HandlerAnswer, Answer, Finish, Goto
  <2> QED
      BY <1>1, <1>2, <1>5, <2>1 DEF Shape
<1>8. ASSUME NEW h \in Handlers, NEW r \in Redeemers, NEW code, NEW signed,
             Redeem(h, r, code, signed)
      PROVE  Quiet
  <2>1. /\ pc' = pc \/ \E l : pc' = [pc EXCEPT ![h] = l]
        /\ loc' = loc \/ \E v : loc' = [loc EXCEPT ![h] = v]
      BY <1>8 DEF Redeem, Goto
  <2> QED
      BY <1>1, <1>2, <1>5, <2>1 DEF Shape
<1>9. CASE (\E r \in Redeemers : Unreachable(r)) \/ Tick \/ UNCHANGED vars
    BY <1>5, <1>9 DEF Unreachable, Tick, vars
<1> QED
    BY <1>4, <1>6, <1>7, <1>8, <1>9

(* What o is about to save was made of the file as it is.                  *)
LEMMA LoadSaves ==
    ASSUME SaveInv, NEW o \in Operators, ~lost', pc[o] \notin Saving,
           lost' = (lost \/ Overlap(o)), UNCHANGED <<keyfile, revoked>>,
           \A q \in Operators : q # o => pc'[q] = pc[q] /\ loc'[q] = loc[q],
           pc'[o] \in {"truncate", "rename"}, NEW kr, Buries(Loaded(keyfile), kr),
           loc'[o].lines = Saved(kr),
           pc'[o] # "rename" => /\ loc'[o] = [cmd |-> loc'[o].cmd, lines |-> loc'[o].lines]
                                /\ Revokes(loc'[o].cmd) =>
                                     Dead(kr, <<loc'[o].cmd.p, loc'[o].cmd.key>>)
    PROVE  SaveInv'
<1>1. OneSaver /\ FileInv /\ ~Overlap(o)
    BY DEF SaveInv
<1>2. \A q \in Operators : q # o => pc'[q] \notin Saving
    BY <1>1 DEF Overlap, Saving
<1>3. OneSaver'
    BY <1>1, <1>2 DEF OneSaver
<1>4. Tombs(Lines(keyfile), revoked)
  <2>1. \A q \in Operators : pc[q] # "write"
      BY <1>1 DEF Overlap, Saving
  <2> QED
      BY <1>1, <2>1 DEF FileInv
<1>5. FileInv'
    BY <1>1, <1>4 DEF FileInv
<1>6. kr \in SUBSET Entry /\ \A x \in revoked : Dead(kr, x)
    BY <1>4 DEF Buries, Tombs, Loaded
<1>7. Saved(kr) \in SUBSET Line
    BY <1>6, SavedLine DEF Saved
<1>8. Written(o)' = Saved(kr)
    BY DEF Written
<1>9. \A x \in Due(o)' : Dead(kr, x)
    BY <1>6 DEF Due
<1>10. Tombs(Written(o)', Due(o)')
    BY <1>6, <1>8, <1>9, SavedDead DEF Tombs
<1>11. SaverInv(o)'
    BY <1>7, <1>10 DEF SaverInv, Tombs
<1> QED
    BY <1>2, <1>3, <1>5, <1>11 DEF SaveInv

LEMMA PeerLoadKeeps ==
    ASSUME Shape, SaveInv, NEW o \in Operators, NEW c \in PeerCommands, PeerLoad(o, c)
    PROVE  SaveInv'
<1> DEFINE kr == Loaded(keyfile)
           r  == Changed(kr, c)
<1>1. UNCHANGED <<keyfile, revoked>> /\ pc[o] = "idle" /\ \A q \in Operators : q \in Procs
    BY DEF PeerLoad, Idle, files, Procs
<1>2. CASE UNCHANGED <<pc, lost, loc>>
  <2>1. Quiet
      BY <1>1, <1>2 DEF Quiet
  <2> QED
      BY <2>1, QuietStep
<1>3. CASE /\ Loadable(Lines(keyfile)) /\ r.ok
           /\ Goto(o, "truncate") /\ lost' = (lost \/ Overlap(o))
           /\ loc' = [loc EXCEPT ![o] = [cmd |-> c, lines |-> Saved(r.kr)]]
  <2> SUFFICES ASSUME ~lost' PROVE SaveInv'
      BY DEF SaveInv
  <2>1. /\ pc'[o] = "truncate" /\ loc'[o] = [cmd |-> c, lines |-> Saved(r.kr)]
        /\ \A q \in Operators : q # o => pc'[q] = pc[q] /\ loc'[q] = loc[q]
      BY <1>1, <1>3 DEF Goto, Shape
  <2>2. kr \in SUBSET Entry /\ OnePerKey(kr) /\ r.ok
    <3>1. Lines(keyfile) \in SUBSET Line
        BY <1>3 DEF SaveInv, FileInv
    <3> QED
        BY <1>3, <3>1, LoadedEntries DEF Loaded
  <2> HIDE DEF kr
  <2>3. /\ Buries(kr, r.kr)
        /\ Revokes(c) => Dead(r.kr, <<c.p, c.key>>)
      BY <2>2, ChangedBuries
  <2> HIDE DEF r
  <2>4. PICK new : new = r.kr
      OBVIOUS
  <2>5. /\ loc'[o].lines = Saved(new) /\ loc'[o].cmd = c
        /\ loc'[o] = [cmd |-> loc'[o].cmd, lines |-> loc'[o].lines]
      BY SMTT(60), <2>1, <2>4
  <2>6. pc[o] \notin Saving /\ pc'[o] \in {"truncate", "rename"}
      BY <1>1, <2>1 DEF Saving
  <2>7. Buries(Loaded(keyfile), new) /\ lost' = (lost \/ Overlap(o))
      BY <1>3, <2>3, <2>4 DEF kr
  <2>8. Revokes(loc'[o].cmd) => Dead(new, <<loc'[o].cmd.p, loc'[o].cmd.key>>)
      BY <2>3, <2>4, <2>5
  <2> QED
      BY <1>1, <2>1, <2>5, <2>6, <2>7, <2>8, LoadSaves
<1> QED
    BY <1>2, <1>3 DEF PeerLoad

LEMMA StatusPinKeeps ==
    ASSUME Shape, StoreInv, SaveInv, NEW o \in Operators, StatusPin(o)
    PROVE  SaveInv'
<1> DEFINE i  == First(loc[o].todo)
           by == loc[o].store[i].by
           kr == Loaded(keyfile)
           r  == rotate_to(kr, by.p, by.key, loc[o].cmd.flag)
<1>1. /\ UNCHANGED <<keyfile, revoked>> /\ pc[o] = "pin" /\ lost' = (lost \/ Overlap(o))
      /\ \A q \in Operators : q \in Procs
    BY DEF StatusPin, files, Procs
<1>2. CASE \/ Goto(o, "unlock") /\ UNCHANGED loc
           \/ UNCHANGED pc /\ loc' = [loc EXCEPT ![o].todo = @ \ {i}]
  <2> HIDE DEF i
  <2>1. /\ pc'[o] \in {"unlock", "pin"}
        /\ \A q \in Operators : q # o => pc'[q] = pc[q] /\ loc'[q] = loc[q]
      BY <1>1, <1>2 DEF Goto, Shape
  <2>2. pc'[o] \notin Saving \cup {"detached"}
      BY <2>1 DEF Saving
  <2>3. Quiet
      BY <1>1, <2>1, <2>2 DEF Quiet
  <2> QED
      BY <2>3, QuietStep
<1>3. CASE /\ Loadable(Lines(keyfile)) /\ r.ok /\ Goto(o, "rename")
           /\ loc' = [loc EXCEPT ![o] = [cmd |-> @.cmd, store |-> @.store, done |-> @.done,
                                         todo |-> @.todo, lines |-> Saved(r.kr)]]
  <2> SUFFICES ASSUME ~lost' PROVE SaveInv'
      BY DEF SaveInv
  <2>1. /\ pc'[o] = "rename" /\ loc'[o].lines = Saved(r.kr)
        /\ \A q \in Operators : q # o => pc'[q] = pc[q] /\ loc'[q] = loc[q]
      BY <1>1, <1>3 DEF Goto, Shape
  <2>2. by.p \in Nat /\ by.key \in Nat
    <3>1. /\ loc[o].store = store /\ loc[o].todo # {}
          /\ \A j \in loc[o].todo : j \in DOMAIN store /\ store[j].state = "Redeemed"
        BY <1>1 DEF StatusPin, StoreInv, StatusInv
    <3>2. loc[o].todo \in SUBSET Nat
        BY SMTT(60), <3>1 DEF StoreInv, StoreType
    <3>3. i \in loc[o].todo
        BY <3>1, <3>2, Minimum DEF First
    <3> HIDE DEF i
    <3>4. by \in Redeemers
        BY <3>1, <3>3 DEF StoreInv, RedeemInv
    <3> QED
        BY <3>4, FileAssumption
  <2>3. kr \in SUBSET Entry
    <3>1. Lines(keyfile) \in SUBSET Line
        BY <1>1 DEF SaveInv, FileInv
    <3> QED
        BY <3>1, LoadedEntries DEF Loaded
  <2> HIDE DEF kr, by
  <2>4. Buries(kr, r.kr)
      BY <1>3, <2>2, <2>3, RotateBuries
  <2> HIDE DEF r
  <2>5. PICK new : new = r.kr
      OBVIOUS
  <2>6. Buries(Loaded(keyfile), new) /\ loc'[o].lines = Saved(new)
      BY <2>1, <2>4, <2>5 DEF kr
  <2>7. pc[o] \notin Saving /\ pc'[o] \in {"truncate", "rename"} /\ pc'[o] = "rename"
      BY <1>1, <2>1 DEF Saving
  <2> QED
      BY <1>1, <2>1, <2>6, <2>7, LoadSaves
<1> QED
    BY <1>2, <1>3 DEF StatusPin

(* The save of `famp peer': what is written and what is left are the whole *)
(* file, so no entry that a tombstone replaced shows up on the way.        *)
LEMMA TruncateKeeps ==
    ASSUME Shape, SaveInv, NEW o \in Operators, PeerTruncate(o)
    PROVE  SaveInv'
<1>1. /\ pc[o] = "truncate" /\ keyfile' = {} /\ loc' = loc /\ revoked' = revoked /\ lost' = lost
      /\ pc'[o] = "write" /\ \A q \in Operators : q # o => pc'[q] = pc[q]
    BY DEF PeerTruncate, Goto, history, Shape, Procs
<1> SUFFICES ASSUME ~lost
             PROVE  /\ OneSaver' /\ FileInv'
                    /\ \A q \in Operators : pc'[q] \in Saving => SaverInv(q)'
    BY <1>1 DEF SaveInv
<1>2. OneSaver /\ SaverInv(o)
    BY <1>1 DEF SaveInv, Saving
<1>3. \A q \in Operators : q # o => pc'[q] \notin Saving /\ pc'[q] # "detached"
    BY <1>1, <1>2 DEF OneSaver, Saving
<1>4. OneSaver'
    BY <1>1, <1>3 DEF OneSaver
<1>5. Lines(keyfile') = {}
    BY <1>1 DEF Lines
<1>6. FileInv'
    BY <1>1, <1>5 DEF FileInv
<1>7. Written(o)' = Written(o) /\ Due(o)' = Due(o)
    BY <1>1, <1>5 DEF Written, Due
<1>8. SaverInv(o)'
    BY <1>1, <1>2, <1>7 DEF SaverInv
<1> QED
    BY <1>3, <1>4, <1>6, <1>8

LEMMA WriteLineKeeps ==
    ASSUME NoFile, Shape, SaveInv, NEW o \in Operators, PeerWriteLine(o)
    PROVE  SaveInv'
<1>1. /\ pc[o] = "write" /\ loc[o].lines # {} /\ UNCHANGED <<pc, revoked, lost>>
      /\ \A q \in Operators : q \in Procs
    BY DEF PeerWriteLine, history, Procs
<1>2. PICK line : /\ line = NextLine(loc[o].lines)
                  /\ keyfile' = Lines(keyfile) \cup {line}
                  /\ loc' = [loc EXCEPT ![o].lines = @ \ {line}]
    BY DEF PeerWriteLine
<1> SUFFICES ASSUME ~lost
             PROVE  /\ OneSaver' /\ FileInv'
                    /\ \A q \in Operators : pc'[q] \in Saving => SaverInv(q)'
    BY <1>1 DEF SaveInv
<1>3. OneSaver /\ FileInv /\ SaverInv(o)
    BY <1>1 DEF SaveInv, Saving
<1>4. OneSaver'
    BY <1>1, <1>3 DEF OneSaver
<1>5. \A q \in Operators : q # o => pc'[q] \notin Saving
    BY <1>1, <1>3 DEF OneSaver, Saving
<1>6. /\ loc'[o].lines = loc[o].lines \ {line} /\ loc'[o].cmd = loc[o].cmd
      /\ loc'[o] = [cmd |-> loc'[o].cmd, lines |-> loc'[o].lines]
  <2>1. loc'[o] = [loc[o] EXCEPT !.lines = loc[o].lines \ {line}]
      BY <1>1, <1>2 DEF Shape
  <2>2. loc[o] = [cmd |-> loc[o].cmd, lines |-> loc[o].lines]
      BY <1>1, <1>3 DEF SaverInv
  <2>3. PICK c, L, M : c = loc[o].cmd /\ L = loc[o].lines /\ M = L \ {line}
      OBVIOUS
  <2>4. PICK v : v = loc[o] /\ v = [cmd |-> c, lines |-> L]
      BY <2>2, <2>3
  <2>5. loc'[o] = [v EXCEPT !.lines = M]
      BY <2>1, <2>3, <2>4
  <2>6. [v EXCEPT !.lines = M] = [cmd |-> c, lines |-> M]
      BY SMTT(60), <2>4
  <2> QED
      BY SMTT(60), <2>3, <2>5, <2>6
<1>7. line \in loc[o].lines /\ loc[o].lines \in SUBSET Line
    BY <1>1, <1>2, <1>3, NextIsLeft DEF SaverInv
<1>8. Lines(keyfile) \cup {line} \in SUBSET Line
    BY <1>3, <1>7 DEF FileInv
<1>9. Lines(keyfile') = Lines(keyfile) \cup {line}
    BY <1>2, <1>8, LinesOf
<1>10. FileInv'
    BY <1>1, <1>8, <1>9 DEF FileInv
<1>11. Written(o)' = Written(o) /\ Due(o)' = Due(o)
  <2>1. Written(o)' = Lines(keyfile') \cup loc'[o].lines
      BY <1>1 DEF Written
  <2>2. Written(o) = Lines(keyfile) \cup loc[o].lines
      BY <1>1 DEF Written
  <2>3. Lines(keyfile') \cup loc'[o].lines = Lines(keyfile) \cup loc[o].lines
      BY <1>6, <1>7, <1>9
  <2>4. Due(o)' = Due(o)
      BY <1>1, <1>6 DEF Due
  <2> QED
      BY <2>1, <2>2, <2>3, <2>4
<1>12. SaverInv(o)'
  <2>1. loc'[o].lines \in SUBSET Line
      BY <1>6, <1>7
  <2> QED
      BY <1>3, <1>6, <1>11, <2>1 DEF SaverInv
<1> QED
    BY <1>4, <1>5, <1>10, <1>12

(* Nothing is left to write: what was due is dead in the file.             *)
LEMMA EndKeeps ==
    ASSUME Shape, SaveInv, NEW o \in Operators, pc[o] = "write", loc[o].lines = {},
           Finish(o), UNCHANGED <<keyfile, lost>>, revoked' \subseteq Due(o)
    PROVE  SaveInv'
<1> SUFFICES ASSUME ~lost
             PROVE  /\ OneSaver' /\ FileInv'
                    /\ \A q \in Operators : pc'[q] \in Saving => SaverInv(q)'
    BY DEF SaveInv
<1>1. pc'[o] = "idle" /\ \A q \in Operators : q # o => pc'[q] = pc[q]
    BY DEF Finish, Goto, Shape, Procs
<1>2. OneSaver /\ FileInv /\ SaverInv(o)
    BY DEF SaveInv, Saving
<1>3. \A q \in Operators : pc'[q] \notin Saving /\ pc'[q] # "detached"
    BY <1>1, <1>2 DEF OneSaver, Saving
<1>4. OneSaver'
    BY <1>3 DEF OneSaver
<1>5. Written(o) = Lines(keyfile)
    BY DEF Written
<1>6. Tombs(Lines(keyfile), Due(o))
    BY <1>2, <1>5 DEF SaverInv
<1>7. FileInv'
    BY <1>2, <1>6 DEF FileInv, Tombs
<1> QED
    BY <1>3, <1>4, <1>7

LEMMA DoneKeeps ==
    ASSUME Shape, SaveInv, NEW o \in Operators, PeerDone(o)
    PROVE  SaveInv'
<1>1. Finish(o) /\ UNCHANGED <<keyfile, lost>>
    BY DEF PeerDone, files
<1>2. CASE lost
    BY <1>1, <1>2 DEF SaveInv
<1>3. CASE pc[o] = "write" /\ loc[o].lines = {}
  <2>1. revoked' \subseteq Due(o)
      BY <1>3 DEF PeerDone, Due, Revokes
  <2> QED
      BY <1>1, <1>3, <2>1, EndKeeps
<1>4. CASE ~lost /\ pc[o] = "detached"
    BY <1>4 DEF SaveInv, OneSaver
<1> QED
    BY <1>2, <1>3, <1>4 DEF PeerDone

LEMMA KillKeeps ==
    ASSUME Shape, SaveInv, NEW o \in Operators, KillCommand(o)
    PROVE  SaveInv'
<1>1. Finish(o) /\ revoked' = revoked
    BY DEF KillCommand
<1>2. CASE pc[o] = "write" /\ loc[o].lines # {}
    BY <1>2 DEF KillCommand, SaveInv
<1>3. CASE pc[o] = "write" /\ loc[o].lines = {}
  <2>1. UNCHANGED <<keyfile, lost>> /\ revoked' \subseteq Due(o)
      BY <1>1, <1>3 DEF KillCommand, Due
  <2> QED
      BY <1>1, <1>3, <2>1, EndKeeps
<1>4. CASE pc[o] # "write"
  <2>1. UNCHANGED <<keyfile, lost>>
      BY <1>4 DEF KillCommand
  <2>2. pc'[o] = "idle" /\ \A q \in Operators : q # o => pc'[q] = pc[q] /\ loc'[q] = loc[q]
      BY <1>1 DEF Finish, Goto, Shape, Procs
  <2>3. pc'[o] \notin Saving \cup {"detached"}
      BY <2>2 DEF Saving
  <2>4. Quiet
      BY <1>1, <1>4, <2>1, <2>2, <2>3 DEF Quiet
  <2> QED
      BY <2>4, QuietStep
<1> QED
    BY <1>2, <1>3, <1>4

(* `famp pair status' replaces the file in one step.                       *)
LEMMA RenameKeeps ==
    ASSUME NoFile, Shape, SaveInv, NEW o \in Operators, StatusRename(o)
    PROVE  SaveInv'
<1>1. pc[o] = "rename" /\ keyfile' = loc[o].lines /\ UNCHANGED <<revoked, lost>>
    BY DEF StatusRename, history
<1> SUFFICES ASSUME ~lost
             PROVE  /\ OneSaver' /\ FileInv'
                    /\ \A q \in Operators : pc'[q] \in Saving => SaverInv(q)'
    BY <1>1 DEF SaveInv
<1>2. OneSaver /\ SaverInv(o)
    BY <1>1 DEF SaveInv, Saving
<1>3. \A q \in Operators : q # o => pc[q] \notin Saving /\ pc[q] # "detached"
    BY <1>1, <1>2 DEF OneSaver, Saving
<1>4. \A q \in Operators : q # o => pc'[q] = pc[q]
    BY <1>3 DEF StatusRename, Saving, Procs
<1>5. pc'[o] = "pin"
    BY DEF StatusRename, Procs
<1>6. \A q \in Operators : pc'[q] \notin Saving /\ pc'[q] # "detached"
    BY <1>3, <1>4, <1>5 DEF Saving
<1>7. OneSaver'
    BY <1>6 DEF OneSaver
<1>8. loc[o].lines \in SUBSET Line /\ Tombs(loc[o].lines, revoked)
    BY <1>1, <1>2 DEF SaverInv, Written, Due
<1>9. Lines(keyfile') = loc[o].lines
    BY <1>1, <1>8, LinesOf
<1>10. FileInv'
    BY <1>1, <1>8, <1>9 DEF FileInv, Tombs
<1> QED
    BY <1>6, <1>7, <1>10

LEMMA SaveInvariant ==
    ASSUME NoFile
    PROVE  Spec => []SaveInv
<1>1. Init => SaveInv
  <2> SUFFICES ASSUME Init PROVE OneSaver /\ FileInv /\ \A o \in Operators : pc[o] \notin Saving
      BY DEF SaveInv
  <2>1. \A o \in Operators : pc[o] = "idle"
      BY DEF Init, Procs
  <2>2. revoked = {} /\ keyfile \in Peered
      BY DEF Init
  <2>3. Lines(keyfile) \in SUBSET Line
      BY <2>2, FileAssumption DEF Lines
  <2> QED
      BY <2>1, <2>2, <2>3 DEF OneSaver, FileInv, Saving, Tombs
<1>2. TrustInv /\ SaveInv /\ [Next]_vars => SaveInv'
  <2> SUFFICES ASSUME TrustInv, SaveInv, [Next]_vars PROVE SaveInv'
      OBVIOUS
  <2>1. Shape /\ StoreInv
      BY DEF TrustInv
  <2>2. ASSUME NEW o \in Operators,
               \/ \E c \in PeerCommands : PeerLoad(o, c)
               \/ \E c \in PairCommands : PairLock(o, c)
               \/ Export(o) \/ CommandStep(o) \/ KillCommand(o)
        PROVE  SaveInv'
    <3>1. CASE \/ \E c \in PairCommands : PairLock(o, c)
               \/ Export(o) \/ PairInvite(o) \/ PairRevoke(o) \/ StatusLoad(o) \/ StatusSave(o)
               \/ Unlock(o)
        BY <2>1, <3>1, QuietCommand, QuietStep
    <3>2. CASE \E c \in PeerCommands : PeerLoad(o, c)
        BY <2>1, <3>2, PeerLoadKeeps
    <3>3. CASE PeerTruncate(o) \/ PeerWriteLine(o) \/ PeerDone(o) \/ KillCommand(o)
        BY <2>1, <3>3, TruncateKeeps, WriteLineKeeps, DoneKeeps, KillKeeps
    <3>4. CASE StatusPin(o) \/ StatusRename(o)
        BY <2>1, <3>4, StatusPinKeeps, RenameKeeps
    <3> QED
        BY <2>2, <3>1, <3>2, <3>3, <3>4 DEF CommandStep
  <2>3. CASE \/ \E x \in Operators \cup {Gateway} : CreateIdentity(x) \/ FillIdentity(x)
             \/ GatewayStart \/ GatewayLoad \/ KillGateway
             \/ \E h \in Handlers : HandlerStep(h)
             \/ \E h \in Handlers, r \in Redeemers, code \in 0..MaxInvites, signed \in BOOLEAN :
                   Redeem(h, r, code, signed)
             \/ (\E r \in Redeemers : Unreachable(r)) \/ Tick \/ UNCHANGED vars
      BY <2>1, <2>3, QuietElsewhere, QuietStep
  <2> QED
      BY <2>2, <2>3 DEF Next
<1> QED
    BY <1>1, <1>2, TrustInvariant, PTL DEF Spec

-----------------------------------------------------------------------------
(* The theorems.                                                           *)

(* Every redeemer that pinned the inviter is named by an invite of the     *)
(* store, however many handlers, redeemers, operators and crashes there    *)
(* are: accept_and_consume saves before the answer leaves, and a record    *)
(* that names somebody is never given to somebody else.                    *)
THEOREM Redemption == Spec => []OneRedemption
<1>1. TrustInv => OneRedemption
    BY DEF TrustInv, StoreInv, RedeemInv
<1> QED
    BY <1>1, TrustInvariant, PTL

(* No invite is redeemed after MAX_ATTEMPTS guesses were told that they    *)
(* are wrong while it was open: such a guess is charged under the lock     *)
(* before it is answered, and the budget is looked at again under the lock *)
(* before the code is consumed.  A guess that finds the lock taken is not  *)
(* charged; its answer is the one a right code gets.                       *)
THEOREM Budget == Spec => []BudgetHolds
<1>1. TrustInv => BudgetHolds
    BY DEF TrustInv, StoreInv, BudgetInv, BudgetHolds
<1> QED
    BY <1>1, TrustInvariant, PTL

(* The invite `famp pair status' pins next is Redeemed in the store as it  *)
(* is on disk at that moment, so a revocation is never overtaken: the copy *)
(* the command read stays current as long as it holds the lockfile.        *)
THEOREM PinsOnlyRedeemed == Spec => []RevokedNeverPinned
<1>1. TrustInv => RevokedNeverPinned
  <2> SUFFICES ASSUME TrustInv, NEW o \in Operators, pc[o] = "rename"
               PROVE  store[First(loc[o].todo)].state = "Redeemed"
      BY DEF RevokedNeverPinned
  <2>1. /\ loc[o].todo # {}
        /\ \A i \in loc[o].todo : i \in DOMAIN store /\ store[i].state = "Redeemed"
      BY DEF TrustInv, StoreInv, StatusInv
  <2>2. loc[o].todo \subseteq Nat
      BY SMTT(60), <2>1 DEF TrustInv, StoreInv, StoreType
  <2>3. \E i \in loc[o].todo : \A j \in loc[o].todo : i <= j
      BY <2>1, <2>2, Minimum
  <2>4. First(loc[o].todo) \in loc[o].todo
      BY <2>3 DEF First
  <2> QED
      BY <2>1, <2>4
<1> QED
    BY <1>1, TrustInvariant, PTL

(* What `famp pair status' renames into place is a keyring that was read   *)
(* back before, so the gateway can start on it.                            *)
THEOREM PairingLoads == Spec => PairKeepsLoadable
<1>1. TrustInv /\ [Next]_vars => [\A o \in Operators : StatusRename(o) => Loadable(keyfile')]_vars
    BY DEF TrustInv, StoreInv, StatusInv, StatusRename
<1> QED
    BY <1>1, TrustInvariant, PTL DEF Spec, PairKeepsLoadable

(* A key that a command revoked is never the active key of its principal   *)
(* again, for every number of operators, principals, keys, commands and    *)
(* crashes, as long as no save was cut short or overlapped another: every  *)
(* change of the keyring keeps its tombstones, a line is loaded as the     *)
(* entry it was saved from, and while the file is rewritten line by line   *)
(* what is written and what is left are the changed keyring.               *)
THEOREM RevokedStays ==
    ASSUME NoFile
    PROVE  Spec => []NoResurrection
<1>1. SaveInv => NoResurrection
  <2> SUFFICES ASSUME SaveInv, ~lost, NEW x \in revoked, x[2] \in get(Loaded(keyfile), x[1])
               PROVE  FALSE
      BY DEF NoResurrection
  <2>1. PICK e \in Parsed(Lines(keyfile)) :
               e.p = x[1] /\ e.key = x[2] /\ e.state = "active"
      BY DEF get, InState, entries, Loaded
  <2>2. \A q \in Operators : pc[q] # "write"
    <3> SUFFICES ASSUME NEW q \in Operators, pc[q] = "write" PROVE FALSE
        OBVIOUS
    <3>1. Tombs(Lines(keyfile) \cup loc[q].lines, Due(q)) /\ x \in Due(q)
        BY DEF SaveInv, Saving, SaverInv, Written, Due
    <3>2. e \in Parsed(Lines(keyfile) \cup loc[q].lines)
        BY <2>1 DEF Parsed
    <3> QED
        BY <2>1, <3>1, <3>2 DEF Tombs, Dead
  <2>3. Dead(Parsed(Lines(keyfile)), x)
      BY <2>2 DEF SaveInv, FileInv, Tombs
  <2> QED
      BY <2>1, <2>3 DEF Dead
<1> QED
    BY <1>1, SaveInvariant, PTL

(* Once an identity is in its file it stays there: the file is created     *)
(* exclusively, so whoever fills it is the only one and nobody filled it   *)
(* before (load_or_generate).                                              *)
THEOREM IdentityStays == Spec => IdentityStable
<1>1. TrustInv /\ [Next]_vars => [(ident \in Procs) => (ident' = ident)]_vars
  <2> SUFFICES ASSUME TrustInv, [Next]_vars, ident \in Procs
               PROVE  ident' = ident
      OBVIOUS
  <2>1. ident # Absent /\ ident # Torn
      BY TrustAssumption
  <2>2. ASSUME NEW x \in Operators \cup {Gateway}, CreateIdentity(x) \/ FillIdentity(x)
        PROVE  ident' = ident
    <3>1. x \in Procs
        BY DEF Procs
    <3>2. pc[x] # "fill"
        BY <2>1, <3>1 DEF TrustInv, Small, FillInv
    <3> QED
        BY <2>1, <2>2, <3>2 DEF CreateIdentity, FillIdentity
  <2>3. ASSUME NEW o \in Operators,
               \/ \E c \in PeerCommands : PeerLoad(o, c)
               \/ \E c \in PairCommands : PairLock(o, c)
               \/ Export(o) \/ CommandStep(o) \/ KillCommand(o)
        PROVE  ident' = ident
      BY <2>3 DEF PeerLoad, PairLock, Export, CommandStep, KillCommand, PeerTruncate,
             PeerWriteLine, PeerDone, PairInvite, PairRevoke, StatusLoad, StatusPin,
             StatusRename, StatusSave, Unlock, files
  <2>4. ASSUME NEW h \in Handlers,
               \/ HandlerStep(h)
               \/ \E r \in Redeemers, code \in 0..MaxInvites, signed \in BOOLEAN :
                     Redeem(h, r, code, signed)
        PROVE  ident' = ident
      BY <2>4 DEF HandlerStep, HandlerLock, burn_and_reject_wrong_code,
         accept_and_consume,
             HandlerAnswer, Redeem, files
  <2>5. CASE \/ GatewayStart \/ GatewayLoad \/ KillGateway
             \/ (\E r \in Redeemers : Unreachable(r)) \/ Tick \/ UNCHANGED vars
      BY <2>5 DEF GatewayStart, GatewayLoad, KillGateway, Unreachable, Tick, files, vars
  <2> QED
      BY <2>2, <2>3, <2>4, <2>5 DEF Next
<1> QED
    BY <1>1, TrustInvariant, PTL DEF Spec, IdentityStable
=============================================================================
