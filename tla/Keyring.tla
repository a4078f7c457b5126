------------------------------- MODULE Keyring -------------------------------
(***************************************************************************)
(* The trust store of famp-keyring: which keys are pinned for which        *)
(* principals, in which state, and the file that holds them.               *)
(*                                                                         *)
(* A keyring is the set of its entries.  The order of a principal's        *)
(* entries is not kept: every lookup of the code is by state or by key,    *)
(* and a file is refused unless those are unique.  Instants are numbers,   *)
(* always canonical, so the NonCanonicalNow and NonCanonicalTimestamp      *)
(* refusals do not arise; pinned_at and state_since decide nothing.        *)
(* Principals and keys are numbers in the order in which they are saved.   *)
(*                                                                         *)
(* An operation that can refuse returns [ok, kr]: the keyring is unchanged *)
(* when ok is false.                                                       *)
(***************************************************************************)
EXTENDS Integers, Sequences, FiniteSets

CONSTANTS
    Principals,     \* remote principals, as numbers
    Keys            \* public keys, as numbers

ASSUME KeyringAssumption == Principals \subseteq Nat /\ Keys \subseteq Nat

(* An entry that never expires has no valid_until.                         *)
Never == -1

KeyState == {"active", "retired", "revoked"}

(* An entry is dated when pinned_at or state_since is known.               *)
KeyEntry == [p : Principals, key : Keys, state : KeyState, until : Int,
             dated : BOOLEAN]

legacy(p, k) == [p |-> p, key |-> k, state |-> "active", until |-> Never,
                 dated |-> FALSE]

(* The entry that rotate_to pins: the commands never give an expiry.       *)
Pinned(p, k) == [legacy(p, k) EXCEPT !.dated = TRUE]

entries(kr, p)     == {e \in kr : e.p = p}
InState(kr, p, s)  == {e \in entries(kr, p) : e.state = s}
WithKey(kr, p, k)  == {e \in entries(kr, p) : e.key = k}

Refuse(kr)     == [ok |-> FALSE, kr |-> kr]
Accept(kr)     == [ok |-> TRUE, kr |-> kr]

(* The entry e of kr moved to state s, with its key kept.                  *)
Move(kr, e, s) ==
    (kr \ {e}) \cup {[e EXCEPT !.state = s, !.dated = @ \/ e.state # s]}

-----------------------------------------------------------------------------
(* Lookups.                                                                *)

(* Presence only, whatever the expiry.                                     *)
get(kr, p) == {e.key : e \in InState(kr, p, "active")}

(* The time-aware trust decision: what is known of principal p at `now'.   *)
active_key(kr, p, now) ==
    IF InState(kr, p, "active") # {}
    THEN LET e == CHOOSE x \in InState(kr, p, "active") : TRUE
         IN  IF e.until # Never /\ e.until <= now
             THEN [outcome |-> "Expired"]
             ELSE [outcome |-> "Active", key |-> e.key]
    ELSE IF InState(kr, p, "revoked") # {} THEN [outcome |-> "Revoked"]
    ELSE IF InState(kr, p, "retired") # {} THEN [outcome |-> "Retired"]
    ELSE [outcome |-> "Unpinned"]

-----------------------------------------------------------------------------
(* Changes.                                                                *)

IsRevoked(kr, p, k) == \E e \in InState(kr, p, "revoked") : e.key = k

(* Mutant: a tombstone does not stop a new pin of its key.                 *)
M_pin_tofu(kr, p, k) ==
    LET active == InState(kr, p, "active")
    IN  IF active = {} THEN Accept(kr \cup {legacy(p, k)})
        ELSE IF \E e \in active : e.key # k THEN Refuse(kr)
        ELSE Accept(kr)

(* First-sight pin: a different active key is a conflict.                  *)
pin_tofu(kr, p, k) ==
    LET active == InState(kr, p, "active")
    IN  IF IsRevoked(kr, p, k) THEN Refuse(kr)
        ELSE IF \E e \in active : e.key # k THEN Refuse(kr)
        ELSE IF active # {} THEN Accept(kr)
        ELSE Accept(kr \cup {legacy(p, k)})

(* The only change of a pinned key, and only when it is confirmed.         *)
rotate_to(kr, p, k, confirmed) ==
    LET active == InState(kr, p, "active")
        old    == CHOOSE e \in active : TRUE
    IN  IF IsRevoked(kr, p, k) THEN Refuse(kr)
        ELSE IF active = {} THEN Accept(kr \cup {Pinned(p, k)})
        ELSE IF old.key = k THEN Accept(kr)
        ELSE IF ~confirmed THEN Refuse(kr)
        ELSE Accept(Move(kr, old, "retired") \cup {Pinned(p, k)})

(* The only removal, and only of a retired entry.                          *)
retire(kr, p, k) ==
    LET found == WithKey(kr, p, k)
        e     == CHOOSE x \in found : TRUE
    IN  IF found = {} \/ e.state # "retired" THEN Refuse(kr)
        ELSE Accept(kr \ {e})

revoke(kr, p, k) ==
    LET found == WithKey(kr, p, k)
        e     == CHOOSE x \in found : TRUE
    IN  IF found = {} THEN Refuse(kr)
        ELSE Accept(Move(kr, e, "revoked"))

(* The keys whose signature on a revocation of k counts: the active one,   *)
(* and k itself unless it is revoked.                                      *)
authorized_signer_for(kr, p, k) ==
    {e.key : e \in {x \in entries(kr, p) :
                      /\ x.state # "revoked"
                      /\ x.state = "active" \/ x.key = k}}

(* A statement revokes key k of p and carries signer's signature.          *)
apply_signed_revocation(kr, p, k, signer) ==
    IF \/ WithKey(kr, p, k) = {}
       \/ signer \notin authorized_signer_for(kr, p, k)
    THEN Refuse(kr)
    ELSE revoke(kr, p, k)

-----------------------------------------------------------------------------
(* The file.  A file is the set of its lines, and a line the sequence of   *)
(* its fields: principal and key, and in a line of the newer form state    *)
(* and valid_until (the two timestamps that decide nothing are left out).  *)

is_legacy_shaped(e) == e.state = "active" /\ e.until = Never /\ ~e.dated

serialize_entry(e) ==
    IF is_legacy_shaped(e) THEN <<e.p, e.key>> ELSE <<e.p, e.key, e.state, e.until>>

(* The forms a line is saved in.                                           *)
Line == (Nat \X Nat) \cup (Nat \X Nat \X KeyState \X Int)

(* Two fields mean an active key without an expiry; any number of fields   *)
(* other than the two forms is malformed.                                  *)
WellFormed(l) == Len(l) \in {2, 4}

parse_line(l) ==
    IF Len(l) = 2 THEN legacy(l[1], l[2])
    ELSE [p |-> l[1], key |-> l[2], state |-> l[3], until |-> l[4], dated |-> TRUE]

(* What is left of a line when only the first part of it gets to the disk. *)
Cut(l) == {SubSeq(l, 1, n) : n \in 1..Len(l) - 1}

Parsed(lines) == {parse_line(l) : l \in lines}

(* load_from_file accepts a file with at most one active entry for a       *)
(* principal and at most one line for a key.                               *)
Loadable(lines) ==
    /\ \A l \in lines : WellFormed(l)
    /\ \A p \in Principals : Cardinality(InState(Parsed(lines), p, "active")) <= 1
    /\ \A x, y \in lines : x[2] = y[2] => x = y

(* The lines that save_to_file writes, and the one it writes first.        *)
Saved(kr) == {serialize_entry(e) : e \in kr}

NextLine(lines) ==
    CHOOSE x \in lines : \A y \in lines : \/ x[1] < y[1]
                                          \/ x[1] = y[1] /\ x[2] <= y[2]
=============================================================================
