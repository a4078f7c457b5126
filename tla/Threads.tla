------------------------------ MODULE Threads --------------------------------
(***************************************************************************)
(* A conversation from `famp send' / famp_send to what the readers make of  *)
(* it: the envelope a send builds, the decoder every drain passes it        *)
(* through, the task state machine of famp-fsm, and the labels that         *)
(* `famp inspect' and famp_inbox derive.  Operators only.                    *)
(***************************************************************************)
EXTENDS Naturals, Sequences, FiniteSets

CONSTANTS
    None,
    Refused,       \* a send that was rejected before anything reached the bus
    Odd,           \* a value that is not of the type it should have
    Hash,          \* any name that begins with '#'
    Chan,          \* the channel, and the name of its mailbox
    Legal,         \* names that are a principal's name; any other may register
    NameOrder      \* the mailboxes in the order of their names

-----------------------------------------------------------------------------
(* Who sends: --as, $FAMP_LOCAL_IDENTITY, the row of wires.tsv for the cwd. *)

FirstSet(s) ==
    LET t == SelectSeq(s, LAMBDA x : x # None) IN IF t = <<>> THEN None ELSE t[1]

reject_channel_name(n) == IF n = Hash THEN Refused ELSE n

lookup_wires_tsv(rows, cwd) ==
    LET here == SelectSeq(rows, LAMBDA r : r.dir # None /\ r.name # None /\ r.dir = cwd)
    IN  IF here = <<>> THEN None ELSE here[1].name

resolve_identity(act_as, e) ==
    LET n == FirstSet(<<act_as, e.env, lookup_wires_tsv(e.wires, e.cwd)>>)
    IN  IF n = None THEN Refused ELSE reject_channel_name(n)

\* An invalid domain is not passed over for a later source.
read_own_domain_file(e) == e.domain_file

resolve_own_domain(e) ==
    LET d == FirstSet(<<e.domain_env, read_own_domain_file(e)>>)
    IN  IF d \in {None, Odd} THEN Refused ELSE d

-----------------------------------------------------------------------------
(* famp_send's arguments. *)

NewTask == [new_task |-> TRUE, task |-> None, terminal |-> FALSE]

OnTask(t, terminal) == [new_task |-> FALSE, task |-> t, terminal |-> terminal]

parse_input(i) ==
    LET what ==
            CASE i.mode \in {"open", "new_task", "yield"} -> NewTask
              [] i.mode = "reply" -> OnTask(i.task_id, i.expect_reply # TRUE)
              [] i.mode = "deliver" -> OnTask(i.task_id, FALSE)
              [] i.mode \in {"terminal", "deliver_terminal"} -> OnTask(i.task_id, TRUE)
              [] OTHER -> Refused
    IN  IF \/ i.peer = None /\ i.channel = None
           \/ Odd \in {i.more_coming, i.expect_reply}
           \/ what = Refused
        THEN Refused
        ELSE [what |-> what, to |-> i.peer, channel |-> i.channel, more_coming |-> i.more_coming]

normalize_channel(c) == IF c = Chan THEN Chan ELSE Refused

\* An address is a bare name, a principal, or "agent:" followed by anything else.
Target(a) ==
    CASE a.to # None /\ a.channel = None /\ a.to.kind # "malformed" /\ a.to.name # Hash -> a.to.name
      [] a.to = None /\ a.channel # None -> normalize_channel(a.channel)
      [] OTHER -> Refused

build_inner_payload(a) ==
    LET w == a.what IN
    CASE w.new_task -> "new_task"
      [] ~w.new_task /\ w.task # None -> IF w.terminal THEN "deliver_terminal" ELSE "deliver"
      [] ~w.new_task /\ w.task = None /\ ~w.terminal /\ a.channel # None -> "channel_post"
      [] OTHER -> Refused

-----------------------------------------------------------------------------
(* The envelopes.  A task id is the id of an envelope, or Odd. *)

Envelope == [class |-> "audit_log", scope |-> "standalone", event |-> None, ref |-> None,
             details_task |-> None, terminal_status |-> None, bounds |-> 0,
             provenance |-> FALSE, signature |-> FALSE, from |-> None, to |-> None]

IsId(t) == t # Odd

parse_task_id(t) == IF IsId(t) THEN t ELSE Refused

two_key_bounds == 2

\* UnsignedEnvelope::new: the class is the body's, and the scope the class's.
ScopeOf(class) == IF class \in {"request", "ack", "audit_log"} THEN "standalone" ELSE "task"

UnsignedEnvelope(class, from, to) ==
    [Envelope EXCEPT !.class = class, !.scope = ScopeOf(class), !.from = from, !.to = to]

with_causality(e, ref) == [e EXCEPT !.ref = ref]

with_terminal_status(e, status) == [e EXCEPT !.terminal_status = status]

sign(e) == [inner |-> e, signature |-> TRUE]

encode(s) == [s.inner EXCEPT !.signature = s.signature]

\* The bytes of a typed envelope exist only signed; the signature goes.
sign_then_strip(e) == [encode(sign(e)) EXCEPT !.signature = FALSE]

build_remote_envelope_value(a, me, e) ==
    LET w == a.what
        make(class) == UnsignedEnvelope(class, me, a.to.name)
        onTask(class) == with_causality(make(class), w.task)
    IN  CASE resolve_own_domain(e) = Refused \/ me \notin Legal -> Refused
          [] w.new_task -> sign_then_strip([make("request") EXCEPT !.bounds = two_key_bounds])
          [] ~w.new_task /\ w.task # None /\ parse_task_id(w.task) # Refused ->
                IF w.terminal
                THEN sign_then_strip([with_terminal_status(onTask("deliver"), "completed")
                                         EXCEPT !.provenance = TRUE])
                ELSE sign_then_strip([onTask("commit") EXCEPT !.bounds = two_key_bounds])
          [] OTHER -> Refused

build_envelope_value(a, me, target, e) ==
    CASE a.to # None /\ a.to.kind = "principal" -> build_remote_envelope_value(a, me, e)
      [] build_inner_payload(a) = Refused -> Refused
      [] OTHER -> [Envelope EXCEPT !.event = build_inner_payload(a), !.ref = a.what.task,
                                   !.details_task = a.what.task, !.from = me, !.to = target]

\* The envelope and the mailbox, for the arguments a of a sender whose
\* environment is e, or Refused.  The round trip to the broker follows.
run_at_structured(a, e) ==
    LET me == resolve_identity(e.act_as, e)
        env == build_envelope_value(a, me, Target(a), e)
    IN  IF Refused \in {me, Target(a), env} \/ (a.more_coming = TRUE /\ ~a.what.new_task)
        THEN Refused
        ELSE [env |-> env, mailbox |-> Target(a)]

-----------------------------------------------------------------------------
(* The decoder of every drain: a line it refuses is skipped. *)

validate_bounds(e) == e.bounds >= 2

validate_against_terminal_status(e) ==
    e.terminal_status # None /\ e.terminal_status # "failed" /\ e.provenance

post_decode_validate(e) ==
    CASE e.class \in {"request", "commit"} -> validate_bounds(e)
      [] e.class = "deliver" -> validate_against_terminal_status(e)
      [] OTHER -> e.event # None

\* BusEnvelope::decode: no signature, principals and ids of their types, the
\* scope of the class, the body's own rules.
decode_bus(e) ==
    /\ ~e.signature
    /\ e.from \in Legal /\ e.to \in Legal \cup {Chan}
    /\ e.ref = None \/ IsId(e.ref)
    /\ e.scope = ScopeOf(e.class)
    /\ post_decode_validate(e)

-----------------------------------------------------------------------------
(* famp-fsm and what the readers derive. *)

Terminal == {"COMPLETED", "FAILED", "CANCELLED"}

\* TaskFsm::step; None is an illegal transition.
step(s, class, terminal_status) ==
    CASE s = "REQUESTED" /\ class = "commit" /\ terminal_status = None -> "COMMITTED"
      [] s = "COMMITTED" /\ class = "deliver" /\ terminal_status = "completed" -> "COMPLETED"
      [] s = "COMMITTED" /\ class = "deliver" /\ terminal_status = "failed" -> "FAILED"
      [] s \in {"REQUESTED", "COMMITTED"} /\ class = "control" /\ terminal_status = None -> "CANCELLED"
      [] OTHER -> None

Fresh == [state |-> "REQUESTED", saw |-> FALSE]

\* FsmFold::apply; an illegal transition is absorbed.
fold_apply(f, e) ==
    LET s == step(f.state, e.class, e.terminal_status) IN
    IF e.class \in {"audit_log", "ack"} THEN f
    ELSE [state |-> IF e.class = "request" \/ s = None THEN f.state ELSE s, saw |-> TRUE]

final_label(f) == IF f.saw THEN f.state ELSE "UNKNOWN"

Fold(es) ==
    LET f[i \in 0 .. Len(es)] == IF i = 0 THEN Fresh ELSE fold_apply(f[i - 1], es[i])
    IN  f[Len(es)]

\* One envelope on its own, for `famp inspect messages'.
derive_fsm_state(e) ==
    CASE e.class = "request" -> "REQUESTED"
      [] e.class = "commit" -> "COMMITTED"
      [] e.class = "deliver" -> CASE e.terminal_status = "completed" -> "COMPLETED"
                                  [] e.terminal_status = "failed" -> "FAILED"
                                  [] e.terminal_status = None -> "COMMITTED"
                                  [] OTHER -> "UNKNOWN"
      [] e.class = "control" -> "CANCELLED"
      [] OTHER -> "UNKNOWN"

\* EnvelopeView::task_id
task_id(e) ==
    CASE e.ref # None -> e.ref
      [] e.ref = None /\ e.details_task # None -> e.details_task
      [] e.ref = None /\ e.details_task = None
            /\ (e.event = "new_task" \/ e.class = "request") -> e.id
      [] OTHER -> None

\* sort_by_key is stable; equal seconds keep the order of the mailboxes.
SortByTs(es) ==
    LET before(i, j) == es[j].ts < es[i].ts \/ (es[j].ts = es[i].ts /\ j <= i)
        rank(i) == Cardinality({j \in DOMAIN es : before(i, j)})
    IN  [k \in DOMAIN es |-> es[CHOOSE i \in DOMAIN es : rank(i) = k]]

\* The values of the BTreeMap by_recipient, one mailbox after the other.
Flatten(snap) ==
    LET f[i \in 0 .. Len(NameOrder)] ==
            IF i = 0 THEN <<>>
            ELSE IF NameOrder[i] \in DOMAIN snap THEN f[i - 1] \o snap[NameOrder[i]] ELSE f[i - 1]
    IN  f[Len(NameOrder)]

MailboxByMailbox(snap, t) == SelectSeq(Flatten(snap), LAMBDA e : task_id(e) = t)

ThreadOf(snap, t) == SortByTs(SelectSeq(Flatten(snap), LAMBDA e : task_id(e) = t))

\* The label after each envelope of a task, as `inspect tasks --id' shows it.
inspect_tasks_by_id(snap, t) ==
    LET es == ThreadOf(snap, t)
    IN  [i \in DOMAIN es |-> [from |-> es[i].from,
            state |-> IF es[i].class = "audit_log" THEN "UNKNOWN" ELSE final_label(Fold(SubSeq(es, 1, i)))]]

\* A row per stored record, and one per task of the envelopes that has none.
inspect_tasks(snap, records) ==
    LET ids == {task_id(e) : e \in {Flatten(snap)[i] : i \in DOMAIN Flatten(snap)}} \ {None}
    IN  {[task |-> t, state |-> records[t].state, terminal |-> records[t].terminal] : t \in DOMAIN records}
        \cup {[task |-> t, state |-> final_label(Fold(ThreadOf(snap, t))),
               terminal |-> FALSE] : t \in ids \ DOMAIN records}

message_row(e) == [task |-> task_id(e), class |-> e.class, state |-> derive_fsm_state(e), ts |-> e.ts]

\* The last `tail' envelopes of one mailbox, or of all, by time.
inspect_messages(snap, to, tail) ==
    LET all == IF to = None THEN Flatten(snap) ELSE IF to \in DOMAIN snap THEN snap[to] ELSE <<>>
        s == SortByTs(all)
        from == IF Len(s) > tail THEN Len(s) - tail ELSE 0
    IN  [k \in 1 .. Len(s) - from |-> message_row(s[from + k])]

=============================================================================
