----------------------------- MODULE TaskStore -------------------------------
(***************************************************************************)
(* famp-taskdir: a directory of one TOML record per task.  A record is      *)
(* replaced by renaming a finished file over it; nothing is locked between  *)
(* the read and the rename.  The mutation is the caller's, and may be any.  *)
(***************************************************************************)
EXTENDS Threads

CONSTANTS
    Updaters,      \* processes or threads with a TaskDir
    Task,          \* the task
    MaxCalls       \* a bound: calls of create, update and try_update

VARIABLES
    rec,           \* the records
    td,            \* the updaters
    calls,         \* calls so far
    kept           \* history: calls that returned Ok and that no overlapping one replaced

storeVars == <<rec, td, calls, kept>>

\* `has' is history: the calls whose change the record builds on.
Record(s, terminal) == [state |-> s, terminal |-> terminal, has |-> {}]

new_requested == Record("REQUESTED", FALSE)

new_committed == Record("COMMITTED", FALSE)

Idle == [pc |-> "idle", id |-> 0, next |-> None, during |-> {}]

Exists == Task \in DOMAIN rec

\* A reader sees whole records: a rename replaces them.
list == rec

\* The call that comes next writes r, which builds on what `had' says.
Begin(u, r, had) ==
    /\ calls < MaxCalls /\ calls' = calls + 1
    /\ td' = [td EXCEPT ![u] = [pc |-> "write", id |-> calls', during |-> {},
                                next |-> [r EXCEPT !.has = had \cup {calls'}]]]
    /\ UNCHANGED <<rec, kept>>

M_Create(u) ==
    /\ td[u].pc = "idle"
    /\ \E r \in {new_requested, new_committed} : Begin(u, r, {})

\* create: whether the file exists is looked up before it is written.
Create(u) ==
    /\ td[u].pc = "idle" /\ ~Exists
    /\ \E r \in {new_requested, new_committed} : Begin(u, r, {})

\* What a mutation may make of a record, consistent or not; one that fails, or that
\* changes the task id, is an error and nothing is written.
Mutated == {Record("COMPLETED", TRUE), Record("REQUESTED", TRUE)}

\* update and try_update: the closure is given the record that is on disk when the
\* call begins.
update(u) ==
    /\ td[u].pc = "idle" /\ Exists
    /\ \E r \in Mutated : Begin(u, r, rec[Task].has)

\* The rename; the mode that is set after it may fail, and then so does the call.
write_atomic_file(u) ==
    /\ td[u].pc = "write"
    /\ rec' = [t \in DOMAIN rec \cup {Task} |-> IF t = Task THEN td[u].next ELSE rec[t]]
    /\ \E ok \in BOOLEAN : kept' = (kept \ td[u].during) \cup {i \in {td[u].id} : ok}
    /\ td' = [v \in Updaters |-> IF v = u THEN Idle ELSE [td[v] EXCEPT !.during = @ \cup {td[u].id}]]
    /\ UNCHANGED calls

\* A process that dies before the rename leaves the record as it was.
UpdaterDies(u) ==
    /\ td[u].pc = "write"
    /\ td' = [td EXCEPT ![u] = Idle]
    /\ UNCHANGED <<rec, calls, kept>>

StoreNext == \E u \in Updaters : Create(u) \/ update(u) \/ write_atomic_file(u) \/ UpdaterDies(u)

StoreInit(records) ==
    /\ rec = records
    /\ td = [u \in Updaters |-> Idle]
    /\ calls = 0
    /\ kept = {}

\* famp-taskdir has no lock: what a create or an update that returned Ok wrote is
\* still in the record that is stored, or was built upon by it, unless a call that
\* had begun before the rename finished after it ("will be silently overwritten",
\* store.rs); deaths, failed calls and a second create take nothing away.
UpdatesKept == kept # {} => Exists /\ kept \subseteq rec[Task].has

=============================================================================
