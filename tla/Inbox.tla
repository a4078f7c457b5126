------------------------------- MODULE Inbox ---------------------------------
(***************************************************************************)
(* famp-inbox: a mailbox file of one JSON record per line, which the broker *)
(* appends to and anybody may read while it does; the byte-offset cursor    *)
(* beside it; and the advisory inbox lock.  A file is its complete lines    *)
(* and what follows the last newline; a line is the pieces written into it. *)
(* It parses if it is one whole record.                                     *)
(***************************************************************************)
EXTENDS Naturals, Sequences, FiniteSets

CONSTANTS
    Boxes,         \* mailboxes
    Torn,          \* part of a record
    Corrupt,       \* InboxError::CorruptLine
    Procs,         \* processes that take the inbox lock
    NoPid          \* a lock file without a process id in it

VARIABLES
    box,           \* the mailbox files
    cur,           \* the cursor files, in complete lines
    wr,            \* the append in progress: a sequence of at most one
    confirmed,     \* history: records whose append returned, by mailbox
    glued,         \* history: mailboxes where an append followed an unfinished line
    lockfile,      \* the lock file: a sequence of at most one
    lk,            \* the processes at the lock
    stolen         \* history: a live process lost a lock file that replaced the one found
                   \* stale, or that had no process id in it yet

inboxVars == <<box, cur, wr, confirmed, glued>>

lockVars == <<lockfile, lk, stolen>>

Empty == [lines |-> <<>>, tail |-> <<>>]

Parses(line) == Len(line) = 1 /\ line[1] # Torn

Records(ls) == [i \in DOMAIN ls |-> ls[i][1]]

-----------------------------------------------------------------------------
(* Readers. *)

ReadAllStrict(f) ==
    IF \A i \in DOMAIN f.lines : Parses(f.lines[i])
    THEN IF f.tail = <<>> THEN Records(f.lines)
         ELSE IF Parses(f.tail) THEN Append(Records(f.lines), f.tail[1]) ELSE Corrupt
    ELSE Corrupt

\* read_all: an unfinished last line counts if it parses.
read_all(f) ==
    IF \A i \in DOMAIN f.lines : Parses(f.lines[i])
    THEN IF Parses(f.tail) THEN Append(Records(f.lines), f.tail[1]) ELSE Records(f.lines)
    ELSE Corrupt

\* Past the cursor, and never the unfinished last line.
read_from(f, k) ==
    LET rest == SubSeq(f.lines, k + 1, Len(f.lines)) IN
    IF k >= Len(f.lines) THEN <<>>
    ELSE IF \A i \in DOMAIN rest : Parses(rest[i]) THEN Records(rest) ELSE Corrupt

\* famp_channel_log: at most `limit' records, and the end of the last of them.
read_channel_mailbox(f, since, limit) ==
    LET es == read_from(f, since)
        n  == IF es # Corrupt /\ Len(es) < limit THEN Len(es) ELSE limit
    IN  IF es = Corrupt THEN Corrupt
        ELSE [envelopes |-> SubSeq(es, 1, n), next_offset |-> since + n]

-----------------------------------------------------------------------------
(* The writer: the bytes, the newline, sync_data; one at a time. *)

AppendBegin(m, r) ==
    /\ wr = <<>>
    /\ wr' = <<[m |-> m, r |-> r, pc |-> "body"]>>
    /\ UNCHANGED <<box, cur, confirmed, glued>>

AppendBody ==
    /\ wr # <<>> /\ wr[1].pc = "body"
    /\ LET m == wr[1].m IN
       /\ box' = [box EXCEPT ![m].tail = Append(@, wr[1].r)]
       /\ glued' = IF box[m].tail = <<>> THEN glued ELSE glued \cup {m}
    /\ wr' = <<[wr[1] EXCEPT !.pc = "newline"]>>
    /\ UNCHANGED <<cur, confirmed>>

AppendNewline ==
    /\ wr # <<>> /\ wr[1].pc = "newline"
    /\ LET m == wr[1].m IN
       box' = [box EXCEPT ![m] = [lines |-> Append(@.lines, @.tail), tail |-> <<>>]]
    /\ wr' = <<[wr[1] EXCEPT !.pc = "sync"]>>
    /\ UNCHANGED <<cur, confirmed, glued>>

AppendSync ==
    /\ wr # <<>> /\ wr[1].pc = "sync"
    /\ confirmed' = [confirmed EXCEPT ![wr[1].m] = Append(@, wr[1].r)]
    /\ wr' = <<>>
    /\ UNCHANGED <<box, cur, glued>>

\* The writer dies, or a write fails, at any point of the append.
AppendTorn ==
    /\ \/ box' = box
       \/ /\ wr # <<>> /\ wr[1].pc = "body"
          /\ box' = [box EXCEPT ![wr[1].m].tail = Append(@, Torn)]
    /\ glued' = IF box' # box /\ box[wr[1].m].tail # <<>> THEN glued \cup {wr[1].m} ELSE glued
    /\ wr' = <<>>
    /\ UNCHANGED <<cur, confirmed>>

\* InboxCursor::advance, an atomic replacement, to the end of a line it has read.
advance(m) ==
    /\ cur[m] < Len(box[m].lines)
    /\ cur' = [cur EXCEPT ![m] = @ + 1]
    /\ UNCHANGED <<box, wr, confirmed, glued>>

-----------------------------------------------------------------------------
(* InboxLock::acquire and its Drop. *)

AtLock(p, pc) == lk[p].pc = pc

LockTo(p, pc) == lk' = [lk EXCEPT ![p] = [pc |-> pc, saw |-> <<>>]]

EverybodyIsDead(p) == FALSE

is_alive(p) == p # NoPid /\ lk[p].pc # "dead"

LockCheck(p) ==
    /\ AtLock(p, "start")
    /\ LockTo(p, IF lockfile = <<>> THEN "create" ELSE "read")
    /\ UNCHANGED <<lockfile, stolen>>

LockRead(p) ==
    /\ AtLock(p, "read")
    /\ LET held == lockfile # <<>> /\ is_alive(lockfile[1].pid)
       IN  lk' = [lk EXCEPT ![p] = [pc |-> IF held THEN "refused" ELSE "reap", saw |-> lockfile]]
    /\ UNCHANGED <<lockfile, stolen>>

LockReap(p) ==
    /\ AtLock(p, "reap")
    /\ lockfile' = <<>>
    /\ stolen' = (stolen \/ (/\ lockfile # <<>> /\ ~AtLock(lockfile[1].by, "dead")
                              /\ (lockfile # lk[p].saw \/ lockfile[1].pid = NoPid)))
    /\ LockTo(p, "create")

LockCreate(p) ==
    /\ AtLock(p, "create")
    /\ IF lockfile # <<>> THEN LockTo(p, "refused") /\ UNCHANGED lockfile
       ELSE LockTo(p, "write") /\ lockfile' = <<[by |-> p, pid |-> NoPid]>>
    /\ UNCHANGED stolen

\* Written through the open file, which may have been removed by then.
LockWrite(p) ==
    /\ AtLock(p, "write")
    /\ lockfile' = IF lockfile # <<>> /\ lockfile[1].by = p THEN <<[by |-> p, pid |-> p]>> ELSE lockfile
    /\ LockTo(p, "held")
    /\ UNCHANGED stolen

\* Drop removes the path, whoever made the file.
LockDrop(p) ==
    /\ AtLock(p, "held")
    /\ lockfile' = <<>>
    /\ LockTo(p, "start")
    /\ UNCHANGED stolen

LockDie(p) ==
    /\ ~ AtLock(p, "dead")
    /\ LockTo(p, "dead")
    /\ UNCHANGED <<lockfile, stolen>>

LockNext ==
    \E p \in Procs : \/ LockCheck(p) \/ LockRead(p) \/ LockReap(p) \/ LockCreate(p)
                    \/ LockWrite(p) \/ LockDrop(p) \/ LockDie(p)

-----------------------------------------------------------------------------
InboxInit ==
    /\ box = [m \in Boxes |-> Empty]
    /\ cur = [m \in Boxes |-> 0]
    /\ wr = <<>>
    /\ confirmed = [m \in Boxes |-> <<>>]
    /\ glued = {}
    /\ lockfile = <<>>
    /\ lk = [p \in Procs |-> [pc |-> "start", saw |-> <<>>]]
    /\ stolen = FALSE

\* Crash tolerance (read.rs): whatever the writer was doing when it died, every
\* record whose append returned is read back by read_all and by read_from, in
\* order, until a later append lands on the unfinished line.
ConfirmedIsRead ==
    \A m \in Boxes \ glued :
        LET kept(s) == SelectSeq(s, LAMBDA r : \E i \in DOMAIN confirmed[m] : confirmed[m][i] = r)
        IN  \A s \in {read_all(box[m]), read_from(box[m], 0)} : s # Corrupt /\ kept(s) = confirmed[m]

\* InboxLock: two processes hold the lock only after a live one has lost its file
\* to a process that had found an older, stale one in its place, or had found this
\* one before the process id was in it.  Nothing else breaks it: no death, no stale
\* file, no file that is removed twice, and no drop.
LockIsExclusive ==
    stolen \/ \A p, q \in Procs : AtLock(p, "held") /\ AtLock(q, "held") => p = q

=============================================================================
