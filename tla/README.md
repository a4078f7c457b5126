# TLA+ models of FAMP

FAMP lets coding agents on one host exchange envelopes through a local broker,
and across hosts through gateways and a relay. This directory holds TLA+ modules
of the program, TLC configurations that check them on small instances, and
proofs checked by TLAPS. Paths below are relative to `src/crates/`.

## 1. The system

| Part | State | What makes it hard |
|---|---|---|
| Broker actor and executor (`famp-bus`, `famp/src/cli/broker`) | clients and their names, proxies, cursors, channels, parked awaits; mailbox and cursor files | a holder and its proxies share cursors; a record is folded into an await before it is on disk; outputs are performed one at a time and each may fail; processes die between two looks at the process table |
| The host's processes (`famp/src/cli/broker`, `bus_client`, `cli/daemon`) | the socket path, broker processes, clients, the service manager | every system call is a step; a client starts a broker when none answers; idle exit races a connect |
| The window (`famp/src/cli/mcp`, `cli/hook`, `cli/register`, `listen_wake`, `wait_reply`) | an MCP session, the transcript, hook locks, pid files, cursor files | the broker dies under a session; hooks and commands await the same name; a transcript is cut |
| Installers (`cli/install`, `cli/uninstall`) | the configuration files of three hosts | files the user edits too; a kill between two steps |
| Trust (`famp-keyring`, `famp/src/pairing`, `cli/peer`, `cli/pair`) | keyring, invite store and its lock, identity key | files without locks, rewritten in place, shared by processes |
| Gateway (`famp-gateway`) | replay cache, rate buckets, registry mutex, egress batches | clock windows; what is taken and not yet sent is lost by a crash |
| Relay (`famp-relay`) | bounded queues with expiry, nonce table | drop-oldest, at-most-once drain, nonce lifetime |
| Inspection and threads (`famp-inspect-*`, `famp-inbox`, `famp-taskdir`, `famp-fsm`) | one permit, reply channels, the files as they are read | three reads at three instants while the broker appends |

The broker is the centre: every other part is a client of it, hands it envelopes
(gateway ingress) or takes them from it (gateway egress). `PROJECT.json` lists
all parts and, line by line, the hazards the code is exposed to.

## 2. Modules

Each component module holds state, actions and specification; a mutated form of
a definition (`M_...`, `N_...`) stands before the definition it is a plausible
bug of. Properties stand at the end of the module that composes the component
(the broker's in `BrokerProperties`). `MC...` modules give TLC its instances.

| Modules | Model |
|---|---|
| `Broker`, `BrokerProperties`, `MCBroker` | the broker actor and its executor |
| `Host`, `Daemon`, `MCHost` | broker processes, the clients that start them; the service manager and `famp daemon` |
| `Session`, `Hook`, `Commands`, `Window`, `MCWindow` | the MCP session; the Stop hook; the commands that stay with the bus; their composition around one broker |
| `Install`, `MCSetup` | `famp install-*` and `famp uninstall-*` |
| `Keyring`, `Invites`, `Trust`, `MCTrust` | the keyring, the invite store, and all processes that use them |
| `Clock`, `IngressGuard`, `Gateway`, `Relay`, `LossyFifo`, `Federation`, `MCFederation` | the gates of the gateway, the gateway, the relay, what the relay promises, and both with the network |
| `Threads`, `TaskStore`, `Inbox`, `Inspect`, `MCInspect` | envelopes and the task machine, the task directory, the mailbox file in pieces, and the inspector over them |
| `BrokerSafety`, `BrokerDelivery`, `BrokerChannels`, `BrokerReplay`, `FederationProofs`, `HostProofs`, `TrustProofs`, `InspectProofs` | theorems |

Scenarios. All but the broker's instances choose a `plan` in `Init`: a record
that says which operations, faults and inputs occur and how often. A plan only
bounds what the environment does; every guard that mentions it is a budget, and
the branches of the code are those of the code. It keeps unrelated questions from
multiplying each other's states.

### Broker

`clients`, `st`, `channels`, `roles`, `pending` are `BrokerState` (`state.rs`):
`st[c]` is the `ClientState` of connection `c`, `pending[c]` the filter of its
`ParkedAwait`, `due` the parked awaits whose deadline has passed. `file`,
`exists` and `cursor` are the mailbox and cursor files, `alive` the process table
that `is_alive` asks. `outs` is the `Vec<Out>` a handler returned. `delivered`,
`inboxed` and `acked` are history variables.

* One input is handled at a time and its outputs are all performed before the
  next is taken (`run_on_listener_with_opts`), so `Wire`, `Disconnect` and `tick`
  require `Ready`. `execute_outs` performs one output per step; a crash, a death
  or a truncation may come between two.
* A handler is one action, except for the two that loop over parked clients.
  `send` sets `job`; `NextMember` looks for the waiters of one channel member,
  `WakeOne` answers one waiter (`await_reply_for_mailbox`), `SendDone` adds
  SendOk. `tick` reaps the dead and `ExpireOne` answers one expired await. Between
  these steps the process table and the files may change, because the code reads
  them again for each client.
* `walk` is stated with sets of positions instead of a loop: what is skipped, what
  matches, where it stops, where the cap cuts.
* `Owner(c)` is the client whose cursors and memberships a request of `c` uses:
  for a proxy the holder of the name it is bound to.
* A reply that exceeds the frame limit is `~Fits(ids)`: register, join and inbox
  check before they commit and refuse; an await does not check.
* Abstractions: every record has length one, so offsets count records (torn lines
  are the subject of `Inbox`); an envelope is an id, a sender, an origin and a
  task; frame size is a number of envelopes; requests that only read are left out.
  After a frame that could not be written the code gives the client no further
  reply; the model counts later ones as given, so it may count more as confirmed
  or delivered than the code, never less. `WakeOne` and `NextMember` take waiters
  and members in any order; the code takes them in the order of ids, which are
  given in the order of arrival, so every order occurs. For the same reason
  connections (and names, where no file names one) are symmetric. `Rebind` FALSE
  restricts clients to the MCP tool's default, `Pipelined` FALSE to clients that
  send nothing while their await is parked, as the bus client does.

### Host and Daemon

`path` is the process that bound the socket file (it may be dead), `proc[p]` a
broker process from `bind_exclusive` (probe, unlink, bind, listen) through the
select loop (`AcceptArm`, `DisconnectArm`, `IdleArm`) to its exit. `client[c]`
goes through `connect`, `spawn_broker_if_absent`, `SpawnPoll`, Hello and its
classification. `svc` is launchd or systemd as the code uses them (external);
`adm` the `famp daemon` command being run. `raced` records that a
process removed the socket file it had found stale while another was on its way
from the same finding to listen() (`Overlap`). The starts systemd counts towards
its limit are `svc.starts`; a unit that used them up is given up, and
only a command that starts it after the interval brings it back.

### Session, Hook, Commands, Window

`mcp` is the `SessionState` of the MCP server; `tx` the transcript of its
register and set_listen calls, which the hook replays (`scan_transcript`,
`replay_actions`, and the resolution by pid, by database and by file name when
the transcript is not usable). `hold`, `box`, `ao`, `cursor`, `aw` are the broker
as its clients see it: holders, mailboxes, await cursors, cursor files, awaits;
`BrokerDies` empties what is in memory. `hk[h]` is a hook process with its lock
file, `lw[w]` a `listen-wake` process with its pid file, `reg` `famp register`,
`wr` `famp wait-reply`. `told` records
what the user of a name was shown, was told the number of, or skipped by naming an
offset.

### Install

A command is a program of steps (`read_toml_table`, merge, `persist_json`, whole
files written or removed). `doc` are the merged files, `own` the files FAMP owns,
`cmd[p]` the running command: what it holds of the file it read, and `alone`, a
history that says whether anything else wrote meanwhile. A Stop array is a sequence
of groups of hooks, FAMP's and the user's possibly in one group; the trust table
goes by the position of a hook, as Codex's does.

### Trust

`keyfile` is the keyring as the set of its lines, possibly cut; `store` and
`lock` the invite store and its lockfile; `ident` the identity key. Commands and
redemption handlers are processes; `famp peer` truncates and writes line by line,
`famp pair` writes a sibling, reloads it and renames it. `lost` records that a
save was cut short or overlapped another.

### Gateway, Relay, Federation

A gateway has one egress task per backed principal (`pc`, `todo`), request
handlers and the relay-fetch loop; all take the registry mutex (`lockq`, a FIFO
queue as tokio's). An inbound request passes `look`, the gates of `IngressGuard`
in the code's order, `deliver` and the answer. The relay's `slot[k]` serves one
fetch request and takes the nonce lock and the queue lock one after the other, as late as it
likes; `late` records the nonces looked up after their window had closed.
`Federation` adds the network: a post or a fetch request arrives again, a response
is lost, either process dies, the clock ticks. `LossyFifo` is the abstract
channel; `QueueIsFifo` is `Fifo!Spec` under the mapping `waiting <- numbers of the
queued entries`, `taken <- drained`, `count <- posts`.

### Threads, TaskStore, Inbox, Inspect

`Threads` has operators only: how a send is addressed and which envelope it
builds, which envelopes the decoders accept, the task machine, and the labels the
readers derive. `Inbox` is a file as complete lines plus what follows the last
newline; an append is two writes. `TaskStore` is read, mutate (in
any way), rename; `kept` are the finished calls that no earlier-begun call has
overwritten. `Inspect`
runs them under the broker's inspection dispatch: `permits`, `req`, `threads`,
`chan`; a walk reads mailbox by mailbox, and `at` and `end` record what was true
when it began and ended.

## 3. What is checked

Nine runs pass and explore all states within their bounds.

| Run | Instance | Shows |
|---|---|---|
| `mail` | broker: 3 connections, 1 name, 2 envelopes, batch cap 1, local and gateway origins, a line that does not decode, pipelining | holder and proxies on one cursor: nothing skipped (`AwaitSkipsNothing`), nothing repeated that an earlier answer gave (`NoReplay`; the awaits one send wakes together all get its envelope), nobody asleep on mail (`NoLostWakeup`) |
| `channel` | broker: 2 connections, 2 names, 1 channel, all caps 1, one stop of the broker, after which only the channel is written to (`OneSubject`) | `ChannelDelivers` (the delivery properties of `mail` for a channel, and `InboxSkipsNothing` for its second cursor), `MembersAreJoined`; through a crash `ConfirmedIsStored` |
| `sessions` | broker: 2 connections, 2 names, rebinding, one truncation, failed write or unreadable file, a frame that holds nothing, no symmetry | `SessionsHold` (one holder per name, nothing outlives its connection), `NoInternalError`, and under fairness `TickSettles` (parked awaits are answered, dead holders reaped) |
| `host` | 3 broker processes, 2 clients, 9 plans (idle exit, kills, service on macOS and Linux, upgrade, protocol bump, sandbox) | `ExclusiveUnlessRaced`, `RestartTruthful`, `ClientSettles`, `ServiceAnswers` |
| `window` | one MCP server, 2 hooks, 2 listen-wakes, register, wait-reply, 2 names, 3 envelopes, 13 plans | `ReadWasTold` (what the cursor file counts was shown, told or named by the user), `VerifyIsTrue` ("not delivered" is true), `HookFollowsAgent`, `OneWaits` (hooks and wakers), `WaitReplyMissesNothing`, `ParkedIsWoken`, `NameIsTakenBack` |
| `setup` | 2 shells, 2 binaries, 3 hosts, 3 commands, 1 kill, 1 edit | `CommandCompletes` (install and uninstall), `UserKept` |
| `trust` | 2 operators, 2 handlers, 3 redeemers, 2 keys, 3 commands, 1 kill | `OneRedemption`, `BudgetHolds`, `RevokedNeverPinned`, `NoResurrection`, `IdentityStable`, `RedemptionAnswered` |
| `federation` | 1 gateway, 2 handlers, 2 fetch slots, 7 plans; windows of 1 to 4 seconds | `ReplaySpacing`, `DeliveredIsGenuine`, `NoSilentLoss`, `DrainedIsIngested`, `OneDrain`, `QueueIsFifo` (refinement), `MutexStarvesNobody` (both directions come to an end) |
| `inspect` | 2 inspecting clients, 2 agents and a channel, 11 plans | `InspectionIsTrue` (unread counts, task labels, newest messages and refusals to wake lie between what was so at the start and at the end), `FilesAreRead` (every confirmed line is read, log pages are whole), `LockIsExclusive`, `UpdatesKept` (finished task updates stay unless calls overlap), `InspectionEnds` (every request is answered once and its permit comes back) |

Deadlock is checked for the broker, which always can take a step; the other
systems come to rest when their plan is used up, so there it is not.

Bounds. Three connections allow a holder, a proxy and a sender; the interesting
interference is between two awaits and one send. Two names are needed where a
client may take or leave another's name or write to a channel of two. Caps of one
make every boundary occur with two envelopes. Three processes allow a broker that
serves, one that starts and one that is started by the service. Two handlers, two
fetch slots, two hooks and two wakers are the pairs that race. Windows keep the
relations the code asserts between its constants (`GuardAssumption`,
`RelayAssumption`) and are short enough that both ends are
reached. `ReplyCap` 1 stands for the 64 replies of the code, `NonceMax`,
`MaxPerSender` and `QueueMax` for its thousands: small enough to be full.

Three runs end in a violation and record where the code does not do what its
tests and documents say; each is quoted in `PROJECT.json` under `findings`.

| Run | What happens |
|---|---|
| `x_first_mail` | the mailbox has no file; two awaits of one holder are woken by the first envelope, the cursor counts it twice, and the next envelope is never given by an await |
| `x_keyring` | rotating to a key that is already retired gives it two lines, and the saved keyring does not load again |
| `x_undecodable` | a local send copies a task id that is no UUID; it is confirmed and stored, and no drain ever gives it |

The passing runs exclude what these show: where await cursors are checked the
mailboxes exist (`Born`), and `NoResurrection` does not ask that a rotated keyring
reloads. More restrictions of the broker's runs: the batch cap is not above the frame cap (see
section 5). `NoLostWakeup` is checked with one task only: with two, a filtered
await that parks behind an envelope of another task sleeps on when some other
await takes that envelope away, since only a send looks at parked awaits.
Memberships are checked without rebinding: a client that registers under another
name keeps its `joined` channels while the member lists keep the old name.
Progress is checked without pipelining: a client that replaces its own await over
and over is never answered the first.

### Fairness

* Broker: `WF(Work)`, the loop continues what it has begun; `SF(tick)`, the arms of
  `select!` are chosen at random among the ready ones and the interval is ready
  every second; `WF(Deadline)`, time passes. Nothing is assumed of clients.
* Host: the start-up steps and the accept arm of a broker, a client's own polling
  and the service manager's restarts go on. Kills, commands and the idle timer are
  nobody's duty.
* Window: every process that can go on does (server, host, each hook, register,
  each waker); the agent, its user and the faults need not.
* Trust: each redemption handler goes on; `acquire` gives up by itself, so no
  assumption on the holder of the lock is needed.
* Federation: the runtime polls each egress task, each ingester and the fetch
  loop. That the mutex is fair is its queue in the model, not an assumption.
* Inspect: the runtime runs what is runnable, and a client that reads goes on
  reading; a client that does not (`deaf`) is excluded by the property instead.

## 4. What is proved

All theorems hold for every value of the constants that meets the named
assumptions of the modules: any number of connections, names, channels,
envelopes, processes, clients, domains, slots, plans and faults.

| Theorem | Statement | Argument |
|---|---|---|
| `TypeCorrect` (`BrokerSafety`) | `Spec => []TypeOK` | `TypeOK` is inductive; one lemma per operator that builds state and one step per action |
| `Sessions` (`BrokerSafety`) | `Spec => []SessionsHold`, that is `OneHolder` and `NoOrphans` | inductive together with `TypeOK`; the running loop's `todo` must be part of `NoOrphans`, or a tick could not be shown to answer only clients that are there |
| `ConfirmedMail` (`BrokerSafety`) | `Spec => []ConfirmedIsStored`, if neither lost writes nor truncation are among the faults | strengthened to `Durable`: a reply still to be performed confirms only what is stored or is appended by an earlier output of the same list (`RepliesBacked`), and the list of a running send begins with its append (`SendBegun`) |
| `NoPanic` (`BrokerSafety`) | `Spec => []NoInternalError` | strengthened by `WakeReason`: a client still to be answered waits with a filter that matches the local record being sent, so a walk that drains everything delivers at least that record |
| `MembersJoined` (`BrokerSafety`) | `Spec => []MembersAreJoined`, if no client takes a second name | `Rosters`: the member lists name exactly the holders that joined, and who joined is a holder; the second half is what a disconnect needs, which removes the name it finds in the client's own state |
| `NothingSkipped` (`BrokerDelivery`) | `Spec => []AwaitSkipsNothing`, under `Settled` | `CursorInv`, stated of `Mail(m)`, the file with the record that is being appended: a cursor stays within `Mail(m)` and everything behind it that is for its holder was given. It is inductive only with `Sound`, which says among others whom a running send may still wake (`Addressed`, `WakeReason`) and that its append comes first (`Durable`). `BatchFold` says what one await hands out and where it leaves the cursor; `StepAdvance` says what any step does to any cursor |
| `NobodySleeps` (`BrokerChannels`) | `Spec => []NoLostWakeup`, under `Settled` and `OneTask` | `WakeInv`: a parked client has nothing before its cursor in the files, and, unless a running send has still to look at it (`Busy`), nothing in the record being sent either |
| `NothingTwice` (`BrokerReplay`) | `Spec => NoReplay`, under `Settled` and `Blank` | `MailIds`: an id stands for one envelope; `FreshInv`: nothing before an await cursor was given by an await; `PollInv`: what lies behind an inbox cursor was given by a poll and what lies before it was not. `AwaitGivesNew` and `InboxGivesNew` say what one answer can hold; a leave drops both cursors of the channel, and a join sets them to the end of what its own reply shows, so what comes after it is new |
| `ChannelsDeliver` (`BrokerReplay`) | `Spec => ChannelDelivers`, under `Settled`, `OneTask` and `Blank` | from `NothingSkipped`, `NobodySleeps`, `NothingTwice` and the first half of `PollInv`, which is `InboxSkipsNothing` |
| `Exclusion` (`HostProofs`) | `Spec => []ExclusiveUnlessRaced` | `HostInv`: unless a file was removed under a start-up that had the same finding, whoever serves is the one that bound `path` (`SocketInv`), so a second broker finds it answering |
| `RestartReportsTruth` (`HostProofs`) | `Spec => RestartTruthful` | `ServiceInv`: the job the service manager names runs a binary at least as new as the one on disk when the command restarted it |
| `DrainedIsHandled` (`FederationProofs`) | `Spec => []DrainedIsIngested` | `HandledInv`: besides the property, who works on a batch and which slot holds a response (`TaskInv`, `FetchInv`); an entry moves from slot to batch to `ingested` and each way out of a step is one of the places the property names |
| `NothingLostSilently` (`FederationProofs`) | `Spec => []NoSilentLoss` | `LossInv`, with `EgressInv` (an egress task that relays has something to relay) and `RunInv` (nothing runs in a gateway that is down); `AdvanceView` says what one round of the loop takes off its batch |
| `DeliveriesAreGenuine` (`FederationProofs`) | `Spec => []DeliveredIsGenuine` | `GenuineInv`: a request that has come to a gate has passed those before it and is no older than `GatewayPrompt` allows (`RequestInv`); what the relay gives away was posted to it (`PostedInv`) |
| `ReplaysAreSpaced` (`FederationProofs`) | `Spec => []ReplaySpacing` | `SpacingInv`: what was accepted within the lifetime of the cache and not evicted is in the cache, with the time it was accepted |
| `QueuesImplementChannels` (`FederationProofs`) | `Spec => QueueIsFifo`, the refinement of `LossyFifo` | `RelayView`: every step of the federation is one of six kinds to the relay; `QueueInv`: entries are numbered by posts and what waits is younger than all that was drained, so each drain is a `Take` |
| `FetchDrainsOnce` (`FederationProofs`) | `Spec => []OneDrain` | `DrainInv`: a nonce that drained stays in the table for as long as its request is fresh (`NonceInv`), requests under way carry distinct nonces, are refused, or were looked up after their window (`SlotInv`, `OnceInv`); uses the relation between the nonce's lifetime and the freshness window (`Windows`) |
| `Redemption` (`TrustProofs`) | `Spec => []OneRedemption` | `TrustInv`: one process at most holds the lockfile (`LockInv`), a pending record names nobody, and whoever is about to be told that the code was taken is named already (`RedeemInv`, with `RequestInv` for who waits for which handler) |
| `Budget` (`TrustProofs`) | `Spec => []BudgetHolds` | `BudgetInv`: the attempts of a record count at least the wrong guesses that were answered, and one more for the guess a handler is about to answer |
| `PinsOnlyRedeemed` (`TrustProofs`) | `Spec => []RevokedNeverPinned` | `StatusInv`: the copy `famp pair status` works on equals the store for as long as it holds the lockfile |
| `RevokedStays` (`TrustProofs`) | `Spec => []NoResurrection`, under `NoFile` | `SaveInv`: unless a save was cut short or overlapped, one command at most is between its load and the end of its save (`OneSaver`), and the file, or while it is rewritten the lines that are there with those that are left, has a tombstone and nothing else for every revoked key and for the one being revoked (`SaverInv`, `FileInv`). Each operation of the keyring is shown to keep tombstones (`Buries`), a saved line to load as its entry (`SavedLine`); that a loaded file has one line for a key is what lets a revocation leave no second entry |
| `PairingLoads` (`TrustProofs`) | `Spec => PairKeepsLoadable` | `StatusInv`: the lines to be renamed were reloaded |
| `IdentityStays` (`TrustProofs`) | `Spec => IdentityStable` | `FillInv`: one process at most fills the identity file, and it does so while the file is empty |
| `LockExcludes` (`InspectProofs`) | `Spec => []LockIsExclusive` | `LockInv`: unless a lock was stolen, whoever made a lock file and has not dropped it finds its own file in place (`OwnerInv`), a file names its maker or nobody (`Signed`), and what a process is about to remove was, when it read it, of a process that is dead and stays so (`ReapInv`) |
| `UpdatesStay` (`InspectProofs`) | `Spec => []UpdatesKept` | `StoreInv`: the record a call is about to rename into place builds on every finished call that is kept, except those that finished after it began (`BeginKeeps`: what is kept is in the record it read) |
| `PermitIsOne` (`InspectProofs`) | `Spec => []PermitIsHeldOnce` | `PermitInv`: the permit has one of three places (`OneHolder`), and a request or a thread keeps its shape (`AskShape`), so that a change of one request moves nothing else |
| `RefusalsAreTrue` (`InspectProofs`) | `Spec => []WakeRefusalIsTrue` | `SawInv`: as long as listening was never seen off, no view of a thread, no reply on its way, in a channel or read, shows it off (`Spotless`) |
| `PagesAreWhole` (`InspectProofs`) | `Spec => []LogPagesAreWhole` | `FileInv`: a confirmed record is in a complete line, and complete lines are never touched again (`Grows`); `PageInv`: the reader has had exactly the lines before its offset; `PageIsNext` says what one page holds |

`TypeOK` and `PairKeepsLoadable` are stated by theorems only.
`PermitIsHeldOnce`, `WakeRefusalIsTrue` and `LogPagesAreWhole` are conjuncts of what
the run `inspect` checks (`InspectionEnds`, `InspectionIsTrue`, `FilesAreRead`). The
other statements are properties of the runs.

Hypotheses. `ConfirmedMail` assumes `Reliable` (no lost write, no truncation): the
executor answers SendOk even if the append failed (section 5). `Settled` adds what
the runs on cursors assume as well: every mailbox has its file (`Born`, because of
`x_first_mail`), no client takes a second name (`~Rebind`: "self" would change its
meaning for what was skipped before, and the member lists keep the first name), and
a full await batch fits in a frame (an await moves the cursor before it is known
whether the reply can be written). `OneTask` says that every filter lets every
envelope through: with two tasks a filtered await that parked behind a foreign
envelope sleeps on when another await takes that envelope away. `Blank` says that
what the mailbox files hold at first is unreadable (or nothing), so that the ids of
the model, which number the sends, stand for one envelope each. `NoFile` says that
`Absent`, the value of a file that does not exist, is not a set of lines;
`FileAssumption` (`Trust`), that the keyring the host starts with holds lines of
the saved forms. `PageAssumption` (`Inspect`) says that a page of the log has room
for a record: with a limit of zero every page is empty and says nothing.

How the proofs are laid out. A theorem `Spec => []Inv` has one step or lemma per
action and combines them by PTL. Facts about finite sets and the least element of
a set of naturals come from the library (`FiniteSetTheorems`, `WFMin`), facts about
sequences from `SequenceTheorems`. Leaves are
proved by Zenon unless they are marked `SMTT`, which is the case where they need
arithmetic or sequences.

Only model-checked, and why:
* all liveness properties (`TickSettles`, `ClientSettles`, `ServiceAnswers`,
  `ParkedIsWoken`, `NameIsTakenBack`, `RedemptionAnswered`, `MutexStarvesNobody`,
  `InspectionEnds`): fairness and ENABLED are beyond the prover;
* `ConfirmedIsRead`, `UnreadIsTrue`, `LabelIsCurrent` and `MessagesAreNewest` of
  `inspect`: they speak of what a selection from a sequence, a fold over the
  envelopes of a task or a sort computes, which needs induction over sequences;
* `HookFollowsAgent` of `window`, for the same reason: it replays a transcript;
* the other safety properties of `window` (`ReadWasTold`, `VerifyIsTrue`,
  `OneWaits`, `WaitReplyMissesNothing`) and that of `setup` (`UserKept`): no proof
  was attempted.
## 5. What reading the code beside the models showed

Remarks on behaviour that is not kept as a run of its own. None is excluded
silently: where a property depends on it, its statement or the run's bounds say
so.

Broker
* An await whose batch exceeds the frame limit moves the cursor, and the reply is
  never written (`famp-bus/src/broker/awaiting.rs:55`).
* When an append fails, SendOk is written all the same (`cli/broker/mod.rs:381`,
  against `proto.rs:424`).
* SendOk says `woken` also for a waiter that was answered AwaitTimeout
  (`handle.rs:554`, against `proto.rs:427`).
* A channel role survives the disconnect of its member (`handle.rs:1172`, against
  `state.rs:107`).

Host
* Two start-ups that find the same stale file can leave two brokers, when one
  removes it after the other has bound anew; the one without a socket path unlinks
  the other's on its idle exit.
* A client in the backlog of a broker that exits for idleness is dropped and has to
  connect again.
* After 20 starts in an hour systemd leaves the unit failed (`install.rs:453`);
  `ServiceAnswers` holds until then.
* `famp daemon status` says RUNNING when an unmanaged broker answers; a broker
  started by hand with `--no-idle-exit` passes the managed check.

Window
* A hook that is woken by mail which somebody has read meanwhile ends without
  starting a turn (`cli/hook/emit.rs:66`), and no hook is parked until the agent's
  next turn ends, where the skill says the window "Parks after each turn".
* `set_listen(true)` after an explicit off, with the register call no longer in the
  tail of the transcript, stays explicitly off (`cli/hook/transcript.rs:340`), where
  the comment above asks for unresolved.
* A failed register leaves a session without a bus and with a name, which the
  table of `session.rs` calls unreachable; whoami, peers and set_listen keep a
  dead connection.
* `famp register` without `--tail` marks the backlog read without showing it, with
  `--tail` it prints the backlog twice; its back-off is never reset; a protocol
  mismatch is retried.
* Two hooks run per stop where a host loads two configurations: a late one may
  park after the first answered. A reply that arrives after the abort grace wakes
  nobody. A broker that dies while a hook is parked ends the park silently.
* A filtered Await stops at the first record of another task.
* `famp_inbox` with a `since` past unread mail writes the end of file to the cursor
  (`tools/inbox.rs:185`), so what lies before `since` counts as read.
* `famp_verify` cannot tell when a mailbox does not read back (`verify.rs:263`); it
  says so and does not deny the delivery.

Setup
* `seed_codex_hook_trust` replaces what stood at the same index of the trust table
  (`install/codex.rs:390`), where a comment says that the user's own entries must
  never be removed. `UserKept` exempts the approval at FAMP's position only.
* `uninstall-claude-code` leaves all FAMP hooks when each shares a group with a
  user's hook: the array keeps its length, which it takes for "no famp entry found"
  (`uninstall/claude_code.rs:185`), where its header says "Surgical drop of both
  famp-tagged Stop hooks". `UninstallClean` names that case.
* An uninstall killed after `hooks.json` leaves the trust entry behind; an install
  names the await shim in the Stop entry before it writes it.
* An edit between a command's read and its rename is lost; `UserKept` says that,
  with the approval above, nothing else of the user's is.

Trust
* A keyring save that is killed, finds the disk full or overlaps another may leave
  a torn line, which can parse as a legacy line of an active key.
* `pair status` that fails midway leaves earlier pins of its loop marked Redeemed.
  A stale `StoreLock` is never broken. A guess that
  finds the lock taken is answered no_pending_invite and not charged. A redeemer whose answer is lost holds a
  consumed code.

Federation
* The replay cache keeps a nonce for twice the skew, but the window of freshness is
  closed at both ends, so an envelope dated ahead by the whole skew passes again
  exactly when its entry expires (`ingress_guard.rs:392`). `ReplaySpacing` states
  the distance that does hold.
* The relay reads the clock for a fetch request before it waits for the nonce lock.
  With the shipped constants (a nonce is kept for exactly as long as its request can
  be fresh) a copy that waits until its window has closed finds the nonce gone and
  drains again; `OneDrain` says that only such a copy does.
* A notice to the sender is dropped with a log line when an end of the envelope does
  not parse (`egress.rs:333`); `NoSilentLoss` exempts those envelopes.
* The relay keeps an entry for 900 s, while the gateway refuses an envelope after
  300 s. A restart of the broker leaves the gateway with dead connections.

Inspection
* A mailbox that does not parse is reported with nothing in it. The fold orders
  envelopes by the sender's clock in whole seconds, so ties and skew misorder it;
  `LabelIsCurrent` says when it is right. Derived rows never say `terminal`.
* An append after a torn line makes `read_all` and `read_from` fail for the whole
  mailbox (`glued`). The reap of a lock file that has no process id yet,
  or that replaced the one found stale, can give two holders (`stolen`). The lost
  update between two overlapping `update`s is documented in its source.
* An unread count may exceed what was unread at any one time: the cursor is read
  before the mailbox (`broker/mod.rs:664`). `UnreadIsTrue` bounds it by both ends.
* A client that pipelines requests and never reads can hold the only permit
  (`deaf`).
* The task directory and the inbox lock are library code that no command uses.

## 6. Not modelled, and why

* Canonical JSON, signatures, hashing: byte-level conversions. Modules take a line
  as decodable or not, and a signature as made by a key or not.
* Core types, rendering, error texts, argument parsing, printing, configuration
  lookup: no state of the system depends on them beyond what the operators of
  `Threads`, `Install` and `Session` take up.
* HTTP and TLS: what a request can end in is an operator of `Gateway`. The
  in-memory transport and the transport's own server serve tests and examples.
* Of the broker's executor the session log, the NFS warning and the bound of the
  reply channels outside inspection.
* Of the daemon the text of the service file and lingering;
  of the installers the backups and the text of shims; of `listen-wake` the
  `--follow` reader; of the window `backup_outcome`.
* Mixtures of the bytes of two keyring saves (they set `lost`).
* Connections that fail without changing anything are stuttering steps.
* The refinement of the broker to an abstract queue: `AwaitSkipsNothing` and
  `NoReplay` say as much of it as holds, since mail may be handed out by an inbox
  poll as well as by an await, and the latter may be confirmed and lost.
