# Verification of cbus

cbus lets coding-agent sessions (Claude Code, Codex, OpenCode) send each other
messages. A *peer* is a directory `<channel>/<alias>/` with a registration
(`meta.json`) and an append-only mailbox (`inbox.jsonl`). A per-user daemon
reads the mailboxes of the peers that *connected* to it and hands the lines, one
at a time, to the session's own harness. A relay server carries messages between
hosts. This directory holds TLA+ models of that code, TLC configurations that
check them on small instances, and theorems that TLAPS checks for all instances.

All line numbers are of `src/internal/client/` unless another path is given.

## Reading guide

| module | what it is |
| --- | --- |
| `Mailbox.tla` | abstract specification: what a managed connection promises |
| `Delivery.tla` | one connection: inbox, journal, pass, harness, operator verbs |
| `Scheduler.tla` | the daemon's scheduling loop, lanes, slots, verbs, shutdown |
| `DaemonProofs.tla` | theorems about `Scheduler` and `Delivery`, for all values of their constants |
| `Postbox.tla` | abstract specification: what a relay mailbox and its daemons promise |
| `Relay.tla` | a relay mailbox, its subscriptions, and the daemons that store from it |
| `RelayProofs.tla` | theorems about `Relay` |
| `Presence.tla` | the presence journal of local connections and its fan-out under peer locks |
| `PresenceProofs.tla` | theorems about `Presence` |
| `Registry.tla` | the store of a channel: commands, senders, connect and collection |
| `RegistryProofs.tla` | theorems about `Registry` |
| `Follower.tla` | the readers of an inbox: the tail, the Stop hook, the daemon's inbox epoch |
| `FollowerProofs.tla` | theorems about `Follower` |
| `Forward.tla` | `cbus forward` into a webhook, its dead letters and their replay |
| `ForwardProofs.tla` | theorems about `Forward` |
| `Formation.tla` | saved formations, launchers, launch markers, coordinator records |
| `FormationProofs.tla` | theorems about `Formation` |
| `Records.tla` | grants, permits, denials, reported fallbacks, runs and the ledger |
| `RecordsProofs.tla` | theorems about `Records` |
| `MC<Module>.tla`, `<Module>.cfg` | the TLC instance of a module |
| `SchedulerStarvation.cfg`, `RelayIgnored.cfg`, `FormationUndo.cfg` | the instances that show a finding |

`PROJECT.json` lists the components, the runs, a mutant for every checked
property, the source lines of every definition, the hazards and the theorems.

Commands, in this directory: `tlasany Delivery.tla`,
`tlc -workers 2 -config Delivery.cfg MCDelivery`, `tlapm DaemonProofs.tla`.

## Inventory

### Delivery of one connection (`daemon.go`, `daemon_recovery.go`, `daemon_claude*.go`, `daemon_opencode.go`)
*State*: the connection record `connections/<id>.json` (state, byte offset,
pending attempt, counters, resolutions, bound process), a copy of it in the
daemon's memory, the mailbox, the harness. *Operations*: `deliver` (journal an
attempt, submit it, record the outcome), `accept`, `awaitClaudeReceipt`,
`scheduledFailure`, and the verbs reconcile, abandon, disconnect, connect.
*Interaction*: writers append under the alias's peer lock, `deliver` holds the
lane and the same lock; the harness answers, or does not.
*Hard*: the daemon can die between submission and record; `durableJSON` can
replace the file and still return an error; a Claude socket write has no
acknowledgement; the operator acts at any time.
*Correct when*: no line reaches the harness twice, none is passed silently, none
overtakes another, status's counts add up, nothing is submitted for a
registration that is gone.

### Work scheduler (`daemon_scheduler.go`)
*State*: registered connections, a lane per connection, the slots, the ready
set, due timers, backoffs, the one-slot kick channel, the running pass.
*Operations*: wake, tick, dispatch, sweep, operation, follow-up, release, control
verbs, register, forget, shutdown. *Hard*: every step is a separate critical
section, marks and kicks are sent by many goroutines, kicks are dropped when one
is pending. *Correct when*: one goroutine works on a record at a time, no wake is
lost, every connection is visited, shutdown waits for what it admitted.

### Daemon process and control API (`daemon.go`, `cmd/cbus/connection.go`, `cmd/cbus/daemon_upgrade.go`)
The process lock, the socket, start on demand, the restart fence, `/connect`
and its crash steps (record saved, then registration written, then memory).
*Hard*: two daemons, a client talking to the old one, a connect cut short.

### Local store and registry (`store.go`, `send.go`, `peerlock.go`, `liveness.go`, `marker.go`)
Channels, aliases, registrations; join, leave, rename, reserve, prune, send.
*Hard*: several processes race for one alias with file locks only; liveness is a
probe that may be unsure. *Correct when*: one owner per alias, mail accepted for
an owner is in that owner's mailbox, a live owner is not evicted.

### Presence (`daemon_presence.go`)
An outbox of transitions per connection, each fanned out to the mailboxes of the
channel's peers, progress journaled after each append. *Hard*: crash between
append and progress; locks of two peers; recipients replaced meanwhile; a full
outbox. *Correct when*: each present recipient gets each event once, in order.

### Relay client (`daemon_relay.go`) and relay server (`relay/cmd/cbus-relay`, `relay/internal/spool`)
A Maildir spool per alias on the server, one durable consumer per alias, frames
acknowledged by spool ID after the daemon's durable append, which skips an ID it
already holds. *Hard*: lost and repeated frames, takeover by another consumer,
crash on either side, a partial trailing record. *Correct when*: a message the
relay accepted is in the mailbox exactly once or still in the spool.

### Connection garbage collection (`daemon_gc.go`, `connection_gc.go`)
Archives the records, mailboxes and credentials of dead connections. *Hard*:
crash between two renames, a session that comes back. *Correct when*: unread mail
is archived, nothing live is collected.

### Inbox readers (`follow.go`, `cursor.go`, `identity_follow.go`, `inbox_epoch.go`, `codexstophook.go`)
Three readers count in one file: a follower with a cursor in the peer directory,
the Stop hook with another, the daemon with an offset in its record. *Hard*: the
directory is renamed, left, joined again or restored from a backup under an open
file, inode numbers come back, a reboot renumbers the device, lines are torn.
*Correct when*: nothing is skipped, nobody is shown another session's mail, a
displaced listener ends, what arrives is read.

### Forward (`forward.go`, `forward_replay.go`, `cmd/cbus/forward.go`)
One process per mailbox posts to a webhook, retries, and gives up into a
dead-letter file that a replay posts again and rewrites. *Hard*: every step may
be repeated after a break; two processes rewrite and append to one file.
*Correct when*: a frame leaves the relay only posted or recorded.

### Formations, coordinators and launches (`formation*.go`, `coordinator.go`, `launch_intent.go`, `delegation.go`)
A formation file says which sessions to put back and how. Launchers read the
world once, claim a marker per session, write a coordinator record, open a
window, and undo all that when it fails. *Hard*: several launchers, corpses of
markers, failures reported after the window opened. *Correct when*: one launch
per session, a failure takes nothing from a child that answered, a fork-born
session is not restored as its own parent.

### Records (`grant.go`, `permit.go`, `denied.go`, `regressed.go`, `ledger.go`)
The operator's grants, the coordinators' permits, the windows that collapse
repeated denials, the mark of reported model fallbacks, run claims and the
ledger: files that commands and hooks read and write without a common lock.
*Correct when*: authority is used within its words and by its session, nothing
is silenced untold, live peers agree on their run.

### Other components
Codex wrapper (`codexwrap.go`, `codexbridge.go`), terminal layout and launch
(`layout.go`, `pane.go`, `harness.go`), framing (`internal/wire`,
`internal/core`), identity discovery, installer, plugins. `PROJECT.json` gives
each one's status and the reason.

## Delivery

### State and code
A line is named by its position; the code's byte offset and the client ID it
derives from offset and hash name the same line.

| variable | code |
| --- | --- |
| `mem` | `*ConnectionState` in `d.connections` |
| `disk` | `connections/<id>.json`, what the next daemon would load |
| `inbox` | complete lines of `inbox.jsonl` |
| `reg` | whose registration `meta.json` holds: `ownership` |
| `pc` | where `deliver` is while it holds the lane and the peer lock |
| `wire`, `copies` | what the harness may still take, and what it has |
| `epoch`, `mem.binding` | the process that owns the session, and the one the record names |
| `expired` | `claudeReceiptTimeout` has passed |
| `engaged` | the harness is not ready for a new line: in a turn, showing another session, its frontend gone |
| `fenced` | a disconnect was answered, and no connect followed (history) |
| `tickError` | `d.tickErrors[id]` |

`mem.pending` has four values because the code tells four kinds of attempt
apart: none; journaled only; with `SubmittedAt` (the clean Claude write); with a
queue ID or evidence (an acknowledgement that survived a failed save in memory).

A pass is cut where the outside can see it: `JournalAttempt`, then one of
`EnqueueAcked`, `EnqueueWritten`, `EnqueueUnconfirmed`, `EnqueueRefused`, then
`AcceptAck` or `RecordWrite`. Between these `Crash` is possible; verbs and
writers are not, since lane and peer lock are held. A pass that only looks up
(`SettlePending`, `AwaitReceipt`, `LeaveUncertain`) and a verb are one step: a
lookup changes nothing. Every save has the three outcomes of `durableJSON`: done;
failed with the old file; failed with the new one (the rename took effect and
the directory sync failed).  A failed save in a pass is followed by
`scheduledFailure`'s own save, which is part of the same action.

Harnesses differ in the model as in the code. Codex answers with a queue ID and
can be started at any time. Claude's socket acknowledges nothing: the receipt is
a line in the transcript, which outlives the process. OpenCode's plugin answers
with the message it read back, and is gone with its process.

A line that was never submitted waits for its harness (`HarnessReady`): OpenCode until
the pane shows the bound session and the session is idle
(`opencodeDeliveryReady`, daemon_opencode.go:276-294), a managed Codex until its frontend is
there (`managedCodexDeliveryReady`, daemon_codex_frontend.go:26-49). A pass that finds it
not ready ends without an error and journals nothing (daemon.go:1117-1122, 1162-1172),
so the record stays healthy: the line is in the inbox and nothing says why. That is what
the comments there ask for. `HarnessTurns` changes `engaged` at any time; an unresolved
attempt does not wait for it.

### Properties
`AtMostOnce`, `NoLoss` (for memory and for the file), `NoOvertaking`; the action
property `SubmitsOnlyWhileBound`; the refinement `ImplementsMailbox`; under
fairness `MailSettledOrExplained` and `ReceiptIsFound`. Mail is settled, or the record
says why not, or the harness is gone, or it is not ready and nothing is pending: the last
is the one way in which mail waits behind a healthy record. A harness that stays
ready gets its mail. `TypeOK`, `StatusAddsUp`
and `CursorNeverRetreats` are proved and not run.

`Mailbox` is what a user is promised: lines arrive, each is handed to the
session at most once and only when those before it are resolved, each is then
settled or given up by name. The mapping takes memory's cursor for the
resolved prefix and the harness's copies for what the session got.

### Run
`delivery`: three lines, two faults, one harness restart, all three harnesses,
under `FairSpec`. Two faults allow a failed save and its failed repair, or a
failed save and a crash, in one behaviour; three lines put one before and one
behind the line in trouble. More faults are the theorems' business.

Deadlock is not checked: a detached connection with its alias taken over really
has nothing left to do.

Fairness: the sweep starts a pass on every connection every two seconds, so the
actions of a pass are weakly fair; calls to a harness have timeouts, so an
enqueue under way ends; `SF(Submit)` says that a harness asked again and again
eventually takes a line. `Restart` is not fair: the daemon is started on demand
by the next command, so liveness is promised only while it is up. Verbs are the
operator's and are not fair.

### Proofs
`DaemonProofs` proves type correctness, the six safety properties and the
refinement for any number of lines, faults and process epochs. None of them is inductive alone: a crash
replaces memory by the file, so what must hold is a relation between the two.
`IInv` adds to `TypeOK`, `AtMostOnce` and `NoOvertaking`

* `RecordOK` of memory and of the file: counts add up, what the cursor passed is
  settled or named, nothing behind the head was submitted, no attempt means
  nothing of the head was submitted;
* `Near`: the file is memory, or one save away from it, forwards or backwards, and
  in that case the line they differ in is one that was settled;
* `InDeliver`: what holds at each `pc`;
* `FenceHolds`: after a confirmed disconnect the record is disconnected in both
  places.

Each action has a lemma, `Invariance` puts them together, and the theorems follow
from it. The refinement is proved by mapping each action to a step of `Mailbox` or
a stutter. Liveness is model-checked only.

## Scheduler

### State and code
A step is one critical section of `d.mu` or one channel operation, which is the
grain at which goroutines interleave.

| variable | code |
| --- | --- |
| `live`, `born`, `detached` | `d.connections`; IDs drawn (`randNonce`, never again); `State == "detached"` |
| `lane` | `d.lanes[id]`, with its holder |
| `op` | `d.slots` and the operation's goroutine: `run`, `after` (follow-up), `lane`, `slot` (releases) |
| `kicking` | slots released, kick not sent |
| `ready`, `due`, `retry` | `d.ready`, `d.due`, `d.nextTry` in the future |
| `kick` | the channel `d.kick`, capacity one |
| `passLeft`, `rotation` | the same fields |
| `at`, `todo`, `ids`, `dropping` | where the loop is in `scheduleLoop`, `dispatchReady`, `continueSchedule` |
| `control`, `writer` | control verbs and inbox writers on their way |
| `unread`, `awaiting` | what an operation may do: accept a line, await a receipt |
| `phase` | `RunDaemon`'s shutdown |

`Begin` is `beginOperation` with `launch`'s check: a visit that `launch` drops is
finished by the loop itself (`dropping`). The result of an operation is any of
those `runScheduled` tells apart. `Dropped` reads the backoff at the step that
takes the lane; in between only a verb could change it, and verbs need the lane.

### Properties
`LaneExclusion`; `NoLostWake` (the loop never waits on a ready connection
while no kick is in the channel or to come); `CleanExit`; `AskedIsVisited`
(without any tick); `EveryoneIsVisited` (with the tick).

### Runs
* `scheduler`: two connections on one slot, so that one finds the slot taken
  while another finds its lane busy, with three beginnings over which the
  bounds are divided (`MCInit`): two lines and the tick off, where marks, timers
  and kicks alone have to bring the loop; one line nobody wakes for and the tick
  on; one verb (connect, disconnect, recovery or collection), also while the
  daemon shuts down. More connections and slots are covered by the theorems.
* `scheduler_starvation`: the same with an endless backlog; see Findings.

Deadlock is not checked: after shutdown nothing moves. Fairness: goroutines run;
Go's `select` chooses at random among the ready cases, so a tick that is ready
again and again is taken (`SF(Tick)`); an operation ends because its calls have
timeouts; timers and backoffs end. Writers may die before their wake; nothing is
assumed of a sender.

### Proofs
`DaemonProofs` extends both modules of the daemon, so that specification, invariant
and type invariant of `Scheduler` carry its name (`SchedulerSpec`, `SchedulerIInv`).
It proves the four safety properties for any finite set of
connections and slots. `NoLostWake` needs `Covered`: for each connection in the
ready set that the loop is not about to look at, somebody holds its lane or a slot
and so is still to kick, or a kick is on its way. `LaneExclusion` needs
`LanesHeld`: a lane is marked exactly while its holder is between taking and
releasing. `CleanExit` needs `Stopped`: the loop has ended before closing, and a
closing daemon admits nothing.

## Relay

One mailbox of the relay and the daemons that may subscribe to it. A consumer is
a connection ID: two consumers have two inboxes, usually on two hosts.

### State and code

| variable | code |
| --- | --- |
| `queued`, `loose` | `new/`; items renamed to `cur/` with the directory sync failed |
| `posting` | a `/send` inside the tail gate: linked into `new/`, not answered |
| `accepted`, `named` | items answered `ok`; names used |
| `addressee` | the recipient epoch in a presence item's name |
| `owner`, `tail` | `.durable-owners`; `hub.tails[key]` |
| `session[s]` | one WebSocket and its `handleDurableTail`: ends open, `outstanding`, frames both ways |
| `announced` | transitions the relay has journaled |
| `record` | the connection record: state, `PresenceOnline`, `PresenceOutbox` |
| `inbox`, `synced`, `partial` | `inbox.jsonl`, the part of it that survives a power loss, a partial last record |
| `sub` | `relaySubscription`, `runRelay`, `consumeRelay` and its publisher |
| `stopping` | `disconnectExact` inside `stopRelay`, holding lane and peer lock |

`sub[c].at` follows the read loop: `dial`, `read`, `append` (waits for the peer
lock), `sync` (holds it), `ack`, `pop` (waits for the lane in
`ackRelayPresence`). The server's steps are sections under the tail gate. The
notify channel is left out: the handler lists the spool again at each ping.
Spool names are numbers in sort order; mail is named under the gate, so in
order (a clock set back is outside the model), notices sort anywhere. Message
validation, ownership and inbox epochs are left out: every frame is valid and the
connection stays registered. The dial of a connect is made by the subscription
it starts. A save of the record succeeds, or fails in `ClientPops`; what else a
failed save does is `Delivery`'s subject.

### Properties
`NothingAcceptedIsLost` (mail answered `ok`, and transitions),
`InboxHoldsOnceInOrder`, `NoticeReachesItsEpoch`; the action property
`SettledByHolder`; the refinement `ImplementsPostbox`; under fairness
`DisconnectReturns`, `MailReachesUnlessIgnored`, `PresenceReachesRelay`. `TypeOK` is
stated for the reader.

`Postbox` is the mailbox without sockets, acknowledgements or crashes: an item gets
a name once, mail whose sender was told `ok` is dropped only when a consumer has
it, and what a consumer has only grows, holds nothing twice, and keeps the order
of the names but for mail another consumer had before. The mapping takes the
synced part of an inbox for what its consumer has, and `new/` with what `cur/` may
give back for what is held.

### Runs
* `relay`: four beginnings over which the bounds are divided (`MCInit`). One
  consumer with a message, a transition and a fault; one consumer with two
  messages and two faults (an append without its sync followed by a power loss,
  or a crash on each side); two consumers that hand the mailbox over, with a
  message, or with a notice and a fault.
* `relay_ignored_mail`: the same instance; see Findings.

Two WebSockets are enough for an old handler that has not noticed its end next
to the current one.
Deadlock is not checked: with everything delivered nothing need happen.

Fairness: goroutines and handlers run, the scheduler's tick restarts a
subscription, dials are retried each second, reads have deadlines, so a closed
or displaced socket is noticed. `NoFault` keeps faults out of it: no fault is ever
due. Senders, verbs and faults are not fair. Mail behind a partial trailing
record is not promised anything, as the code refuses it.

### Proofs
`RelayProofs` proves the three invariants, `SettledByHolder` and the refinement for any finite
sets of consumers and sockets and any number of items, events and faults. The
invariants lean on the wire, where one message may be repeated:

* `WiresFine`: a socket carries its one outstanding message in one place (a frame
  down, the consumer's hands, or an acknowledgement up), and an acknowledgement
  only of what is synced;
* `Backed`: what a failed directory sync left in `cur/`, and a crash may bring
  back, is synced somewhere;
* `SentInOrder`: before a mail was sent every earlier one had a name and had left
  the spool, or is synced. Without it the order of an inbox is not inductive, since
  a message that a crash brings back is older than what follows it.

The refinement splits a step by whether the synced part of an inbox grows. If it
does, the step is `ClientSyncs`, nothing of the spool changes, and it is a `Keep` of
the unsynced suffix, in place by `InboxHoldsOnceInOrder`. If not, the step is a
stutter or one on the spool: a `Take`, a `Promise`, or a `Drop`, and what a crash or
an acknowledgement drops was never promised or is stored, by `Backed` and
`WiresFine`.

## Presence

The local half: connections of one channel that announce joins, departures,
leaves and compactions to their peers. The relay's half is in `Relay`.

`reg` is `meta.json` with an epoch for the inbox file and its ids; `rec[c]` is the
journal in the connection record (`PresenceOnline`, `PresenceOutbox`, the
compaction cursor), a transition with the set of its recipients, of which the next
is the first in directory order; `pc[c]` is where `flushPresence` stands: `flush` (about to take
the first lock), `second` (about to take the other and append), `save`. Between
append and save the daemon may crash and the append be made again; `lock[a]` is
the peer lock, taken in the order of the keys; `rename` is another process
that takes two of them. `said` and `aimed` are ghosts: what a source recorded, and
for which registrations.

`NoticesWellPlaced`: at most once, in order, and only in the inboxes of the
registrations the notice was recorded for. `JoinsAlternate`: what a source
announces makes sense, also when probes cannot tell and the outbox is full.
`NoCircularWait`: no set of processes waits in a circle for peer locks.
`NoticesSettle`: a journalled notice reaches its recipients, unless the source's
registration goes, an inbox ends in a torn line, or the full outbox refuses the
source's next transition (then the tick ends before the fan-out, and the journal
stays full: the code's own dead end, kept as the exception).

Run `presence`: three aliases, two of them sources, an outbox of one, two
transitions, two changes of the roster, one fault. An outbox of one is full at
once; the code's 128 would not be reached. Fairness: ticks of the scheduler, and
strong fairness of the fan-out, since a lock is polled for five seconds and held
for one append.

`PresenceProofs` proves the three invariants for any number of aliases, sources,
transitions and faults and any outbox. A circle of waiting processes needs one
that holds a lock after the one it waits for: `LocksInOrder` says that a process
holds nothing but the first lock of its pair, so among the waiting ones of a set
the one that waits for the greatest lock waits for no member. `NoticesWellPlaced`
needs that a journal numbers its transitions without a gap (`Numbered`) and that
nothing a source has placed is newer than its journal's head (`PlacedUpToHead`):
an append that a crash repeats is then the last one of its source, and is found.
`JoinsAlternate` needs `OnlineAsSaid`, the journal's memory of what it said last.

## Registry

One channel's directories and the commands on them. A command reads, waits for
the peer lock of its alias, and acts on what it had read: `op` is the one command
between the two (`JoinStarts` and `JoinClaims`, `PruneSees` and `PruneReaps`,
`Begins` and `RenameMoves`/`LeaveRemoves`/...). `daemon` is a connect or a collection between two of
its writes, each of which `Stops` may be the last. `dir[a].listener` is what
`MetaListenerAlive` and `PeerDead` tell apart; `Ages` lets a listener die or the
grace pass. Of a connection's presence the record has what was last announced (`shown`: off,
on, or on as a managed CLI) and whether the outbox is empty, waiting, or stuck behind a
recipient that cannot be written (`notes`): `collectOne` refuses while a notice waits, and
inspects a managed CLI once more (daemon_gc.go:130-150), which may announce its end,
or fail (`CollectRefuses`).

`MailAccounted`: mail a send reported as accepted is in the registration's
inbox, delivered, or in an archive's unread export, unless a command removed its
registration. `NobodyIsEvicted`: no command takes an alias from a peer that
listens or is managed when it acts, whatever it had seen before.
`CollectionFinishes`: a connection that stays due is collected, also when a collection
was cut short. The exception is the code's (`Untellable`): `flushPresence`
tells nothing for a record that no longer owns its alias, and stops at a recipient
whose inbox is torn (daemon_presence.go:296-341), so a record with such a notice is refused by
every pass, for good.

Run `registry`: two aliases, two sessions, one message, one connection record,
one fault (a stop, a failed save or inspection, a recipient that cannot be written): 1.5
million states. One command waits while all the others run whole: two commands
suffice for every race over one read and one write.

`RegistryProofs` proves `MailAccounted` and `NobodyIsEvicted` for any number of
aliases, sessions, messages, connections and stops. The invariant says what a
directory that names a connection owes it (`DirFine`: the record is of this alias
and session, its cursor counts only mail that was handed over, and an earlier export
holds nothing that is neither there nor handed over) and what each of the
daemon's writes finds (`DaemonFits`). Why the daemon finds the directory as it
left it is the peer lock it keeps, which every command takes before it writes.

## Follower

`dir[p]` is a peer directory (session, inode of its inbox, listener, the
follower's cursor, the Stop hook's cursor), `file[n]` an inode's contents in half
lines, `fol[f]` a follower process, `hook[s]` a Stop hook (polling, having
looked, or holding the `lines` it is about to hand over), `con` the connection
record with its offset, device, inode and last record, `dev` the volume's device
number, which a reboot changes. `EpochDecision` is `inboxEpochDecision`.
On Windows a new device is refused (`fileid_windows.go:15`); the model has the
Unix rule.

Ghosts say where a record may be wrong about its reader. Of a directory: `skipped`,
how far an open jumped without reading; `foreign`, that a reader of another
registration moved a cursor in it; `again`, that its inbox was replaced by a file
whose inode number one of its records names already. Of a follower: `late`, that the alias
changed hands between its last look and its open; `moved`, that the inbox its
resume offset counts in was replaced before the open.

`NothingIsSkipped`: each of the three positions counts only lines its reader
dealt with, for the registration that is there. `OwnMailOnly`: no follower shows
and no connection settles another session's mail. `DisplacedStops` and
`MailIsRead` under fairness of the readers' loops and of the daemon's passes.

Run `follower`: two aliases, sessions and followers, three inodes, two messages,
and thirteen mixes of commands and mishaps (`MCBudgets`), each a question of its
own: theft, restart after a kill or an unsaved cursor, the alias joined by
another, renames, replaced inboxes, the Stop hook, reboots of the daemon's machine.

The exceptions in the properties are behaviours of the code:
* an arm without a cursor starts at the end of the file (follow.go:223), also when a
  crash came between `armMetaLocked` and the first `writeCursor`, and also in the middle of
  a line being written;
* a follower resolves its resume offset under the peer lock (`resolveResume`), and
  `openFollow` seeks to it later, in whatever file is at the path by then
  (follow.go:352). When the session left and joined again in between, or the inbox
  was replaced, what was appended to the new file below that offset is never shown,
  and the cursor counts it (`moved`, `skipped`). The comment on `resumePoint`
  says of the window between resolving and seeking that "it is reachable ONLY through
  the migration rule" (cursor.go:36); this is a second way into it. The attempt to prove
  the property found it: no mix had two arms and a replacement, and now one has;
* a follower that was armed but has not opened its file opens whatever is there
  then, and may show a line of the next session (`late`, `foreign`);
* a cursor, a Stop cursor and the connection's record know a file by device and
  inode number. An inbox replaced by a file that got the number again which an older
  record names is taken for the old one, and is read from that record's offset when
  it is long enough (`again`). A new registration is safe: its directory is new and has
  no record, and that of the connection says whose it is;
* the Stop hook writes its cursor for one registration (codexstophook.go:127), goes on to
  the next, and prints the block when it has them all. Killed in between, by its time
  limit or by the user, it loses lines the cursor counts (`HookReads`, `HookHands`,
  `HookDies`; the ghost `cut` has them), although codexstophook.go:170-171 says that a
  failure costs a re-delivery. The cursor is right about every other line;
* the Stop hook resolves its registrations once and polls for up to 550 s: after
  an explicit join by another session it may hand that session's line to the old
  one (codexstophook.go:73 says that a stranger's mail is not drained), so the hook is
  not in `OwnMailOnly`. Between its look and its read (codexstophook.go:88-104) the inbox
  may be replaced: then it writes into the new file's directory a position of the old one
  (`hook.own`, `foreign`);
* a line glued to a torn one makes every pass of the daemon fail (daemon.go:1112);
* an inbox overwritten in place with the same inode is recognised by its size
  only (inbox_epoch.go:12-16).

### Proofs
`FollowerProofs` proves type correctness (of every variable, the ghosts included),
`NothingIsSkipped` and `OwnMailOnly` for any
sets of aliases, sessions and followers, any finite set of inodes, any number of messages
and any budgets. Neither is inductive. What a cursor says was true when somebody
read, so the invariant follows a position from the disk through the reader and back:

* `CursorInv`, `StopInv`: the positions on disk, of a clean registration, in this
  file and under this device;
* `ArmedInv`, `HookInv`: the position of a reader that has looked and not yet read,
  unless the inbox was replaced meanwhile; the lines behind a Stop cursor are in `Dealt`:
  handed over, still held, or cut, and a line only moves from the second to the others;
* `ReaderInv`, `OpenInv`: the position of a reader with an open file. It is one of
  the file, which may no longer be in any directory, so the claim is about every
  directory that has that inode. Beyond the boundary is no whole line, which is why
  recording the boundary, and not the offset, is enough;
* `OffsetInv`: the connection's position while its device and inode are the present ones,
  and, for the case that they are not, that everything before a record it consumed
  is settled: this is what makes the anchor enough after a reboot and a backup;
* `FileInv`: half lines are in the order they were sent, an end follows its
  beginning, and everything in an inbox was sent to the session that has it;
* `DirInv`: no inode is in two directories, only the connection's registration is
  managed, and who is in the middle of a line is at the end of that inbox.

A position counts lines through `Settled` and `Passed`, which speak of a sequence of
half lines and not of a file, so that each action needs only one of four facts: the
sequence stays (`ReaderStep`, `HookStep`, `ConStep`), it grows (`SentStep`), the
directories are put elsewhere or begin anew (`Reshape`), or nothing counts any more
because the device is new (`RebootStep`).

## Forward

`spool` (a set: messages are numbered in the order of their names), `acks`,
`open`: what one forwarder sees of the relay. `fwd.pc` follows
`Run` and `session`: dialling, idle, holding a frame, posting, recording it as a dead letter,
acknowledging. `rep` is a replay between its reading of the file, its posts, and
the two halves of `removeDeadLetterLine`. A message is a chat line, presence or
stale presence (never posted), garbled, or larger than the client's frame limit.

`NothingIsLost`: a frame that left the relay was posted or recorded.
`SkipsTheBacklog`: `--skip-queued` skips what was queued when it counted and
nothing else, also across reconnects in the middle of it; the exception `wrong`
is a count that includes presence the relay will not send (docs/forward.md:178-179
describes it). `EverythingSettles`: no message blocks the head of the mailbox
while a service runs, but one over the frame limit. The read fails and ends each session
(forward.go:238-242, `Unreadable`), the relay sends the message again to the next, and what is
behind it waits (`Blocked`): the limit docs/forward.md:94-96 states.

Run `forward`: six messages, one of every kind and one behind the one that cannot be
read, two attempts, six mixes of starts,
stops, skips, breaks, failed writes and replays. A rival forwarder on another
machine (docs/forward.md) is not modelled.

`ForwardProofs` proves both invariants for every sequence of messages, attempt
limit and budget. `NothingIsLost` needs that whatever may be acknowledged, now or
after a reconnect, is settled (`AcksAreSettled`), and that a replay between its
two writes drops a record only of a message the webhook took (`ReplayKeeps`).
`SkipsTheBacklog` is about a count of frames that must come to mean a set of
messages: `SkipCounts` says that the frames still to skip are as many as the
unskipped messages of the backlog, and at least as many when the relay counted
what it will not send.

## Formation

`file` is the formation, `seat` the registrations, `marker` the launch intents
with the `reclaim` lock, `coord` the coordinator records, `proc` the windows that may
have opened, `launch[l]` a launcher inside `applyWorld`. The launch of one peer is
cut at each system call on a shared file: `ReserveAlias`, `Link` (or `Taken`,
`Peek`, `Swap` on a corpse), `RecordCoordinator`, `Fork` (which may report failure
and open the window all the same), `Undo`, `Unreserve`. A join is cut where it takes its
lock: `JoinLooks` reads the birth and prunes (store.go:216-247), `Join` takes the name with what
was read, or is refused by a live listener and may be tried again. `Apply` has `--mode` and
`--only`; `Rename` goes over any name that is not listening and leaves the listener
of the old name behind. `late` holds processes whose marker no longer guards them.

`OneChildOnTheWay`, `FailureTakesNothing`, `ForkIsNotTakenIn` are explained at
their definitions. Run `formation`: two launchers, two aliases, three sessions and
processes, six mixes, each a race of its own: an apply, two resumes of the anchor and a
corpse; an apply, an anchor and a session started by hand with a failing forker; an
apply and a branch that fails; a branch that exits, is saved, and is applied with `--mode`
or `--only`; a branch and a session started by hand, one of which exits and is saved; an
apply, a spawn, a bootstrap and a rename with a kill (4.3 million states). Bootstrap for an
orchestrator names nobody and so removes the record (coordinator.go:126-127, 288). Run
`formation_undo`: see Findings. Safety only, so launchers are symmetric.

`FormationProofs` proves the three properties for any sets of launchers and
aliases, any numbers of sessions and processes and any mix of commands. The
invariant:

* `Guarded`: a fresh marker stands for one launcher that claimed it or for one
  process on its way behind it, and names its session; with `Locked` (who replaces a
  corpse holds its lock, and it is one) this is `OneChildOnTheWay`;
* `HandedOut`, `Newborn`: a session is known only after it was given out, and the
  session of a child that is up and has not joined is known nowhere else, so that
  its first join is the one that binds its record;
* `OpenRecord`: what the undo of a launch that is no resume compares with is a
  record bound to nobody, so a bound one differs from it;
* `Marked`: the registration of a session in the ledger says `fork`;
* `Alone`: what a join read before its lock is still true when it has it, unless another
  join of the same session overlapped it.

The attempt to prove them showed that two properties had been stated too broadly,
and that the mixes had hidden it. `OneChildOnTheWay` had said "one child per
session": the markers are per alias, and a session that moves to another alias
between two applies is resumed twice (below), so the property is about a session
under its name. `ForkIsNotTakenIn` had covered every
session of the ledger: one that answers the placeholder of a fresh launch gets the
placeholder's birth (`birthForJoin` looks there first), which the ghost `blurred`
records and the property now names. It takes a branch, a spawn, a session started by
hand, an exit and a save in one behaviour, more than the run's mixes allow together
(TLC was given that mix by itself while the invariant was sought).

What the model shows and the properties leave out, on purpose:
* a plan is made once; a session that exited, whose marker expired or was
  cleared between plan and launch is launched a second time (`late`;
  launch_intent.go:311-313 says the live-armed gate prevents it, but that gate is in the plan);
* a session that changes its name between two applies is resumed under both: the
  first apply's window is still opening (it shows in no listener, process or
  registry) when the session, started by hand, joins a second alias and ends, and a
  save makes that alias name it. The marker's file is named by channel and alias
  (launch_intent.go:57), so the second apply meets no marker, although
  simple_changelog.md:35 says that two applies cannot resume the same session;
* two processes of one session that join at the same time: both read before either has a
  lock, so both register, and the one that read the ledger before the other wrote it is
  recorded as `joined` (`blurred` has such sessions too);
* two launches of one template alias, and a stranger that joins an alias with an
  open coordinator record within its 24 hours and is bound to it;
* a fork-born child whose placeholder was pruned joins as `joined`, so that a
  later plan may resume it, although formation_plan.go:314-326 says that a fork-born
  peer must never be resumed. `ForkIsNotTakenIn` holds because the ledger
  is asked as well when the session is saved.

## Records

A `call` is a process of a command or hook; `call[c].pc` names the file operation
it is about to do. A join keeps its peer lock while it looks for its run
(`Resolve`, `Adopt`, `AcquireMintLock`, `Mint`, `Commit`, `RecordJoin`). Each of its up to three
looks is `liveRuns` as it is: a listing of the directory (`Lists`), then of one name after
the other the record (`LooksAt`) and the claim (`ReadsClaim`), in any order and with no lock
on them. An event that cannot be written is lost and its command stands
(`Logs`, `RecordJoin`). A join's first look, for the boundary (`was`), is one step. Of the rest, a grant is read and
then taken (`UseGrant`, `TakeGrant`); a permit is found and then counted; a
denial is claimed, told, and released when it could not be told; fallbacks are
reported one by one and then the mark is written. Everyone may be killed, find
a lock taken, or a file it cannot write.

`UseIsGranted` (a grant is used by the session it was shown for, a once grant once,
a permit within its words), `SilencedWasTold` (denials and fallbacks), `RunsHoldTogether` (live peers share a run; a leave in the ledger
names the run that was joined). Run `records`: two calls, three aliases and
sessions, two grants, permits and runs, seven mixes, of which three are about runs: three
joins with a leave and a rename, a death and a return, or both, and a write that fails or a
kill. The exceptions are ghosts:

* `apart`: live peers may be of two runs when one adopted a run whose holders went
  before its claim was written, when a peer taken for dead came back, and when a peer was
  renamed, replaced or left while a joiner looked under the mint lock. Such a rename
  (store.go:624) moves a live peer to a name already read, or away from one listed and not read
  yet, so the joiner sees no run and mints a second one, although the comment at
  ledger.go:242-243 says that an opener under the lock "converges instead of
  minting a second id". Nothing restores the one run while both sets of holders live;
* `lost`: a join whose event could not be written keeps its claim (ledger.go:585-617), and a
  process killed between claim and event does, so a leave names a run no join in the ledger
  opened; the comment at ledger.go:566-572 asks readers to tolerate it. The exception is of
  that session and run only;
* `cut`: a call killed between its claim and its release leaves a denial claimed and
  not told, and so does a release that gets no lock (denied.go:310-314).

`RecordsProofs` proves the three invariants for any sets of calls, aliases and
sessions and any mix. The kinds of records hardly touch each other, so each action
is shown once to leave alone the kinds it is not about, and each kind has an
invariant of its own: what a call carries between finding a grant or permit and
counting it still fits (`GrantsFit`, `PermitsFit`); what a report is past was told
(`ReportsTold`); a join has its alias to itself until it has recorded its run
(`LocksHold`), one call at a time holds the mint lock, and the run it will claim is
that of all live peers (`Together`). That needs `LookSees`: while nothing stirred, a
look under the mint lock has seen the run of every live peer, or has its name still to read.
Types are split into a part per kind (`Typed`) and the budgets (`LeftTyped`), so that no
action has to type what it leaves alone. Two assumptions name what the code has by
construction: an alias is not a session id (the set of calls cut short holds both),
and there are at least as many sessions as aliases, for the channel that a
behaviour may find full.

## Findings

`scheduler_starvation`: the comment above `schedule` (daemon_scheduler.go:371)
says that a pass that runs out of slots is resumed by the next kick. `drive`
dispatches the ready set first and does not continue the pass unless slots remain.
An operation that accepted a line has marked its own connection ready again
before its release kicks. So while `daemonMaxOperations` connections have a
continuing backlog, every freed slot goes back to one of them and the pass does
not resume. Connections that are woken are still served (they are in the ready
set), what waits is what only the sweep would find: mail whose writer did not
wake the daemon, the end of a backoff, an exit to be noticed.

`relay_ignored_mail`: a disconnect with a pending leave gets a publish-only
subscription. The relay sends it the first queued message as to any other, and the
client drops it without an ACK. When the user connects again before the publisher
closes that socket (it looks every 100 ms), `connectRelay` keeps the running
subscription. The relay still waits for the ACK of the dropped message, so neither
it nor later mail is delivered until the socket breaks or the next disconnect.
The mail is not lost (`NothingAcceptedIsLost`), but nothing shows that it waits.

`formation_undo`: a launcher writes the coordinator record before it forks. For a
resumed session the record is bound to the session's id from the start, so the
child's join leaves its bytes alone. When the forker then reports a failure (its
window had opened all the same), `undo` finds exactly what it wrote, takes that
for a child that has not answered, and removes or restores it. The comment at
coordinator.go:144 says that a child that has since answered owns the record. The
child is up and armed; what it lost is its coordinator, so its denials and
fallbacks are told to nobody and its coordinator's permits no longer cover it.

## What is not modelled

* Byte formats: framing, WebSocket, JSON, rendering and redaction of texts.
* Process tables, endpoints and ancestry walks: their answers are inputs.
* Terminals, harness launches and their plugins, the Codex wrapper and bridge:
  protocols defined outside this repository.
* Parsing and output of the command line, installer, self-update.
* Two daemons at once (process lock, start on demand, restart fence).
* The relay's fan-out journal per recipient, its legacy `/tail`, prune and
  remote leave; `BroadcastPresence` of unmanaged peers.
* Waiting for convergence, kickoff texts, anchors and drift of formations.
* Ledger events other than join and leave; listings of grants and permits.

## What is proved and what is only checked

Proved for every value of the constants: type correctness of every module; every
invariant the runs check; the action
properties `SubmitsOnlyWhileBound`, `SettledByHolder`, `NobodyIsEvicted`,
`ForkIsNotTakenIn` and `FailureTakesNothing`; that `Delivery` implements
`Mailbox`; and that `Relay` implements `Postbox`. The assumptions on the constants are those of the modules, and TLC
evaluates them for each instance.

Every proof has one shape: an invariant `IInv` of named parts that was first checked
by TLC on the instance of the run (for `Formation` also on other mixes), lemmas
that say of an action what it does or leaves alone, one step per action or group of
actions, and the theorems as consequences.

Only model-checked: liveness under fairness, because TLAPS has no rules for
`ENABLED` here. The bounds of those runs are divided over
several beginnings or mixes (an initial value of `left`, or of the counters), so that
each hazard gets enough of what it needs without paying for all the others.

## Plan

What is left: the daemon's life cycle (two daemons at once, the process lock), the
relay's fan-out journal per recipient, and, when the prover has rules for `ENABLED`,
the liveness properties.
