------------------------------ MODULE Registry ------------------------------
(***************************************************************************)
(* The store of one channel: a directory per alias with a registration     *)
(* and its inbox, the command line's join, reserve, leave, rename, prune   *)
(* and unregister, each under the peer lock of its alias but deciding on   *)
(* what it read before, the senders, and the daemon's connect, disconnect  *)
(* and collection with a crash between any two writes.                     *)
(*                                                                         *)
(* A message is a number, a session id a model value; one command at a     *)
(* time is between its reading and its lock, while every other one runs    *)
(* whole.  Of a record's presence notices only that there are some is kept *)
(* (module Presence), of its delivery journal only a cursor (module        *)
(* Delivery).  Left out: what the registrations say, credentials, and the  *)
(* wait for a lock, which an action takes only when it is free.            *)
(***************************************************************************)
EXTENDS Naturals, Sequences, FiniteSets, SequencesExt

CONSTANTS
    Aliases,     \* the aliases, numbered in the order an automatic pick tries
    Sessions,    \* session ids
    Reserved,    \* the session id of a launch placeholder
    MaxMail,     \* bound: messages sent
    MaxConns,    \* bound: connection records
    MaxFaults    \* bound: crashes and failed steps

ASSUME RegistryAssumption ==
    /\ Aliases \subseteq Nat \ {0} /\ IsFiniteSet(Aliases)
    /\ Reserved \notin Sessions
    /\ {MaxMail, MaxConns, MaxFaults} \subseteq Nat

VARIABLES
    dir,      \* dir[a]: the peer directory of alias a
    rec,      \* rec[c]: the record file of connection c
    unread,   \* unread[c]: the export a collection of c wrote
    op,       \* the command that has read and not yet got its lock
    daemon,   \* the connect or the collection under way
    mails, faults,
    got,      \* ghost: the messages a connection handed over
    dropped   \* ghost: the messages a command removed with their registration, or
              \* that went with an old archive

vars == <<dir, rec, unread, op, daemon, mails, faults, got, dropped>>

AnyName == 0
Conns == 1 .. MaxConns

\* A directory: none, one without metadata, or a registration.  Its listener
\* never armed, is alive, or is gone, for which one that never armed counts
\* after ten minutes.
Listeners == {"never", "alive", "gone"}
Directory == [kind : {"absent", "bare", "peer"}, sid : Sessions \cup {Reserved},
              conn : 0 .. MaxConns, listener : Listeners, mail : Seq(1 .. MaxMail)]
Absent == [kind |-> "absent", sid |-> Reserved, conn |-> 0, listener |-> "never",
           mail |-> <<>>]
Bare == [Absent EXCEPT !.kind = "bare"]
Peer(s) == [Absent EXCEPT !.kind = "peer", !.sid = s]

\* A record: whether its consumer runs; what was last announced of it (offline,
\* online, or online as a managed CLI); and whether notices of that wait in its
\* outbox, where they stick when a recipient's inbox is torn (module Presence).
Record == [state : {"none", "ready", "disconnected", "detached", "archived"},
           alias : Aliases \cup {0}, sid : Sessions \cup {Reserved}, seen : 0 .. MaxMail,
           consumer : BOOLEAN, shown : {"off", "on", "cli"},
           notes : {"none", "open", "stuck"}]
NoRec == [state |-> "none", alias |-> 0, sid |-> Reserved, seen |-> 0, consumer |-> FALSE,
          shown |-> "off", notes |-> "none"]
Idle  == [pc |-> "idle", c |-> 0, a |-> 0, s |-> Reserved]
NoOp  == [pc |-> "idle", s |-> Reserved, a |-> 0, b |-> 0]

TypeOK ==
    /\ dir \in [Aliases -> Directory] /\ rec \in [Conns -> Record]
    /\ unread \in [Conns -> Seq(1 .. MaxMail)]
    /\ op \in [pc : {"idle", "join", "leave", "rename", "prune"},
               s : Sessions \cup {Reserved}, a : Aliases \cup {0}, b : Aliases \cup {0}]
    /\ daemon \in [pc : {"idle", "made", "saved", "exported", "moved"}, c : Conns \cup {0},
                   a : Aliases \cup {0}, s : Sessions \cup {Reserved}]

Init ==
    /\ dir = [a \in Aliases |-> Absent] /\ rec = [c \in Conns |-> NoRec]
    /\ unread = [c \in Conns |-> <<>>] /\ op = NoOp /\ daemon = Idle
    /\ mails = 0 /\ faults = 0 /\ got = {} /\ dropped = {}

Fault == faults < MaxFaults /\ faults' = faults + 1

(* ------------------------------------------------------------ the store -- *)

\* The daemon holds the peer lock from the directory to the published
\* registration, and from the export to the archived record.
LockFree(a) == daemon.pc = "idle" \/ daemon.a # a

IsPeer(a)   == dir[a].kind = "peer"
Managed(a)  == IsPeer(a) /\ dir[a].conn # 0
Placeholder(a) == IsPeer(a) /\ dir[a].sid = Reserved /\ dir[a].conn = 0
Listening(a) == IsPeer(a) /\ dir[a].listener = "alive"

\* PeerDead: what a prune may sweep.
Dead(a) == IsPeer(a) /\ dir[a].conn = 0 /\ dir[a].listener = "gone"

\* An explicit claim of a name may replace what is there.
Reclaimable(a) == ~Managed(a) /\ ~Listening(a)

Mine(s) == {a \in Aliases : IsPeer(a) /\ dir[a].sid = s}

\* The dead peers a prune of the channel removes on its way.
Prunable == {a \in Aliases : Dead(a) /\ LockFree(a)}

\* A command writes directories over those of the aliases of d, and what mail
\* they held is gone.
Writes(d) ==
    /\ dir' = [a \in Aliases |-> IF a \in DOMAIN d THEN d[a] ELSE dir[a]]
    /\ dropped' = dropped \cup
          ((UNION {Range(dir[a].mail) : a \in DOMAIN d})
              \ (UNION {Range(d[a].mail) : a \in DOMAIN d}))

Puts(a, d) == Writes([x \in {a} |-> d])
Removes(A) == Writes([a \in A |-> Absent])

\* claimAlias: the first name that is neither registered nor half made.
Pick(a) == dir[a].kind = "absent" /\ \A b \in Aliases : b < a => dir[b].kind # "absent"

(* ------------------------------------------------------ the command line - *)

\* What a command leaves alone: the daemon's state and the senders'.
CommandOnly == UNCHANGED <<rec, unread, daemon, mails, got>>
Keep == UNCHANGED <<dir, dropped>>

\* Join prunes the channel and looks for the session's own registration ...
JoinStarts(s, a) ==
    /\ op = NoOp
    /\ Removes(Prunable)
    /\ op' = IF Mine(s) \ Prunable # {} THEN NoOp ELSE [NoOp EXCEPT !.pc = "join", !.s = s, !.a = a]
    /\ CommandOnly /\ UNCHANGED faults

\* Mutant: a managed name counts as dead.
MutantJoinClaims ==
    /\ op.pc = "join"
    /\ \E a \in Aliases :
          /\ LockFree(a)
          /\ IF op.a = AnyName THEN Pick(a) ELSE a = op.a
          /\ IF ~Listening(a) \/ Managed(a) THEN Puts(a, Peer(op.s)) ELSE Keep
    /\ op' = NoOp /\ CommandOnly /\ UNCHANGED faults

\* ... then claims the alias under its lock: a free one, or the one asked for
\* unless it is managed or listening.  A process killed between the directory
\* and its metadata leaves the directory bare.
JoinClaims ==
    /\ op.pc = "join"
    /\ \E a \in Aliases :
          /\ LockFree(a)
          /\ IF op.a = AnyName THEN Pick(a) ELSE a = op.a
          /\ \/ Reclaimable(a) /\ Puts(a, Peer(op.s)) /\ UNCHANGED faults
             \/ Reclaimable(a) /\ Puts(a, Bare) /\ Fault
             \/ ~Reclaimable(a) /\ Keep /\ UNCHANGED faults
    /\ op' = NoOp /\ CommandOnly

\* ReserveAlias: a placeholder for a child that has no session id yet.
Reserve(s, a) ==
    /\ LockFree(a) /\ a \notin Mine(s) /\ Reclaimable(a)
    /\ Puts(a, Peer(Reserved))
    /\ CommandOnly /\ UNCHANGED <<op, faults>>

\* Unreserve: the launch failed, and nobody has answered the placeholder.
Unreserve(a) ==
    /\ Placeholder(a) /\ LockFree(a) /\ Removes({a})
    /\ CommandOnly /\ UNCHANGED <<op, faults>>

\* Leave and rename take the session's registration from a snapshot, and a
\* prune sees a dead peer ...
Begins(s, a, b) ==
    /\ op = NoOp /\ a \in Mine(s)
    /\ op' = [pc |-> IF b = a THEN "leave" ELSE "rename", s |-> s, a |-> a, b |-> b]
    /\ CommandOnly /\ Keep /\ UNCHANGED faults

PruneSees(a) ==
    /\ op = NoOp /\ Dead(a)
    /\ op' = [NoOp EXCEPT !.pc = "prune", !.a = a]
    /\ CommandOnly /\ Keep /\ UNCHANGED faults

\* Mutant: the snapshot is trusted.
MutantLeaveRemoves ==
    /\ op.pc = "leave" /\ LockFree(op.a) /\ Removes({op.a})
    /\ op' = NoOp /\ CommandOnly /\ UNCHANGED faults

\* ... and look at it again under the lock.  A leave that the session's exit
\* makes keeps a managed registration.
LeaveRemoves ==
    /\ op.pc = "leave" /\ LockFree(op.a)
    /\ \E exits \in BOOLEAN :
          Removes({a \in Mine(op.s) \cap {op.a} : ~(exits /\ Managed(a))})
    /\ op' = NoOp /\ CommandOnly /\ UNCHANGED faults

PruneReaps ==
    /\ op.pc = "prune" /\ LockFree(op.a)
    /\ Removes(IF Dead(op.a) THEN {op.a} ELSE {})
    /\ op' = NoOp /\ CommandOnly /\ UNCHANGED faults

\* The directory moves, over a dead holder's.  The listener of the old name
\* must arm again.
RenameMoves ==
    LET a == op.a
        b == op.b
        moved == [dir[a] EXCEPT !.listener = IF @ = "alive" THEN "gone" ELSE @]
    IN  /\ op.pc = "rename" /\ LockFree(a) /\ LockFree(b)
        /\ IF a \in Mine(op.s) /\ ~Managed(a) /\ Reclaimable(b)
           THEN Writes([x \in {a, b} |-> IF x = a THEN Absent ELSE moved]) ELSE Keep
        /\ op' = NoOp /\ CommandOnly /\ UNCHANGED faults

\* Unregister removes any peer, a half-made directory too.
Unregister(a) ==
    /\ dir[a].kind # "absent" /\ LockFree(a) /\ Removes({a})
    /\ CommandOnly /\ UNCHANGED <<op, faults>>

\* A tail arms the registration; a listener dies, or ten minutes pass without
\* one.
Arm(a) ==
    /\ IsPeer(a) /\ LockFree(a) /\ ~Managed(a) /\ ~Listening(a) /\ ~Placeholder(a)
    /\ dir' = [dir EXCEPT ![a].listener = "alive"]
    /\ CommandOnly /\ UNCHANGED <<op, faults, dropped>>

Ages(a) ==
    /\ IsPeer(a) /\ dir[a].conn = 0 /\ dir[a].listener \in {"never", "alive"}
    /\ dir' = [dir EXCEPT ![a].listener = "gone"]
    /\ CommandOnly /\ UNCHANGED <<op, faults, dropped>>

\* LocalSend: to anyone who never armed or who listens, or to a dead listener
\* with --force.  A registration with a daemon behind it is alive or gone with
\* the daemon: both are accepted here.
Send(a) ==
    /\ IsPeer(a) /\ LockFree(a) /\ mails < MaxMail
    /\ mails' = mails + 1
    /\ dir' = [dir EXCEPT ![a].mail = Append(@, mails + 1)]
    /\ UNCHANGED <<rec, unread, op, daemon, faults, got, dropped>>

(* ------------------------------------------------------------ the daemon - *)

Owns(c) == IsPeer(rec[c].alias) /\ dir[rec[c].alias].conn = c
             /\ dir[rec[c].alias].sid = rec[c].sid

\* applyConsumerProbe, disconnectPresence: what is shown changes, and a notice
\* of a coming or a going joins the outbox.
Announced(r, shown) ==
    [r EXCEPT !.shown = shown,
              !.notes = IF @ = "stuck" \/ (r.shown = "off" <=> shown = "off") THEN @ ELSE "open"]

OnFile(c) == rec[c].state \in {"ready", "disconnected", "detached"}

\* What a step of the daemon leaves alone.
DaemonOnly == UNCHANGED <<op, mails, dropped>>

\* connect of a session without a registration of its own here: the alias is
\* made, or a launch placeholder inspected, under its lock.
ConnectMakes(s, a) ==
    /\ daemon = Idle
    /\ \A c \in Conns : rec[c].sid = s /\ OnFile(c) => rec[c].state = "detached" \/ ~Owns(c)
    /\ \E c \in Conns :
          /\ rec[c] = NoRec /\ \A x \in Conns : x < c => rec[x] # NoRec
          /\ daemon' = [pc |-> "made", c |-> c, a |-> a, s |-> s]
    /\ \/ dir[a].kind = "absent" /\ dir' = [dir EXCEPT ![a] = Bare]
       \/ Placeholder(a) /\ UNCHANGED dir
    /\ DaemonOnly /\ UNCHANGED <<rec, unread, faults, got>>

ConnectSaves ==
    /\ daemon.pc = "made"
    /\ rec' = [rec EXCEPT ![daemon.c] =
                  [state |-> "ready", alias |-> daemon.a, sid |-> daemon.s, seen |-> 0,
                   consumer |-> TRUE, shown |-> "off", notes |-> "none"]]
    /\ daemon' = [daemon EXCEPT !.pc = "saved"]
    /\ DaemonOnly /\ UNCHANGED <<dir, unread, faults, got>>

\* The registration is published and armed.  A placeholder's mail stays.  The
\* consumer is looked at at once (connectPresence).
ConnectPublishes ==
    /\ daemon.pc = "saved"
    /\ dir' = [dir EXCEPT ![daemon.a] = [Peer(daemon.s) EXCEPT
                   !.conn = daemon.c, !.listener = "alive", !.mail = dir[daemon.a].mail]]
    /\ \E shown \in IF rec[daemon.c].consumer THEN {"on", "cli"} ELSE {"off"} :
          rec' = [rec EXCEPT ![daemon.c] = Announced(@, shown)]
    /\ daemon' = Idle
    /\ DaemonOnly /\ UNCHANGED <<unread, faults, got>>

\* An exact session comes back, or is disconnected by name.
Reconnect(c) ==
    /\ daemon = Idle /\ rec[c].state \in {"ready", "disconnected"} /\ Owns(c)
    /\ rec[c].state = "disconnected" \/ ~rec[c].consumer
    /\ \E shown \in {"on", "cli"} :
          rec' = [rec EXCEPT ![c] =
                     [Announced(@, shown) EXCEPT !.state = "ready", !.consumer = TRUE]]
    /\ DaemonOnly /\ UNCHANGED <<dir, unread, daemon, faults, got>>

Disconnect(c) ==
    /\ rec[c].state = "ready" /\ Owns(c) /\ LockFree(rec[c].alias)
    /\ rec' = [rec EXCEPT ![c] = [Announced(@, "off") EXCEPT !.state = "disconnected"]]
    /\ DaemonOnly /\ UNCHANGED <<dir, unread, daemon, faults, got>>

\* observeConsumer: the exit of the consumer's process is seen, and journaled.
Observe(c) ==
    /\ rec[c].state = "ready" /\ Owns(c) /\ ~rec[c].consumer /\ rec[c].shown # "off"
    /\ rec' = [rec EXCEPT ![c] = Announced(@, "off")]
    /\ DaemonOnly /\ UNCHANGED <<dir, unread, daemon, faults, got>>

\* flushPresence, for a record that still owns its alias: the notices are told,
\* or one of their recipients can no longer be appended to.
TellNotices(c) ==
    /\ rec[c].state \in {"ready", "disconnected"} /\ Owns(c) /\ LockFree(rec[c].alias)
    /\ rec[c].notes = "open"
    /\ \/ rec' = [rec EXCEPT ![c].notes = "none"] /\ UNCHANGED faults
       \/ rec' = [rec EXCEPT ![c].notes = "stuck"] /\ Fault
    /\ DaemonOnly /\ UNCHANGED <<dir, unread, daemon, got>>

\* One delivery, in short (module Delivery).
Deliver(c) ==
    LET a == rec[c].alias IN
    /\ rec[c].state = "ready" /\ Owns(c) /\ LockFree(a) /\ rec[c].consumer
    /\ rec[c].seen < Len(dir[a].mail)
    /\ rec' = [rec EXCEPT ![c].seen = @ + 1]
    /\ got' = got \cup {dir[a].mail[rec[c].seen + 1]}
    /\ DaemonOnly /\ UNCHANGED <<dir, unread, daemon, faults>>

\* The tick of a connection whose registration is gone.
Detach(c) ==
    /\ rec[c].state \in {"ready", "disconnected"} /\ ~Owns(c)
    /\ ~(daemon.pc = "saved" /\ daemon.c = c)
    /\ rec' = [rec EXCEPT ![c].state = "detached"]
    /\ DaemonOnly /\ UNCHANGED <<dir, unread, daemon, faults, got>>

ConsumerDies(c) ==
    /\ rec[c].consumer /\ rec[c].state # "archived"
    /\ rec' = [rec EXCEPT ![c].consumer = FALSE]
    /\ DaemonOnly /\ UNCHANGED <<dir, unread, daemon, faults, got>>

\* classifyGC: the consumer is known to be gone; whether the grace has passed
\* is the clock's choice, which a detached record does not wait for.
Collectable(c) == OnFile(c) /\ ~rec[c].consumer

\* Mutant: a disconnected connection has nothing to export.
MutantExport(c) ==
    IF rec[c].state # "ready" THEN <<>>
    ELSE SubSeq(dir[rec[c].alias].mail, rec[c].seen + 1, Len(dir[rec[c].alias].mail))

\* gcExportUnread: the mail past the delivered offset, over what an earlier
\* pass that stopped had written.
Export(c) == SubSeq(dir[rec[c].alias].mail, rec[c].seen + 1, Len(dir[rec[c].alias].mail))

\* collectOne looks at a managed CLI itself, and journals a departure it is the
\* first to see.
Inspected(r) == IF r.shown = "cli" THEN Announced(r, "off") ELSE r

\* The pass leaves a record whose notices are not told, the one it has just
\* journaled too; and one whose CLI it cannot inspect, whose record it cannot
\* save or whose locks it does not get.
CollectRefuses(c) ==
    /\ daemon = Idle /\ Collectable(c)
    /\ \/ /\ rec[c] # Inspected(rec[c]) /\ UNCHANGED faults
          /\ rec' = [rec EXCEPT ![c] = Inspected(@)]
       \/ rec' \in {rec, [rec EXCEPT ![c] = Inspected(@)]} /\ Fault
    /\ DaemonOnly /\ UNCHANGED <<dir, unread, daemon, got>>

\* Mutant: what is left when the directory is gone is not looked at.
MutantCollectExports(c) ==
    /\ daemon = Idle /\ Collectable(c) /\ Owns(c)
    /\ Inspected(rec[c]).notes = "none"
    /\ daemon' = [Idle EXCEPT !.pc = "exported", !.c = c, !.a = rec[c].alias]
    /\ unread' = [unread EXCEPT ![c] = Export(c)]
    /\ DaemonOnly /\ UNCHANGED <<dir, rec, faults, got>>

\* collectOne under the peer lock, for a record without notices: export the
\* unread mail of the directory it still owns ...
CollectExports(c) ==
    /\ daemon = Idle /\ Collectable(c)
    /\ Inspected(rec[c]).notes = "none"
    /\ daemon' = [Idle EXCEPT !.pc = IF Owns(c) THEN "exported" ELSE "moved", !.c = c,
                              !.a = rec[c].alias]
    /\ unread' = IF Owns(c) THEN [unread EXCEPT ![c] = Export(c)] ELSE unread
    /\ DaemonOnly /\ UNCHANGED <<dir, rec, faults, got>>

\* ... move the directory ...
CollectMoves ==
    /\ daemon.pc = "exported"
    /\ dir' = [dir EXCEPT ![daemon.a] = Absent]
    /\ daemon' = [daemon EXCEPT !.pc = "moved"]
    /\ DaemonOnly /\ UNCHANGED <<rec, unread, faults, got>>

\* ... and then the record, which is the commit.
CollectCommits ==
    /\ daemon.pc = "moved"
    /\ rec' = [rec EXCEPT ![daemon.c].state = "archived"]
    /\ daemon' = Idle
    /\ DaemonOnly /\ UNCHANGED <<dir, unread, faults, got>>

\* pruneArchive, at the end of a pass: an archive untouched for weeks goes, of a
\* collection that never got to its commit too.
PruneArchive(c) ==
    /\ unread[c] # <<>> /\ daemon.c # c
    /\ unread' = [unread EXCEPT ![c] = <<>>]
    /\ dropped' = dropped \cup Range(unread[c])
    /\ UNCHANGED <<dir, rec, op, daemon, mails, faults, got>>

\* A step of a connect or a collection fails, or the daemon dies there.
Stops ==
    /\ Fault /\ daemon # Idle /\ daemon' = Idle
    /\ DaemonOnly /\ UNCHANGED <<dir, rec, unread, got>>

(* --------------------------------------------------------- specification - *)

Connects == ConnectSaves \/ ConnectPublishes
Commands == JoinClaims \/ LeaveRemoves \/ RenameMoves \/ PruneReaps

Next ==
    \/ \E s \in Sessions :
          \/ \E a \in Aliases \cup {AnyName} : JoinStarts(s, a)
          \/ \E a \in Aliases : Reserve(s, a) \/ ConnectMakes(s, a)
          \/ \E a, b \in Aliases : Begins(s, a, b)
    \/ \E a \in Aliases :
          Unreserve(a) \/ PruneSees(a) \/ Unregister(a) \/ Arm(a) \/ Ages(a) \/ Send(a)
    \/ Commands \/ Connects \/ Stops
    \/ \E c \in Conns :
          \/ Reconnect(c) \/ Disconnect(c) \/ Deliver(c) \/ Detach(c) \/ ConsumerDies(c)
          \/ Observe(c) \/ TellNotices(c)
          \/ CollectRefuses(c) \/ CollectExports(c) \/ PruneArchive(c)
    \/ CollectMoves \/ CollectCommits

Spec == Init /\ [][Next]_vars

\* A pass collects what it finds collectable, the sweep looks at consumers and
\* tells notices, and operations go on; a daemon that stopped starts again.
FairSpec ==
    /\ Spec
    /\ WF_vars(Connects)
    /\ \A c \in Conns :
          WF_vars(Observe(c)) /\ SF_vars(TellNotices(c)) /\ SF_vars(CollectExports(c))
    /\ WF_vars(CollectMoves) /\ WF_vars(CollectCommits)

(* ------------------------------------------------------------ properties - *)

\* Mail that a send reported as accepted is in the registration's inbox, was
\* handed over, or is in the archive's unread export, wherever a connect or a
\* collection stopped, unless a command removed its registration or the archive
\* was kept for its weeks (LocalSend, connectWithCredential, collectOne).
MailAccounted ==
    1 .. mails \subseteq
        got \cup dropped \cup (UNION {Range(dir[a].mail) : a \in Aliases})
            \cup (UNION {Range(unread[c]) : c \in Conns})

\* No command replaces or removes a registration of another session that
\* listens or is managed, nor any registration of another session when it is a
\* leave; and a connect or a collection writes over nobody but its own
\* connection, a placeholder and what no one holds - whatever each had read
\* before it had the lock (Join, leaveSession, Rename, PruneChannel,
\* createDaemonInbox, collectOne).
NobodyIsEvicted ==
    [][\A a \in Aliases :
          /\ op' # op /\ IsPeer(a) /\ dir[a].sid # op.s
               /\ (op.pc = "leave" \/ Managed(a) \/ Listening(a)) => dir'[a] = dir[a]
          /\ daemon' # daemon /\ IsPeer(a) /\ ~Placeholder(a) /\ dir[a].conn # daemon.c
               => dir'[a] = dir[a]]_vars

\* Notices that are never told: flushPresence writes only for a record that owns
\* its alias, and stops at a recipient whose inbox is torn.
Untellable(c) ==
    \/ rec[c].notes = "stuck"
    \/ OnFile(c) /\ ~Owns(c) /\ Inspected(rec[c]).notes # "none"

\* A collection that stopped at any step is finished by a later pass: a record
\* whose consumer is gone for good is archived, unless it has notices that are
\* never told: those keep it for good (collectOne, flushPresence).
CollectionFinishes ==
    \A c \in Conns :
        <>[]Collectable(c) => <>(rec[c].state = "archived") \/ <>[]Untellable(c)
=============================================================================
