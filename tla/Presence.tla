------------------------------ MODULE Presence ------------------------------
(***************************************************************************)
(* Local presence: a daemon connection records that its session joined,    *)
(* left, exited or compacted, with the peers the notice is for, and fans   *)
(* the record out, one recipient at a time, under the peer locks of source *)
(* and recipient.                                                          *)
(*                                                                         *)
(* An alias is a natural number, its place in the order of the lock keys.  *)
(* A registration is an epoch: the inode of its inbox together with its    *)
(* session and connection ids, none of which is ever reused.  A notice is  *)
(* its event id, source and sequence number.                               *)
(*                                                                         *)
(* Left out: the relay's branch (module Relay), journals from before       *)
(* presence existed, a rollout file that is replaced, the cap of eight     *)
(* appends per tick (the next tick resumes where the last one stopped),    *)
(* and what the notices say.                                               *)
(***************************************************************************)
EXTENDS Naturals, Sequences, FiniteSets, Functions

CONSTANTS
    Aliases,     \* the aliases of one channel, numbered in lock order
    Sources,     \* those that start with a native connection
    Cli,         \* the command line, as the holder of a peer lock
    MaxOutbox,   \* transitions a journal holds (128 in the code)
    MaxSeq,      \* bound: transitions recorded, over all sources
    MaxChanges,  \* bound: changes of the roster, and compactions
    MaxFaults    \* bound: crashes, failed writes and locks held too long

ASSUME PresenceAssumption ==
    /\ IsFiniteSet(Aliases) /\ Aliases = 1 .. Cardinality(Aliases)
    /\ Sources \subseteq Aliases
    /\ Cli \notin Nat
    /\ MaxOutbox \in Nat \ {0}
    /\ {MaxSeq, MaxChanges, MaxFaults} \subseteq Nat

VARIABLES
    reg,      \* reg[a]: the registration at alias a
    inbox,    \* inbox[a]: the notices in that registration's inbox
    torn,     \* the aliases whose inbox ends in an unfinished line
    lock,     \* lock[a]: who holds the peer lock of a
    rec,      \* rec[c]: the journal of source c
    pc,       \* pc[c]: where c's operation stands
    rollout,  \* rollout[c]: compactions in c's rollout file
    rename,   \* the rename the command line has under way
    epochs,   \* epochs handed out
    changes,  \* changes and compactions so far
    faults,   \* faults so far
    said,     \* ghost: said[c], the events c recorded, in order
    aimed     \* ghost: the notices and the epochs they were recorded for

vars == <<reg, inbox, torn, lock, rec, pc, rollout, rename, epochs, changes,
          faults, said, aimed>>

Free  == 0   \* a lock nobody holds
Procs == Sources \cup {Cli}

Kinds  == {"none", "live", "dead", "reserved"}
Events == {"join", "departed", "leave", "compact"}
States == {"ready", "disconnected", "detached"}

Nobody == [epoch |-> 0, kind |-> "none"]

\* The connection's meta.json still names this connection and session.
Owns(c) == reg[c].epoch = c

\* A transition in the journal: its number and the recipients still to do.
Recipient == [alias : Aliases, epoch : Nat]
Transition == [seq : Nat, to : SUBSET Recipient]

Journal ==
    [state : States, online : BOOLEAN, overdue : BOOLEAN,
     seq : Nat, outbox : Seq(Transition), cursor : Nat]

TypeOK ==
    /\ epochs \in Nat /\ changes \in Nat /\ faults \in Nat
    /\ reg \in [Aliases -> [epoch : Nat, kind : Kinds]]
    /\ \A a \in Aliases : reg[a].epoch <= epochs
    /\ inbox \in [Aliases -> Seq(Sources \X Nat)]
    /\ torn \subseteq Aliases
    /\ lock \in [Aliases -> Procs \cup {Free}]
    /\ rec \in [Sources -> Journal]
    /\ pc \in [Sources -> {"idle", "flush", "second", "save"}]
    /\ \A c \in Sources : Len(rec[c].outbox) <= MaxOutbox
    /\ rollout \in [Sources -> Nat]
    /\ rename \in [pc : {"idle", "first", "second"}, from : Aliases \cup {0}, to : Aliases \cup {0}]
    /\ said \in [Sources -> Seq(Events)]

\* The sources are connected, and first observed at their next tick.
Init ==
    /\ reg = [a \in Aliases |-> [epoch |-> a, kind |-> "live"]]
    /\ inbox = [a \in Aliases |-> <<>>]
    /\ torn = {}
    /\ lock = [a \in Aliases |-> Free]
    /\ rec = [c \in Sources |->
                 [state |-> "ready", online |-> FALSE, overdue |-> FALSE, seq |-> 0,
                  outbox |-> <<>>, cursor |-> 0]]
    /\ pc = [c \in Sources |-> "idle"]
    /\ rollout = [c \in Sources |-> 0]
    /\ rename = [pc |-> "idle", from |-> 0, to |-> 0]
    /\ epochs = Cardinality(Aliases)
    /\ changes = 0
    /\ faults = 0
    /\ said = [c \in Sources |-> <<>>]
    /\ aimed = {}

Change == changes < MaxChanges /\ changes' = changes + 1
Fault == faults < MaxFaults /\ faults' = faults + 1

(* ------------------------------------------------- recording a notice --- *)

\* The peers a new notice of c is for: every other live registration.  A
\* placeholder has no session, and a dead peer gets nothing.
Recipients(c) == {a \in Aliases \ {c} : reg[a].kind = "live"}

Full(r) == Len(r.outbox) >= MaxOutbox

\* The bound on transitions.
Room == FoldFunction(LAMBDA e, n : Len(e) + n, 0, said) < MaxSeq

\* preparePresence: the next transition, aimed at the peers of this moment.
Recorded(c, r) ==
    [r EXCEPT !.seq = r.seq + 1,
              !.outbox = Append(r.outbox,
                  [seq |-> r.seq + 1,
                   to  |-> {[alias |-> a, epoch |-> reg[a].epoch] : a \in Recipients(c)}])]

\* The ghosts of a recorded event.
Says(c, e) ==
    /\ said' = [said EXCEPT ![c] = Append(@, e)]
    /\ aimed' = aimed \cup {<<<<c, rec[c].seq + 1>>, reg[a].epoch>> : a \in Recipients(c)}

SaysNothing == UNCHANGED <<said, aimed>>

\* applyConsumerProbe: what observing p makes of the journal r of c, with the
\* event to announce, or "" for none.  An unknown answer changes nothing that
\* was announced.
EventOf(r, p) ==
    IF p = "online" /\ ~r.online THEN "join"
    ELSE IF p = "exited" /\ r.online THEN "departed" ELSE ""

\* Mutant: an answer that cannot tell forgets that the session was announced.
MutantObserved(c, r, p) ==
    [IF EventOf(r, p) = "" THEN r ELSE Recorded(c, r) EXCEPT
        !.online = p = "online", !.overdue = FALSE]

Observed(c, r, p) ==
    [IF EventOf(r, p) = "" THEN r ELSE Recorded(c, r) EXCEPT
        !.online = IF p = "unknown" THEN @ ELSE p = "online",
        !.overdue = FALSE]

Answers == {"online", "exited", "unknown"}
WithinBound(r, p) == EventOf(r, p) = "" \/ Room

\* A probe of c goes well, and the journal is saved.
ProbeSaved(c, p) ==
    /\ WithinBound(rec[c], p)
    /\ EventOf(rec[c], p) # "" => ~Full(rec[c])
    /\ rec' = [rec EXCEPT ![c] = Observed(c, @, p)]
    /\ IF EventOf(rec[c], p) = "" THEN SaysNothing ELSE Says(c, EventOf(rec[c], p))

\* The notice finds no room: the probe counts as never made.
ProbeRefused(c, p) ==
    /\ WithinBound(rec[c], p)
    /\ EventOf(rec[c], p) # "" /\ Full(rec[c])
    /\ rec' = [rec EXCEPT ![c].overdue = TRUE]
    /\ SaysNothing

\* Mutant: an operation records the notice and leaves the fan-out to others.
MutantAfter(r) == "idle"

\* The fan-out follows when there is something to fan out.
After(r) == IF r.outbox = <<>> THEN "idle" ELSE "flush"

(* ------------------------------------------------- one connection's tick - *)

\* observeConsumer of a connection whose registration is gone: fence it.
Detach(c) ==
    /\ pc[c] = "idle" /\ rec[c].state # "detached" /\ ~Owns(c)
    /\ rec' = [rec EXCEPT ![c].state = "detached"]
    /\ UNCHANGED <<reg, inbox, torn, lock, pc, rollout, rename, epochs, changes,
                   faults, said, aimed>>

\* observeConsumer: a due probe, then the fan-out.  A refused transition ends
\* the tick before the fan-out.
Tick(c) ==
    /\ pc[c] = "idle" /\ rec[c].state # "detached" /\ Owns(c)
    /\ \/ /\ rec[c].state = "ready"
          /\ \E p \in Answers :
                \/ ProbeSaved(c, p) /\ pc' = [pc EXCEPT ![c] = After(rec'[c])]
                \/ ProbeRefused(c, p) /\ UNCHANGED pc
       \/ /\ rec[c].state = "disconnected" \/ ~rec[c].overdue
          /\ pc' = [pc EXCEPT ![c] = After(rec[c])]
          /\ UNCHANGED <<rec, said, aimed>>
    /\ UNCHANGED <<reg, inbox, torn, lock, rollout, rename, epochs, changes, faults>>

\* The session compacts: its rollout gains one completed record.
Compact(c) ==
    /\ Change
    /\ rollout' = [rollout EXCEPT ![c] = @ + 1]
    /\ UNCHANGED <<reg, inbox, torn, lock, rec, pc, rename, epochs,
                   faults, said, aimed>>

\* observeCompaction: reading while disconnected only moves the baseline.
\* Otherwise the cursor and one notice per new record are
\* saved together, and the fan-out follows.  One record at a time here: the
\* code takes up to 256 in one pass.
ObserveCompaction(c) ==
    /\ pc[c] = "idle" /\ rec[c].state # "detached"
    /\ rec[c].cursor # rollout[c]
    /\ \/ /\ rec[c].state = "disconnected"
          /\ rec' = [rec EXCEPT ![c].cursor = rollout[c]]
          /\ UNCHANGED <<pc, said, aimed>>
       \/ /\ rec[c].state = "ready"
          /\ ~Full(rec[c]) /\ Room
          /\ rec' = [rec EXCEPT ![c] = [Recorded(c, rec[c]) EXCEPT !.cursor = @ + 1]]
          /\ Says(c, "compact")
          /\ pc' = [pc EXCEPT ![c] = After(rec'[c])]
    /\ UNCHANGED <<reg, inbox, torn, lock, rollout, rename, epochs, changes, faults>>

(* ------------------------------------------------ disconnect and connect - *)

\* disconnectExact with disconnectPresence: the departure is saved with the
\* disconnected state, or the disconnect is refused.
Disconnect(c) ==
    /\ pc[c] = "idle" /\ rec[c].state = "ready" /\ Owns(c) /\ lock[c] = Free
    /\ \/ /\ rec[c].online /\ ~Full(rec[c]) /\ Room
          /\ rec' = [rec EXCEPT ![c] = [Recorded(c, rec[c]) EXCEPT
                        !.online = FALSE, !.state = "disconnected"]]
          /\ Says(c, "leave")
       \/ /\ ~rec[c].online
          /\ rec' = [rec EXCEPT ![c].state = "disconnected"]
          /\ SaysNothing
    /\ pc' = [pc EXCEPT ![c] = After(rec'[c])]
    /\ UNCHANGED <<reg, inbox, torn, lock, rollout, rename, epochs, changes, faults>>

\* The connect of a disconnected session: connectPresence, a new compaction
\* baseline, then the fan-out whether or not the probe could be recorded.
Reconnect(c) ==
    /\ pc[c] = "idle" /\ rec[c].state = "disconnected" /\ Owns(c) /\ lock[c] = Free
    /\ \E p \in Answers :
          LET r == [rec[c] EXCEPT !.state = "ready", !.cursor = rollout[c]] IN
          /\ WithinBound(r, p)
          /\ IF EventOf(r, p) # "" /\ Full(r)
             THEN rec' = [rec EXCEPT ![c] = r] /\ SaysNothing
             ELSE /\ rec' = [rec EXCEPT ![c] = Observed(c, r, p)]
                  /\ IF EventOf(r, p) = "" THEN SaysNothing ELSE Says(c, EventOf(r, p))
    /\ pc' = [pc EXCEPT ![c] = After(rec'[c])]
    /\ UNCHANGED <<reg, inbox, torn, lock, rollout, rename, epochs, changes, faults>>

(* --------------------------------------------------------- the fan-out --- *)

Pending(c) == rec[c].outbox # <<>>
HeadNotice(c) == Head(rec[c].outbox)
Unfinished(c) == Pending(c) /\ HeadNotice(c).to # {}

\* The next recipient, in the order of the aliases.
Target(c) ==
    CHOOSE t \in HeadNotice(c).to : \A u \in HeadNotice(c).to : t.alias <= u.alias

\* A transition every recipient has: it leaves the journal.
FlushPops(c) ==
    /\ pc[c] = "flush" /\ Pending(c) /\ ~Unfinished(c)
    /\ rec' = [rec EXCEPT ![c].outbox = Tail(@)]
    /\ pc' = [pc EXCEPT ![c] = After(rec'[c])]
    /\ UNCHANGED <<reg, inbox, torn, lock, rollout, rename, epochs, changes,
                   faults, said, aimed>>

\* Mutant: the caller's order, source first.
MutantCallersOrder(a, b) == <<a, b>>

\* lockPeers takes the locks of a pair in the order of their keys.
LockOrder(a, b) == IF a < b THEN <<a, b>> ELSE <<b, a>>

\* The lock a process waits for, or 0.
Wants(p) ==
    IF p = Cli
    THEN CASE rename.pc = "first"  -> LockOrder(rename.from, rename.to)[1]
           [] rename.pc = "second" -> LockOrder(rename.from, rename.to)[2]
           [] OTHER -> 0
    ELSE CASE pc[p] = "flush" /\ Unfinished(p) -> LockOrder(p, Target(p).alias)[1]
           [] pc[p] = "second" -> LockOrder(p, Target(p).alias)[2]
           [] OTHER -> 0

FlushLocks(c) ==
    /\ pc[c] = "flush" /\ Unfinished(c)
    /\ lock[Wants(c)] = Free
    /\ lock' = [lock EXCEPT ![Wants(c)] = c]
    /\ pc' = [pc EXCEPT ![c] = "second"]
    /\ UNCHANGED <<reg, inbox, torn, rec, rollout, rename, epochs, changes,
                   faults, said, aimed>>

Released(p) == [a \in Aliases |-> IF lock[a] = p THEN Free ELSE lock[a]]

\* Five seconds in vain: every lock taken is given back and the tick fails.
\* Counted as a fault: a lock is held for no longer than one append.
FlushTimesOut(c) ==
    /\ Fault
    /\ Wants(c) # 0
    /\ lock[Wants(c)] # Free
    /\ lock' = Released(c)
    /\ pc' = [pc EXCEPT ![c] = "idle"]
    /\ UNCHANGED <<reg, inbox, torn, rec, rollout, rename, epochs, changes,
                   said, aimed>>

\* Both locks are c's from here to the release at the end of the step.
Locked(c) == pc[c] = "second" /\ lock[Wants(c)] = Free

\* Mutant: the recipient's registration is not compared.
MutantStillThere(t) == reg[t.alias].kind # "none"

\* The recipient is still the registration the notice was recorded for.
StillThere(t) == reg[t.alias].kind # "none" /\ reg[t.alias].epoch = t.epoch

\* Mutant: no scan for the event id.
MutantAppendsBlindly(c) ==
    /\ Locked(c) /\ Owns(c)
    /\ StillThere(Target(c)) => Target(c).alias \notin torn
    /\ inbox' = IF StillThere(Target(c))
                THEN [inbox EXCEPT ![Target(c).alias] = Append(@, <<c, HeadNotice(c).seq>>)]
                ELSE inbox
    /\ lock' = Released(c)
    /\ pc' = [pc EXCEPT ![c] = "save"]
    /\ UNCHANGED <<reg, torn, rec, rollout, rename, epochs, changes, faults, said, aimed>>

\* appendManagedPresence: nothing for a registration that is gone or another,
\* nothing when a scan finds the event id, one line otherwise.
FlushAppends(c) ==
    LET a == Target(c).alias
        id == <<c, HeadNotice(c).seq>>
        known == \E i \in 1 .. Len(inbox[a]) : inbox[a][i] = id
    IN  /\ Locked(c) /\ Owns(c)
        /\ StillThere(Target(c)) => a \notin torn
        /\ inbox' = IF StillThere(Target(c)) /\ ~known
                    THEN [inbox EXCEPT ![a] = Append(@, id)] ELSE inbox
        /\ lock' = Released(c)
        /\ pc' = [pc EXCEPT ![c] = "save"]
        /\ UNCHANGED <<reg, torn, rec, rollout, rename, epochs, changes, faults,
                       said, aimed>>

\* An unfinished last line, or a failed write or sync, fails the tick.  The
\* write may leave a whole line, a part of one, or nothing.
FlushAppendFails(c) ==
    LET a == Target(c).alias
        id == <<c, HeadNotice(c).seq>>
        known == \E i \in 1 .. Len(inbox[a]) : inbox[a][i] = id
    IN  /\ Locked(c) /\ Owns(c) /\ StillThere(Target(c))
        /\ \/ a \in torn /\ UNCHANGED <<inbox, torn, faults>>
           \/ /\ Fault /\ a \notin torn /\ ~known
              /\ \/ inbox' = [inbox EXCEPT ![a] = Append(@, id)] /\ UNCHANGED torn
                 \/ torn' = torn \cup {a} /\ UNCHANGED inbox
        /\ lock' = Released(c)
        /\ pc' = [pc EXCEPT ![c] = "idle"]
        /\ UNCHANGED <<reg, rec, rollout, rename, epochs, changes, said, aimed>>

\* The source lost its own registration meanwhile: the fan-out stops.
FlushDisowned(c) ==
    /\ Locked(c) /\ ~Owns(c)
    /\ lock' = Released(c)
    /\ pc' = [pc EXCEPT ![c] = "idle"]
    /\ UNCHANGED <<reg, inbox, torn, rec, rollout, rename, epochs, changes,
                   faults, said, aimed>>

\* The progress is saved, or the save fails and the append will be replayed.
FlushSaves(c) ==
    /\ pc[c] = "save"
    /\ \/ /\ rec' = [rec EXCEPT ![c].outbox[1].to = @ \ {Target(c)}]
          /\ pc' = [pc EXCEPT ![c] = "flush"]
          /\ UNCHANGED faults
       \/ Fault /\ pc' = [pc EXCEPT ![c] = "idle"] /\ UNCHANGED rec
    /\ UNCHANGED <<reg, inbox, torn, lock, rollout, rename, epochs, changes,
                   said, aimed>>

\* The daemon dies: operations and locks go, journals and inboxes stay.
Crash ==
    /\ Fault
    /\ pc' = [c \in Sources |-> "idle"]
    /\ lock' = [a \in Aliases |-> IF lock[a] \in Sources THEN Free ELSE lock[a]]
    /\ UNCHANGED <<reg, inbox, torn, rec, rollout, rename, epochs, changes, said, aimed>>

(* --------------------------------------------------- the other peers ---- *)

\* leave, unregister or a prune, under the peer lock.
Remove(a) ==
    /\ Change /\ reg[a].kind # "none" /\ lock[a] = Free
    /\ reg' = [reg EXCEPT ![a] = Nobody]
    /\ inbox' = [inbox EXCEPT ![a] = <<>>]
    /\ torn' = torn \ {a}
    /\ UNCHANGED <<lock, rec, pc, rollout, rename, epochs, faults, said, aimed>>

\* A join or a launch reservation at a free or dead alias: a new epoch.
Register(a) ==
    /\ Change /\ reg[a].kind # "live" /\ lock[a] = Free
    /\ epochs' = epochs + 1
    /\ \E k \in {"live", "reserved"} :
           reg' = [reg EXCEPT ![a] = [epoch |-> epochs + 1, kind |-> k]]
    /\ inbox' = [inbox EXCEPT ![a] = <<>>]
    /\ torn' = torn \ {a}
    /\ UNCHANGED <<lock, rec, pc, rollout, rename, faults, said, aimed>>

\* A peer without a connection stops listening, or arms its listener again.
ListenerDies(a) ==
    /\ Change /\ reg[a].kind = "live" /\ reg[a].epoch \notin Sources
    /\ reg' = [reg EXCEPT ![a].kind = "dead"]
    /\ UNCHANGED <<inbox, torn, lock, rec, pc, rollout, rename, epochs,
                   faults, said, aimed>>

ListenerArms(a) ==
    /\ Change /\ reg[a].kind = "dead" /\ lock[a] = Free
    /\ reg' = [reg EXCEPT ![a].kind = "live"]
    /\ UNCHANGED <<inbox, torn, lock, rec, pc, rollout, rename, epochs,
                   faults, said, aimed>>

\* Rename: the locks of both names, then the directory moves with its epoch, and
\* the listener has to be armed again.
RenameStarts(a, b) ==
    /\ Change /\ rename.pc = "idle" /\ a # b
    /\ reg[a].kind = "live" /\ reg[a].epoch \notin Sources
    /\ rename' = [pc |-> "first", from |-> a, to |-> b]
    /\ UNCHANGED <<reg, inbox, torn, lock, rec, pc, rollout, epochs, faults, said, aimed>>

RenameLocks ==
    /\ rename.pc \in {"first", "second"}
    /\ lock[Wants(Cli)] = Free
    /\ IF rename.pc = "first"
       THEN /\ rename' = [rename EXCEPT !.pc = "second"]
            /\ lock' = [lock EXCEPT ![Wants(Cli)] = Cli]
            /\ UNCHANGED <<reg, inbox, torn>>
       ELSE /\ rename' = [rename EXCEPT !.pc = "idle"]
            /\ lock' = Released(Cli)
            /\ IF reg[rename.to].kind \in {"none", "dead", "reserved"} /\ reg[rename.from].kind = "live"
               THEN /\ reg' = [reg EXCEPT ![rename.to] = [reg[rename.from] EXCEPT !.kind = "dead"],
                                          ![rename.from] = Nobody]
                    /\ inbox' = [inbox EXCEPT ![rename.to] = inbox[rename.from],
                                              ![rename.from] = <<>>]
                    /\ torn' = (torn \ {rename.from, rename.to}) \cup
                               (IF rename.from \in torn THEN {rename.to} ELSE {})
               ELSE UNCHANGED <<reg, inbox, torn>>
    /\ UNCHANGED <<rec, pc, rollout, epochs, changes, faults, said, aimed>>

RenameTimesOut ==
    /\ Fault
    /\ rename.pc \in {"first", "second"}
    /\ lock[Wants(Cli)] # Free
    /\ lock' = Released(Cli)
    /\ rename' = [rename EXCEPT !.pc = "idle"]
    /\ UNCHANGED <<reg, inbox, torn, rec, pc, rollout, epochs, changes, said, aimed>>

(* ----------------------------------------------------- specification ---- *)

Flush(c) ==
    \/ FlushPops(c) \/ FlushLocks(c) \/ FlushTimesOut(c)
    \/ FlushAppends(c) \/ FlushAppendFails(c) \/ FlushDisowned(c) \/ FlushSaves(c)

Renaming == RenameLocks \/ RenameTimesOut

Next ==
    \/ \E c \in Sources :
          \/ Detach(c) \/ Tick(c) \/ ObserveCompaction(c)
          \/ Disconnect(c) \/ Reconnect(c) \/ Compact(c) \/ Flush(c)
    \/ Crash \/ Renaming
    \/ \E a \in Aliases :
          Remove(a) \/ Register(a) \/ ListenerDies(a) \/ ListenerArms(a)
    \/ \E a, b \in Aliases : RenameStarts(a, b)

Spec == Init /\ [][Next]_vars

\* The scheduler ticks every connection, an operation that began goes on, and
\* a rename ends.  A lock is polled for five seconds and held for one append, so
\* one that is free again and again is taken.
FairSpec ==
    /\ Spec
    /\ \A c \in Sources : /\ WF_vars(Detach(c)) /\ WF_vars(Tick(c))
                          /\ SF_vars(Flush(c) /\ UNCHANGED faults)
    /\ WF_vars(Renaming /\ UNCHANGED faults)

(* ------------------------------------------------------- properties ----- *)

\* Every registration's inbox holds a notice at most once, holds the notices
\* of one source in the order they were recorded, and holds only notices that
\* were recorded for that very registration: whatever a crash between the
\* append and the save of its progress replays, and whoever takes the alias
\* in between (flushPresence, appendManagedPresence).
NoticesWellPlaced ==
    \A a \in Aliases : \A i, j \in 1 .. Len(inbox[a]) :
        /\ <<inbox[a][i], reg[a].epoch>> \in aimed
        /\ i < j /\ inbox[a][i][1] = inbox[a][j][1] => inbox[a][i][2] < inbox[a][j][2]

\* What a source announces makes sense to its readers: the joins alternate
\* with the leaves and departures, however many probes cannot tell and
\* whatever is refused for want of room (applyConsumerProbe).
JoinsAlternate ==
    \A c \in Sources : \A i, j \in 1 .. Len(said[c]) :
        /\ i < j /\ said[c][i] # "compact" /\ said[c][j] # "compact"
        /\ \A k \in i + 1 .. j - 1 : said[c][k] = "compact"
        => (said[c][i] = "join") # (said[c][j] = "join")

\* No set of operations waits in a circle for each other's peer locks, with
\* two sources fanning out to each other and a rename between any two names
\* (lockPeersContext).
NoCircularWait ==
    \A S \in SUBSET Procs :
        S # {} => \E p \in S : Wants(p) = 0 \/ lock[Wants(p)] \notin S

\* A journalled notice is eventually with its recipients, unless the source's
\* registration goes, the next recipient's inbox ends in a torn line, or the
\* journal is full with another transition due (flushPresence under the
\* scheduler's ticks).
Settled(c) == ~Pending(c) \/ rec[c].state = "detached"
Blocked(c) ==
    \/ Unfinished(c) /\ Target(c).alias \in torn
    \/ rec[c].overdue

NoticesSettle == \A c \in Sources : [](Pending(c) => <>(Settled(c) \/ Blocked(c)))
=============================================================================
