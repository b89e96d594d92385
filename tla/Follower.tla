------------------------------ MODULE Follower ------------------------------
(***************************************************************************)
(* The readers of an inbox and how each knows where it was.  A follower    *)
(* arms a registration under the peer lock, then reads the file without    *)
(* it: it shows every line, records in a cursor how far it got, and ends   *)
(* once the registration names another listener.  A Stop hook polls the    *)
(* same inbox under a cursor of its own.  The daemon's connection journals *)
(* an offset and the records it counted.  Joins, leaves and renames        *)
(* replace or move the directory under them, inode numbers are used again, *)
(* a reboot renumbers the device, and a backup may come back instead.      *)
(*                                                                         *)
(* Lengths count half lines: a writer's line may be visible half written,  *)
(* and a failed write leaves the half there for the next line to follow.   *)
(* One channel, one connection.  Left out: how a frame is rendered,        *)
(* presence lines, the owner process, the reaping of a registration never  *)
(* armed, and of the connection what module Delivery has.                  *)
(***************************************************************************)
EXTENDS Naturals, Sequences, FiniteSets

CONSTANTS
    Paths,      \* the aliases
    Sessions,   \* session ids
    Followers,  \* processes that tail
    NoOne,      \* no listener, no session
    MaxMail,    \* bound: messages
    Files,      \* inode numbers
    IdleEvery,  \* idle rounds between two looks at the registration
    Budgets     \* bound: how often each command and each mishap may happen

\* The commands and mishaps.
Names == {"join", "leave", "rename", "rotate", "force", "torn", "arm", "steal", "claim", "unsaved", "die", "hook",
          "connect", "abandon", "crash", "reboot"}

ASSUME FollowerAssumption ==
    /\ NoOne \notin Sessions \cup Followers \cup Paths
    /\ MaxMail \in Nat /\ IdleEvery \in Nat \ {0}
    /\ Files \subseteq Nat \ {0} /\ IsFiniteSet(Files)
    /\ Budgets \subseteq [Names -> Nat]

VARIABLES
    dir,      \* dir[p]: the registration at alias p, with its cursors
    file,     \* file[n]: the half lines in inode n
    fol,      \* fol[f]: follower f
    hook,     \* hook[s]: the Stop hook of session s
    writer,   \* the sender in the middle of a line, or NoOne
    con,      \* the connection's record and its daemon
    dev,      \* the device number of the volume
    to,       \* to[m]: the session message m was sent to
    left,     \* left[k]: how often command or mishap k may still happen
    seen,     \* ghost: <<s, m>>, a follower armed for s showed m
    handed,   \* ghost: <<s, m>>, the hook of s handed m over
    cut,      \* ghost: <<s, m>>, the hook of s was killed with m read and not handed over
    taken     \* ghost: <<s, m>>, the connection of s settled m

vars == <<dir, file, fol, hook, writer, con, dev, to, left, seen, handed, cut, taken>>

Messages == 1 .. MaxMail
Length   == 0 .. 2 * MaxMail
Half(m)  == 2 * m - 1
Full(m)  == 2 * m

\* A cursor: the device and inode it counts in (0 when there is none) and an
\* offset.
Cursor   == [dev : Nat, ino : Files \cup {0}, at : Length]
NoCursor == [dev |-> 0, ino |-> 0, at |-> 0]

\* A registration, of the daemon's connection or not; `witness' is FALSE after
\* a rename cleared listenerStart, and when the daemon that armed it is gone.
\* Ghosts: `skipped', how far an arm jumped without reading, `foreign', that a
\* reader of another registration moved a cursor here, and `again', that the
\* inbox was replaced by a file whose inode number a record of it names already.
Registration ==
    [sid : Sessions, conn : BOOLEAN, ino : Files, listener : Followers \cup {NoOne}, witness : BOOLEAN,
     cursor : Cursor, stop : Cursor, skipped : Length, foreign : BOOLEAN, again : BOOLEAN]
Vacant == [sid |-> NoOne, ino |-> 0]
Fresh(s, n) ==
    [sid |-> s, conn |-> FALSE, ino |-> n, listener |-> NoOne, witness |-> TRUE,
     cursor |-> NoCursor, stop |-> NoCursor, skipped |-> 0, foreign |-> FALSE, again |-> FALSE]

\* A follower: where it stands, the alias it was armed on and for whom, the
\* open file, what it consumed, how much of it is half a line, and the offset
\* it saved last.  Ghosts: `sure', that its last look at the registration
\* found itself, `late', that the alias changed hands between that look and
\* the open, and `moved', that the inbox its offset counts in was replaced then.
Running == {"seed", "read", "check", "save", "poll", "turned"}
Waiting == {"armed", "reopen"}
Off == [pc |-> "off", path |-> NoOne, sid |-> NoOne, ino |-> 0, at |-> 0, pend |-> 0,
        saved |-> 0, ticks |-> 0, end |-> FALSE, sure |-> FALSE, late |-> FALSE, moved |-> FALSE]
FollowerRecord ==
    [pc : {"off", "claimed", "over", "dead"} \cup Running \cup Waiting, path : Paths \cup {NoOne},
     sid : Sessions \cup {NoOne}, ino : Files \cup {0}, at : Length, pend : Length, saved : Length,
     ticks : Nat, end : BOOLEAN, sure : BOOLEAN, late : BOOLEAN, moved : BOOLEAN]

\* A Stop hook: what it looked at, and the lines it read and holds.
NoHook == [pc |-> "off", path |-> NoOne, dev |-> 0, ino |-> 0, at |-> 0, own |-> FALSE, lines |-> {}]
HookRecord ==
    [pc : {"off", "poll", "look", "block"}, path : Paths \cup {NoOne}, dev : Nat, ino : Files \cup {0},
     at : Length, own : BOOLEAN, lines : SUBSET Messages]

\* The connection: its daemon runs or not, the inbox it recorded, its offset,
\* the attempt in flight, the last one accepted and those given up.  Ghost:
\* `whole', that nobody replaced the inbox.
Attempt(m, k) == [m |-> m, end |-> k]
NoAttempt == Attempt(0, 0)
NoCon == [pc |-> "off", path |-> NoOne, sid |-> NoOne, dev |-> 0, ino |-> 0, at |-> 0,
          pend |-> NoAttempt, last |-> NoAttempt, given |-> {}, whole |-> TRUE]
AttemptRecord == [m : Messages \cup {0}, end : Length]
ConRecord ==
    [pc : {"off", "up", "down"}, path : Paths \cup {NoOne}, sid : Sessions \cup {NoOne}, dev : Nat,
     ino : Files \cup {0}, at : Length, pend : AttemptRecord, last : AttemptRecord,
     given : SUBSET AttemptRecord, whole : BOOLEAN]

TypeOK ==
    /\ dir \in [Paths -> Registration \cup {Vacant}]
    /\ file \in [Files -> Seq(1 .. 2 * MaxMail)]
    /\ fol \in [Followers -> FollowerRecord] /\ \A f \in Followers : fol[f].pend <= fol[f].at
    /\ hook \in [Sessions -> HookRecord] /\ con \in ConRecord
    /\ writer \in Paths \cup {NoOne} /\ dev \in Nat
    /\ to \in [Messages -> Sessions \cup {NoOne}] /\ left \in [Names -> Nat]
    /\ seen \cup handed \cup cut \cup taken \subseteq (Sessions \cup {NoOne}) \X Messages

Start(registered) ==
    /\ dir = registered /\ file = [n \in Files |-> <<>>]
    /\ fol = [f \in Followers |-> Off] /\ hook = [s \in Sessions |-> NoHook]
    /\ writer = NoOne /\ to = [m \in Messages |-> NoOne]
    /\ con = NoCon /\ dev = 1
    /\ left \in Budgets /\ seen = {} /\ handed = {} /\ cut = {} /\ taken = {}

Init == Start([p \in Paths |-> Vacant])

Use(k)   == left[k] > 0 /\ left' = [left EXCEPT ![k] = @ - 1]

(* ------------------------------------------------------------- the files - *)

Present(p) == dir[p] # Vacant

\* An inode is free when no directory has it and no follower holds it open.
Spare(d) == Files \ ({d[p].ino : p \in Paths} \cup {fol[f].ino : f \in Followers})

Ends(h) == h % 2 = 0
Message(h) == h \div 2

\* The messages whose lines end in the first k half lines of inode n.
Complete(n, k) == {Message(file[n][i]) : i \in {j \in 1 .. Len(file[n]) : j <= k /\ Ends(file[n][j])}}

\* The messages that begin there.
Begun(n, k) == {Message(file[n][i] + 1) : i \in {j \in 1 .. Len(file[n]) : j <= k /\ ~Ends(file[n][j])}}

\* The end of the line that follows offset k of inode n, and of the last line.
LineEnds(n, k) == {i \in 1 .. Len(file[n]) : i > k /\ Ends(file[n][i])}
Least(S) == CHOOSE i \in S : \A j \in S : i <= j
Greatest(S) == CHOOSE i \in S : \A j \in S : j <= i

(* ------------------------------------------------------------- the store - *)

\* A writer in the middle of a line holds the peer lock of its alias.
LockFree(p) == writer # p

Managed(p) == Present(p) /\ dir[p].conn
Armed(p) == Managed(p) \/ dir[p].listener # NoOne
ListenerAlive(p) ==
    /\ Present(p) /\ Armed(p) /\ dir[p].witness
    /\ IF Managed(p) THEN con.pc = "up" ELSE fol[dir[p].listener].pc \notin {"dead", "over", "off"}

\* PeerDead, of a registration that was armed.
Reapable(p) == Present(p) /\ ~Managed(p) /\ Armed(p) /\ ~ListenerAlive(p) /\ LockFree(p)

Mine(s) == {p \in Paths : Present(p) /\ dir[p].sid = s}
Swept == {p \in Paths : Reapable(p)}
StoreOnly == UNCHANGED <<writer, con, dev, to, seen, handed, cut, taken>>

\* What the readers of the inboxes of S that looked, and did not open yet, miss.
Replaced(S) ==
    /\ fol' = [f \in Followers |-> [fol[f] EXCEPT !.moved =
                 @ \/ (fol[f].pc = "armed" /\ fol[f].at > 0 /\ fol[f].path \in S)]]
    /\ hook' = [s \in Sessions |-> [hook[s] EXCEPT !.own = @ /\ hook[s].path \notin S]]

\* Join: the dead of the channel go; a session that is registered keeps its
\* alias, another one gets a new directory with an empty inbox and no cursor.
Join(s, p) ==
    /\ LockFree(p) /\ Use("join")
    /\ LET swept == [q \in Paths |-> IF q \in Swept THEN Vacant ELSE dir[q]]
       IN  IF Mine(s) \ Swept # {} \/ ListenerAlive(p) \/ Managed(p)
           THEN dir' = swept /\ UNCHANGED file /\ Replaced(Swept)
           ELSE \E n \in Spare([swept EXCEPT ![p] = Vacant]) :
                   /\ dir' = [swept EXCEPT ![p] = Fresh(s, n)]
                   /\ file' = [file EXCEPT ![n] = <<>>]
                   /\ Replaced(Swept \cup {p})
    /\ StoreOnly

Leave(s) ==
    /\ Mine(s) # {} /\ \A p \in Mine(s) : LockFree(p)
    /\ Use("leave")
    /\ dir' = [p \in Paths |-> IF p \in Mine(s) THEN Vacant ELSE dir[p]]
    /\ Replaced(Mine(s)) /\ UNCHANGED file /\ StoreOnly

\* Rename: the directory moves with inbox and cursors over what held the new
\* name, unless that listens, and the listener's witness is cleared.
Rename(s, p, q) ==
    /\ p \in Mine(s) /\ p # q /\ LockFree(p) /\ LockFree(q)
    /\ ~ListenerAlive(q) /\ ~Managed(p) /\ ~Managed(q)
    /\ Use("rename")
    /\ dir' = [dir EXCEPT ![p] = Vacant, ![q] = [dir[p] EXCEPT !.witness = FALSE]]
    /\ Replaced({p, q}) /\ UNCHANGED file /\ StoreOnly

\* External: something replaces the inbox file under its registration.
Named(p) == {dir[p].cursor.ino, dir[p].stop.ino} \cup (IF Managed(p) THEN {con.ino} ELSE {})
Rotate(p) ==
    /\ Present(p) /\ LockFree(p) /\ Use("rotate")
    /\ \E n \in Spare(dir) :
          /\ dir' = [dir EXCEPT ![p].ino = n, ![p].skipped = 0, ![p].again = n \in Named(p)]
          /\ file' = [file EXCEPT ![n] = <<>>]
          /\ con' = IF Managed(p) THEN [con EXCEPT !.whole = FALSE] ELSE con
    /\ Replaced({p}) /\ UNCHANGED <<writer, dev, to, seen, handed, cut, taken>>

(* ----------------------------------------------------------- the senders - *)

Sent == {m \in Messages : to[m] # NoOne}
NextMail == Cardinality(Sent) + 1

\* A send that is not forced refuses an armed registration nobody listens to.
Deaf(p) == Armed(p) /\ ~ListenerAlive(p)

Write(p, halves) ==
    file' = [file EXCEPT ![dir[p].ino] = @ \o halves]

\* LocalSend: the line arrives whole, or a reader may see the half of it; a
\* writer that fails there leaves it.
Send(p) ==
    /\ Present(p) /\ LockFree(p) /\ NextMail <= MaxMail
    /\ IF Deaf(p) THEN Use("force") ELSE UNCHANGED left
    /\ to' = [to EXCEPT ![NextMail] = dir[p].sid]
    /\ \/ Write(p, <<Half(NextMail), Full(NextMail)>>) /\ UNCHANGED writer
       \/ Write(p, <<Half(NextMail)>>) /\ writer = NoOne /\ writer' = p
    /\ UNCHANGED <<dir, fol, hook, con, dev, seen, handed, cut, taken>>

SendEnds(p) ==
    /\ writer = p /\ writer' = NoOne
    /\ \/ LET l == file[dir[p].ino] IN Write(p, <<l[Len(l)] + 1>>) /\ UNCHANGED left
       \/ UNCHANGED file /\ Use("torn")
    /\ UNCHANGED <<dir, fol, hook, con, dev, to, seen, handed, cut, taken>>

(* --------------------------------------------------------- the followers - *)

\* identityCause: the registration at the follower's path still names it.
StillListener(f) ==
    LET d == dir[fol[f].path]
    IN  d # Vacant /\ d.listener = f /\ d.witness

Boundary(f) == fol[f].at - fol[f].pend

\* What a follower leaves alone.
ReadOnly == UNCHANGED <<file, hook, writer, con, dev, to, handed, cut, taken>>

\* resolveResume: where to read on.  A cursor of this file is believed; one of
\* another file, or beyond the end, means the start; without a cursor a
\* registration armed before is read from its end, whatever that will be.
Resume(p) ==
    LET d == dir[p]
    IN  [end |-> d.cursor.ino = 0 /\ d.listener # NoOne,
         at  |-> IF d.cursor.dev = dev /\ d.cursor.ino = d.ino /\ d.cursor.at <= Len(file[d.ino])
                 THEN d.cursor.at ELSE 0]

\* ArmLocalTail under the lock: refused over another live listener unless it
\* steals.  A cursor that cannot be read means the start.
Arm(f, p) ==
    /\ fol[f].pc \in {"off", "claimed"} /\ Present(p) /\ LockFree(p) /\ ~Managed(p)
    /\ fol[f].pc = "claimed" => fol[f].path = p
    /\ Use(IF ListenerAlive(p) /\ dir[p].listener # f THEN "steal" ELSE "arm")
    /\ \E r \in {Resume(p), [end |-> FALSE, at |-> 0]} :
          /\ r = Resume(p) \/ dir[p].cursor.ino # 0
          /\ fol' = [fol EXCEPT ![f] = [Off EXCEPT !.pc = "armed", !.path = p, !.sid = dir[p].sid,
                                            !.at = r.at, !.end = r.end, !.sure = TRUE]]
    /\ dir' = [dir EXCEPT ![p].listener = f, ![p].witness = TRUE]
    /\ ReadOnly /\ UNCHANGED seen

\* claimListenerAtJoin: the wrapper takes a new registration before its bridge
\* arms in the same process, over a cursor at the start that it wrote first.
Claim(f, p) ==
    /\ fol[f].pc = "off" /\ Present(p) /\ LockFree(p) /\ ~Armed(p)
    /\ Use("claim")
    /\ fol' = [fol EXCEPT ![f] = [Off EXCEPT !.pc = "claimed", !.path = p, !.sid = dir[p].sid]]
    /\ dir' = [dir EXCEPT ![p].listener = f, ![p].witness = TRUE,
                          ![p].cursor = [dev |-> dev, ino |-> dir[p].ino, at |-> 0]]
    /\ ReadOnly /\ UNCHANGED seen

\* The alias now belongs to another registration than the one last looked at.
Stranger(f) == dir[fol[f].path].sid # fol[f].sid

\* openFollow and the reopening after a rotation wait for the path to exist,
\* and look at nothing else.
Open(f) ==
    LET d == dir[fol[f].path]
        k == IF fol[f].pc = "reopen" THEN 0
             ELSE IF fol[f].end THEN Len(file[d.ino]) ELSE fol[f].at
    IN  /\ fol[f].pc \in Waiting /\ d # Vacant
        /\ fol' = [fol EXCEPT ![f] = [@ EXCEPT
                      !.pc = "seed", !.ino = d.ino, !.at = k, !.pend = 0, !.saved = k, !.ticks = 0,
                      !.end = FALSE, !.sure = FALSE, !.late = fol[f].sure /\ Stranger(f), !.moved = FALSE]]
        /\ dir' = IF (fol[f].end \/ fol[f].moved) /\ ~Stranger(f)
                  THEN [dir EXCEPT ![fol[f].path].skipped = Greatest({@, k})] ELSE dir
        /\ ReadOnly /\ UNCHANGED <<left, seen>>

\* writeCursor: through the path, into whatever directory is there; the inode
\* is that of the open file.
WriteCursor(f, k) ==
    LET p == fol[f].path
    IN  /\ Present(p)
        /\ dir' = [dir EXCEPT ![p].cursor = [dev |-> dev, ino |-> fol[f].ino, at |-> k],
                      ![p].foreign = @ \/ (fol[f].late /\ fol[f].ino = dir[p].ino)]

\* The position it starts from is recorded at once; failing is ignored.
Seed(f) ==
    /\ fol[f].pc = "seed"
    /\ fol' = [fol EXCEPT ![f].pc = "read"]
    /\ \/ WriteCursor(f, fol[f].at) /\ UNCHANGED left
       \/ UNCHANGED dir /\ IF Present(fol[f].path) THEN Use("unsaved") ELSE UNCHANGED left
    /\ ReadOnly /\ UNCHANGED seen

\* The rest of the next line, which is shown, or what there is of it.  A line
\* read from its middle shows nothing that anybody could use.
Read(f) ==
    LET n    == fol[f].ino
        ends == LineEnds(n, fol[f].at)
    IN  /\ fol[f].pc = "read" /\ fol[f].at < Len(file[n])
        /\ IF ends # {}
           THEN /\ fol' = [fol EXCEPT ![f].at = Least(ends), ![f].pend = 0]
                /\ seen' = IF fol[f].late \/ Least(ends) = Boundary(f) + 1 THEN seen
                           ELSE seen \cup ({fol[f].sid} \X {Message(file[n][Least(ends)])})
           ELSE /\ fol' = [fol EXCEPT ![f].at = Len(file[n]), ![f].pend = @ + Len(file[n]) - fol[f].at]
                /\ UNCHANGED seen
        /\ ReadOnly /\ UNCHANGED <<dir, left>>

\* Mutant: only a cursor to write makes it look at the registration.
MutantQuiet(f) ==
    /\ fol[f].pc = "read" /\ fol[f].at >= Len(file[fol[f].ino])
    /\ fol' = [fol EXCEPT ![f].pc = IF Boundary(f) # fol[f].saved THEN "check" ELSE "poll"]
    /\ ReadOnly /\ UNCHANGED <<dir, left, seen>>

\* The inbox is quiet: with a boundary to record, or every few rounds, it
\* looks at its registration first.
Quiet(f) ==
    /\ fol[f].pc = "read" /\ fol[f].at >= Len(file[fol[f].ino])
    /\ fol' = [fol EXCEPT ![f].ticks = IF @ = IdleEvery THEN @ ELSE @ + 1,
                   ![f].pc = IF Boundary(f) # fol[f].saved \/ fol[f].ticks + 1 >= IdleEvery
                             THEN "check" ELSE "poll"]
    /\ ReadOnly /\ UNCHANGED <<dir, left, seen>>

\* Mutant: an inbox that was replaced is reopened without a look.
MutantCheck(f) ==
    /\ fol[f].pc \in {"check", "turned"}
    /\ fol' = [fol EXCEPT ![f] =
          IF fol[f].pc = "turned" THEN [@ EXCEPT !.pc = "reopen"]
          ELSE IF ~StillListener(f) THEN [Off EXCEPT !.pc = "over"]
          ELSE IF Boundary(f) # fol[f].saved THEN [@ EXCEPT !.pc = "save"]
          ELSE [@ EXCEPT !.pc = "poll", !.ticks = 0]]
    /\ ReadOnly /\ UNCHANGED <<dir, left, seen>>

\* A follower that is not the listener any more says so and ends.
Check(f) ==
    /\ fol[f].pc \in {"check", "turned"}
    /\ fol' = [fol EXCEPT ![f] =
          IF ~StillListener(f) THEN [Off EXCEPT !.pc = "over"]
          ELSE IF fol[f].pc = "turned" THEN [@ EXCEPT !.pc = "reopen", !.sure = TRUE]
          ELSE IF Boundary(f) # fol[f].saved THEN [@ EXCEPT !.pc = "save"]
          ELSE [@ EXCEPT !.pc = "poll", !.ticks = 0]]
    /\ ReadOnly /\ UNCHANGED <<dir, left, seen>>

\* Mutant: what was read is recorded, a half line too.
MutantSave(f) ==
    /\ fol[f].pc = "save"
    /\ WriteCursor(f, fol[f].at) /\ UNCHANGED left
    /\ fol' = [fol EXCEPT ![f].pc = "poll", ![f].ticks = 0, ![f].saved = Boundary(f)]
    /\ ReadOnly /\ UNCHANGED seen

\* The cursor goes to the last line shown; a failed write is tried again.
Save(f) ==
    /\ fol[f].pc = "save"
    /\ \/ /\ WriteCursor(f, Boundary(f)) /\ UNCHANGED left
          /\ fol' = [fol EXCEPT ![f].pc = "poll", ![f].ticks = 0, ![f].saved = Boundary(f)]
       \/ /\ UNCHANGED dir /\ IF Present(fol[f].path) THEN Use("unsaved") ELSE UNCHANGED left
          /\ fol' = [fol EXCEPT ![f].pc = "poll", ![f].ticks = 0]
    /\ ReadOnly /\ UNCHANGED seen

\* rotated: another inode, or fewer bytes than were consumed.
Rotated(f) ==
    LET d == dir[fol[f].path] IN d.ino # fol[f].ino \/ Len(file[d.ino]) < fol[f].at

\* A path that is gone is polled on: the old file stays open.
Poll(f) ==
    /\ fol[f].pc = "poll"
    /\ fol' = [fol EXCEPT ![f].pc = IF Present(fol[f].path) /\ Rotated(f) THEN "turned" ELSE "read"]
    /\ ReadOnly /\ UNCHANGED <<dir, left, seen>>

Die(f) ==
    /\ fol[f].pc \in {"claimed"} \cup Running \cup Waiting
    /\ Use("die")
    /\ fol' = [fol EXCEPT ![f] = [Off EXCEPT !.pc = "dead"]]
    /\ ReadOnly /\ UNCHANGED <<dir, seen>>

(* --------------------------------------------------------- the Stop hook - *)

HookOnly == UNCHANGED <<file, fol, writer, con, dev, to, seen, taken>>

\* The hook looks up its registration once, then polls that path until it has
\* something to hand over or the time is up.
HookStarts(s) ==
    /\ hook[s].pc = "off" /\ Use("hook")
    /\ \E p \in Mine(s) : hook' = [hook EXCEPT ![s] = [NoHook EXCEPT !.pc = "poll", !.path = p]]
    /\ UNCHANGED <<dir, handed, cut>> /\ HookOnly

HookEnds(s) ==
    /\ hook[s].pc = "poll"
    /\ hook' = [hook EXCEPT ![s] = NoHook]
    /\ UNCHANGED <<dir, left, handed, cut>> /\ HookOnly

\* Identity of the file, and the cursor if it counts in that file ...
HookLooks(s) ==
    LET d == dir[hook[s].path]
    IN  /\ hook[s].pc = "poll" /\ d # Vacant
        /\ hook' = [hook EXCEPT ![s].pc = "look", ![s].dev = dev, ![s].ino = d.ino, ![s].own = d.sid = s,
              ![s].at = IF d.stop.dev = dev /\ d.stop.ino = d.ino /\ d.stop.at <= Len(file[d.ino])
                        THEN d.stop.at ELSE 0]
        /\ UNCHANGED <<dir, left, handed, cut>> /\ HookOnly

\* ... then the file at the path is read from there, whole lines only, and the
\* cursor written under the identity it looked at, unless that write fails; ...
HookReads(s) ==
    LET p == hook[s].path
        d == dir[p]
        ends == LineEnds(d.ino, hook[s].at)
        new  == Complete(d.ino, Len(file[d.ino])) \ Complete(d.ino, hook[s].at)
    IN  /\ hook[s].pc = "look" /\ UNCHANGED <<handed, cut>> /\ HookOnly
        /\ IF d = Vacant \/ ends = {}
           THEN /\ hook' = [hook EXCEPT ![s] = [NoHook EXCEPT !.pc = "poll", !.path = p]]
                /\ UNCHANGED <<dir, left>>
           ELSE /\ hook' = [hook EXCEPT ![s] = [NoHook EXCEPT !.pc = "block", !.path = p, !.lines = new]]
                /\ \/ UNCHANGED dir /\ Use("unsaved")
                   \/ /\ dir' = [dir EXCEPT
                              ![p].stop = [dev |-> hook[s].dev, ino |-> hook[s].ino, at |-> Greatest(ends)],
                              ![p].foreign = @ \/ ~hook[s].own]
                      /\ UNCHANGED left

\* ... with lines to hand over the hook blocks the stop and returns them.
HookHands(s) ==
    /\ hook[s].pc = "block"
    /\ hook' = [hook EXCEPT ![s] = NoHook]
    /\ handed' = handed \cup ({s} \X hook[s].lines)
    /\ UNCHANGED <<dir, left, cut>> /\ HookOnly

HookDies(s) ==
    /\ hook[s].pc # "off" /\ Use("die")
    /\ hook' = [hook EXCEPT ![s] = NoHook]
    /\ cut' = cut \cup ({s} \X hook[s].lines)
    /\ UNCHANGED <<dir, handed>> /\ HookOnly

(* ----------------------------------------------------- the connection -- *)

ConOnly == UNCHANGED <<file, fol, hook, writer, dev, to, seen, handed, cut>>

Owned == con.pc # "off" /\ Managed(con.path) /\ dir[con.path].sid = con.sid
Inbox == file[dir[con.path].ino]

\* connect: a directory, an inbox and a record of its identity.
Connect(s, p) ==
    /\ con = NoCon /\ dir[p] = Vacant /\ LockFree(p) /\ Mine(s) = {} /\ Use("connect")
    /\ \E n \in Spare(dir) :
          /\ file' = [file EXCEPT ![n] = <<>>]
          /\ dir' = [dir EXCEPT ![p] = [Fresh(s, n) EXCEPT !.conn = TRUE]]
          /\ con' = [NoCon EXCEPT !.pc = "up", !.path = p, !.sid = s, !.dev = dev, !.ino = n]
    /\ UNCHANGED <<fol, hook, writer, dev, to, seen, handed, cut, taken>>

\* inboxRecordMatches: the bytes of an attempt's line are where they were.
RecordMatches(a) ==
    /\ a.end \in 2 .. Len(Inbox) /\ SubSeq(Inbox, a.end - 1, a.end) = <<Half(a.m), Full(a.m)>>
    /\ a.end > 2 => Ends(Inbox[a.end - 2])

\* Mutant: only an accepted attempt is looked for.
MutantInboxAnchor == {con.last}

\* inboxAnchor: what was consumed last, accepted or given up.
InboxAnchor == {a \in {con.last} \cup con.given : a.end = con.at}

\* inboxEpochDecision: the recorded file, long enough; under another device
\* number only if the last record consumed and the pending one are there.
EpochDecision(k) ==
    /\ dir[con.path].ino = con.ino /\ k <= Len(Inbox)
    /\ \/ con.dev = dev
       \/ /\ con.at > 0 => \E a \in InboxAnchor : RecordMatches(a)
          /\ con.pend # NoAttempt => RecordMatches(con.pend)

\* A pass of the daemon, or a verb, that may go on.
Working(k) == con.pc = "up" /\ Owned /\ LockFree(con.path) /\ EpochDecision(k)
ArmedNow == dir' = [dir EXCEPT ![con.path].witness = TRUE]

\* The next line, if it is whole; one with the half of another in it is an
\* error of every pass.
NextLine == {a \in {Attempt(m, con.at + 2) : m \in Messages} : RecordMatches(a)}

\* deliver with nothing to read: the new device is recorded, or the listener
\* restored.
ConIdles ==
    /\ Working(con.at) /\ LineEnds(con.ino, con.at) = {} /\ con.pend = NoAttempt
    /\ con' = [con EXCEPT !.dev = dev]
    /\ IF con.dev = dev /\ con.at = Len(Inbox) THEN ArmedNow ELSE UNCHANGED dir
    /\ UNCHANGED <<left, taken>> /\ ConOnly

\* deliver: the line is journaled before it is submitted ...
ConJournals ==
    /\ Working(con.at) /\ con.pend = NoAttempt
    /\ \E a \in NextLine : con' = [con EXCEPT !.dev = dev, !.pend = a]
    /\ ArmedNow /\ UNCHANGED <<left, taken>> /\ ConOnly

\* ... and counts once it is accepted, if its bytes are still there,
ConAccepts ==
    /\ Working(con.at) /\ con.pend \in NextLine
    /\ con' = [con EXCEPT !.dev = dev, !.at = con.pend.end, !.last = con.pend, !.pend = NoAttempt]
    /\ taken' = taken \cup {<<con.sid, con.pend.m>>}
    /\ ArmedNow /\ UNCHANGED left /\ ConOnly

\* or given up by the operator.
ConAbandons ==
    /\ con.pend # NoAttempt /\ Working(con.pend.end) /\ con.pend \in NextLine /\ Use("abandon")
    /\ con' = [con EXCEPT !.dev = dev, !.at = con.pend.end, !.given = @ \cup {con.pend},
                          !.pend = NoAttempt]
    /\ taken' = taken \cup {<<con.sid, con.pend.m>>}
    /\ UNCHANGED dir /\ ConOnly

\* rearmLoaded: a new daemon restores the listener of an inbox it knows, under
\* a peer lock it does not wait for.
Rearm ==
    /\ con.pc = "down"
    /\ IF Owned /\ LockFree(con.path) /\ EpochDecision(con.at)
       THEN con' = [con EXCEPT !.pc = "up", !.dev = dev] /\ ArmedNow
       ELSE con' = [con EXCEPT !.pc = "up"] /\ UNCHANGED dir
    /\ UNCHANGED <<left, taken>> /\ ConOnly

DaemonGone == [p \in Paths |-> IF Managed(p) THEN [dir[p] EXCEPT !.witness = FALSE] ELSE dir[p]]
ConDies ==
    /\ con.pc = "up" /\ Use("crash")
    /\ con' = [con EXCEPT !.pc = "down"] /\ dir' = DaemonGone
    /\ UNCHANGED taken /\ ConOnly

\* The machine goes down and comes back with another device number; the inbox
\* is as it was, or as a backup had it.
Reboot ==
    /\ con.pc # "off" /\ Owned /\ Use("reboot")
    /\ dev' = dev + 1 /\ dir' = DaemonGone
    /\ \E k \in {0, Len(Inbox)} \cup LineEnds(dir[con.path].ino, 0) :
          /\ file' = [file EXCEPT ![dir[con.path].ino] = SubSeq(@, 1, k)]
          /\ con' = [con EXCEPT !.pc = "down", !.whole = @ /\ k = Len(Inbox)]
    /\ writer' = NoOne /\ hook' = [s \in Sessions |-> NoHook]
    /\ fol' = [f \in Followers |-> IF fol[f].pc = "off" THEN Off ELSE [Off EXCEPT !.pc = "dead"]]
    /\ UNCHANGED <<to, seen, handed, cut, taken>>

(* -------------------------------------------------------- specification -- *)

Command ==
    \/ \E s \in Sessions, p \in Paths : Join(s, p)
    \/ \E s \in Sessions : Leave(s)
    \/ \E s \in Sessions, p, q \in Paths : Rename(s, p, q)
    \/ \E p \in Paths : Rotate(p) \/ Send(p) \/ SendEnds(p)
    \/ \E f \in Followers, p \in Paths : Arm(f, p) \/ Claim(f, p)
    \/ \E f \in Followers : Die(f)
    \/ \E s \in Sessions :
          \/ HookStarts(s) \/ HookEnds(s) \/ HookLooks(s)
          \/ HookReads(s) \/ HookHands(s) \/ HookDies(s)
    \/ \E s \in Sessions, p \in Paths : Connect(s, p)
    \/ ConAbandons \/ ConDies \/ Reboot

Step(f) == Open(f) \/ Seed(f) \/ Read(f) \/ Quiet(f) \/ Check(f) \/ Save(f) \/ Poll(f)

Pass == ConIdles \/ ConJournals \/ ConAccepts

Next == Command \/ Pass \/ Rearm \/ \E f \in Followers : Step(f)

Spec == Init /\ [][Next]_vars

\* A follower that can take a step does, in the end, and its writes do not
\* fail forever (a failure is counted by Budgets); a writer ends its line.  The
\* daemon starts again after a crash, and makes its passes.
Fairness ==
    /\ \A f \in Followers : WF_vars(Step(f))
    /\ \A p \in Paths : WF_vars(SendEnds(p))
    /\ WF_vars(Pass) /\ WF_vars(Rearm)

FairSpec == Spec /\ Fairness

(* ------------------------------------------------------------ properties - *)

\* A cursor that counts in the file that is there now.
Counts(c, p) == c.dev = dev /\ c.ino = dir[p].ino

\* A registration whose records only its own readers moved, and whose inode
\* number stood for one file.
Untouched(p) == Present(p) /\ ~dir[p].foreign /\ ~dir[p].again

CursorCountsShown ==
    \A p \in Paths : Untouched(p) /\ Counts(dir[p].cursor, p) =>
        \A m \in Complete(dir[p].ino, dir[p].cursor.at) \ Begun(dir[p].ino, dir[p].skipped) :
            <<dir[p].sid, m>> \in seen

\* A hook writes its cursor before it hands over what it read.
Held == {x \in Sessions \X Messages : x[2] \in hook[x[1]].lines}
StopCountsHanded ==
    \A p \in Paths : Untouched(p) /\ Counts(dir[p].stop, p) =>
        \A m \in Complete(dir[p].ino, dir[p].stop.at) : <<dir[p].sid, m>> \in handed \cup Held \cup cut

OffsetCountsTaken ==
    Owned /\ EpochDecision(con.at) /\ ~dir[con.path].again =>
        \A m \in Complete(con.ino, con.at) : <<con.sid, m>> \in taken

\* No reader's record of where it was makes it pass over mail: the cursor of a
\* follower counts only lines shown by a follower armed for that registration,
\* that of a Stop hook lines a hook handed over, or still holds, or was killed
\* with before it handed them over, and the offset of a connection whose inbox
\* is accepted for its own only mail it settled.  Half a line that is still
\* being written, the write of a follower displaced after its check, a rename, a
\* new registration under the old name, a used-again inode, a new device number
\* and a backup of the inbox change nothing in that.  What an arm without a
\* cursor skipped on purpose is left out, and a directory a late open wrote into.
NothingIsSkipped == CursorCountsShown /\ StopCountsHanded /\ OffsetCountsTaken

\* A follower shows, and a connection settles, mail of the registration it was
\* made for and of no other one that takes the alias over, whatever is done to
\* inbox and directory; the hand-over between a follower's look at the
\* registration and its open is left out.
OwnMailOnly == \A x \in seen \cup taken : to[x[2]] = x[1]

\* A follower that is displaced, whose alias was renamed, left or taken over,
\* ends, also on an inbox that stays quiet.
Displaced(f) == fol[f].pc \in Running /\ ~StillListener(f)
DisplacedStops == \A f \in Followers : Displaced(f) ~> fol[f].pc \notin Running \/ ~Displaced(f)

Unshown(f, m) ==
    LET d == dir[fol[f].path]
    IN  /\ fol[f].pc \in Running \cup Waiting /\ StillListener(f) /\ Untouched(fol[f].path) /\ ~fol[f].late
        /\ m \in Complete(d.ino, Len(file[d.ino])) \ Begun(d.ino, d.skipped)
        /\ <<d.sid, m>> \notin seen
\* A connection that is not blocked by a replaced inbox has mail to deliver.
Untaken(m) ==
    /\ Owned /\ con.whole /\ <<con.sid, m>> \notin taken
    /\ \A i \in 1 .. Len(Inbox) : Ends(Inbox[i]) = Ends(i)
    /\ m \in Complete(con.ino, Len(Inbox))

\* A line in the inbox of a registration with a live listener is shown, or was
\* shown before, or the listener goes.  A line in the inbox of a connection is
\* settled, also after daemon and machine went down and the volume came back
\* under another device number, unless the inbox was replaced or a torn line is
\* in it.
MailIsRead ==
    /\ \A f \in Followers, m \in Messages : Unshown(f, m) ~> ~Unshown(f, m)
    /\ \A m \in Messages : Untaken(m) ~> ~Untaken(m)
=============================================================================
