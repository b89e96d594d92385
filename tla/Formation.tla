----------------------------- MODULE Formation -----------------------------
(***************************************************************************)
(* Putting sessions back: the saved formation, the launchers that apply    *)
(* it (apply, the anchor's resume, branch and spawn), the launch marker,   *)
(* the coordinator records, the placeholders and the processes a terminal  *)
(* may or may not have opened.                                             *)
(*                                                                         *)
(* A launcher reads the world once and then starts its peers one after     *)
(* the other.  Every step between two system calls on a shared file is an  *)
(* action; what is done under a peer lock is one action.  Left out: the    *)
(* prompt, the model and the place of a window, other machines and         *)
(* harnesses (a peer of theirs is not in the file), the wait for answers,  *)
(* and the listener's own life beyond armed and gone.                      *)
(***************************************************************************)
EXTENDS Naturals, FiniteSets, TLC

CONSTANTS
    Aliases,      \* the aliases of the channel
    Orchestrators, \* the aliases whose role file is the orchestrator's
    Anchor,       \* the alias apply starts first and resume restores
    Launchers,    \* the sessions that run a launching command
    Nobody,       \* no launcher
    OnStale,      \* what a peer without a transcript becomes
    MaxSessions,  \* bound: session ids
    MaxProcs,     \* bound: processes
    Budgets       \* bound: how many commands and mishaps of each kind there are

\* The commands and mishaps.
Kinds == {"apply", "choose", "anchor", "branch", "spawn", "bootstrap", "hand", "exit",
          "rename", "save", "fail", "killed", "expire"}

ASSUME FormationAssumption ==
    /\ Anchor \in Aliases /\ Orchestrators \subseteq Aliases /\ Nobody \notin Launchers
    /\ OnStale \in {"template", "skip", "fail"}
    /\ MaxSessions \in Nat \ {0} /\ MaxProcs \in Nat   \* the saved anchor's is a session
    /\ Budgets \subseteq [Kinds -> Nat]

VARIABLES
    file,     \* file[a]: what the formation records of peer a
    seat,     \* seat[a]: the registration of alias a
    marker,   \* marker[a]: the launch intent of alias a
    reclaim,  \* reclaim[a]: who holds the marker's reclaim lock
    coord,    \* coord[a]: the coordinator record of alias a
    proc,     \* the processes that launches and users started
    launch,   \* launch[l]: what launcher l is doing
    ledger,   \* sessions recorded as fork-born in a registration or the ledger
    sids,     \* session ids handed out
    left,     \* the commands and mishaps that may still come
    late,     \* ghost: processes no marker guards any more on their way to the bus
    blurred   \* ghost: fork-born sessions that answered a fresh launch's placeholder,
              \* and sessions two of whose joins overlapped

vars == <<file, seat, marker, reclaim, coord, proc, launch, ledger, sids, left, late,
          blurred>>

NoSid    == 0
Reserved == MaxSessions + 1
Sessions == 1 .. MaxSessions
Procs    == 1 .. MaxProcs
Modes    == {"resume", "fork", "template"}
Origins  == {"", "fresh", "fork", "joined"}

NoSeat   == [sid |-> NoSid, origin |-> "", listener |-> "never"]
NoMarker == [sid |-> NoSid, by |-> Nobody, fresh |-> FALSE]
NoCoord  == [by |-> Nobody, sid |-> NoSid, fresh |-> FALSE]
NoProc   == [st |-> "none", a |-> Anchor, sid |-> NoSid, how |-> "hand", birth |-> ""]
Skip     == [how |-> "skip", sid |-> NoSid]
Idle     == [pc |-> "idle", todo |-> {}, plan |-> [a \in Aliases |-> Skip], a |-> Anchor,
             again |-> FALSE, prev |-> NoCoord, wrote |-> NoCoord, lost |-> FALSE]

Starts == {"resume", "anchor", "fork", "template", "branch", "spawn"}
Names  == Launchers \cup {Nobody}

Ids      == 0 .. MaxSessions
Peers    == [sid : Ids, origin : Origins, mode : Modes \cup {"none"}]
Seats    == [sid : 0 .. Reserved, origin : Origins, listener : {"never", "alive", "gone"}]
Markers  == [sid : Ids, by : Names, fresh : BOOLEAN]
Coords   == [by : Names, sid : Ids, fresh : BOOLEAN]
Stations == {"none", "opening", "running", "joining", "arrived", "joined", "dead"}
Children == [st : Stations, a : Aliases, sid : Ids, how : Starts \cup {"hand"}, birth : Origins]
Start    == [how : Starts \cup {"skip"}, sid : Ids]
Places   == {"idle", "next", "link", "taken", "peek", "swap", "claimed", "recorded",
             "undo", "unreserve"}
Plans    == [Aliases -> Start]
Launches == [pc : Places, todo : SUBSET Aliases, plan : Plans, a : Aliases, again : BOOLEAN,
             prev : Coords, wrote : Coords, lost : BOOLEAN]

TypeOK ==
    /\ file \in [Aliases -> Peers] /\ seat \in [Aliases -> Seats]
    /\ marker \in [Aliases -> Markers] /\ reclaim \in [Aliases -> Names]
    /\ coord \in [Aliases -> Coords] /\ proc \in [Procs -> Children]
    /\ launch \in [Launchers -> Launches]
    /\ sids \in Ids /\ ledger \subseteq Sessions /\ late \subseteq Procs
    /\ blurred \subseteq Sessions /\ left \in [Kinds -> Nat]

\* The anchor was saved as a fresh session's, to be resumed; another peer is in
\* the file as a template or not at all.
Init ==
    /\ file \in {[a \in Aliases |-> IF a = Anchor
                     THEN [sid |-> 1, origin |-> "fresh", mode |-> "resume"]
                     ELSE [sid |-> NoSid, origin |-> "", mode |-> m]] : m \in {"template", "none"}}
    /\ seat = [a \in Aliases |-> NoSeat]
    /\ marker = [a \in Aliases |-> NoMarker] /\ reclaim = [a \in Aliases |-> Nobody]
    /\ coord = [a \in Aliases |-> NoCoord]
    /\ proc = [p \in Procs |-> NoProc] /\ launch = [l \in Launchers |-> Idle]
    /\ ledger = {} /\ sids = 1 /\ left \in Budgets /\ late = {} /\ blurred = {}

\* A user gives a command, or a mishap strikes.
Use(c) == left[c] > 0 /\ left' = [left EXCEPT ![c] = @ - 1]

(* ------------------------------------------------------------- the plan -- *)

Listening(a) == seat[a].listener = "alive"
Coming(p)    == proc[p].st \in {"opening", "running", "joining"}

\* A session some listener, some process' arguments or Claude's own registry
\* shows.  The window just asked for shows in none of them.
LiveSids == {seat[a].sid : a \in {b \in Aliases : Listening(b)}}
       \cup {proc[p].sid : p \in {q \in Procs : proc[q].st \in {"running", "joining", "arrived", "joined"}}}

Duplicate(s) == Cardinality({a \in Aliases : file[a].sid = s}) > 1

Template == [how |-> "template", sid |-> NoSid]
OnStaleFallback == IF OnStale = "template" THEN Template ELSE Skip

\* A transcript the tool may attribute: no other alias claims it and the birth
\* of the peer is recorded, and is not a fork.
Attributed(p) == ~Duplicate(p.sid) /\ p.origin \notin {"fork", ""}

\* decidePeer, when the transcripts of the sessions gone are not on the disk and
\* the run asks for mode m; "own" leaves each peer its own.
Decide(a, m, gone) ==
    LET p == file[a]
        mode == IF m = "own" THEN p.mode ELSE m IN
    IF p.mode = "none" \/ Listening(a) THEN Skip
    ELSE IF mode = "template" THEN Template
    ELSE IF p.sid = NoSid THEN OnStaleFallback
    ELSE IF ~Attributed(p) THEN Skip
    ELSE IF p.sid \in gone THEN OnStaleFallback
    ELSE IF mode = "resume" /\ p.sid \in LiveSids THEN Skip
    ELSE [how |-> mode, sid |-> p.sid]

Becomes(l, f) == launch' = [launch EXCEPT ![l] = f]
Begin(plan) == [Idle EXCEPT !.pc = "next", !.plan = plan,
                            !.todo = {a \in Aliases : plan[a] # Skip}]
Only(a, start) == [b \in Aliases |-> IF b = a THEN start ELSE Skip]

OnlyPlans == UNCHANGED <<file, seat, marker, reclaim, coord, proc, ledger, blurred, sids, late>>

\* Apply gathers the world once and decides every peer from it; --only names
\* the peers to start, --mode says how for all of them.
Apply(l, m, only) ==
    /\ launch[l] = Idle /\ Use(IF m = "own" /\ only = Aliases THEN "apply" ELSE "choose")
    /\ \E gone \in {{}, {file[Anchor].sid}} :
          LET plan == [a \in Aliases |-> IF a \in only THEN Decide(a, m, gone) ELSE Skip] IN
          (\E a \in Aliases : plan[a] # Skip) /\ Becomes(l, Begin(plan))
    /\ OnlyPlans

\* ResumeAnchor has the same gates but the one on a live alias.
ResumeAnchor(l) ==
    LET p == file[Anchor] IN
    /\ launch[l] = Idle /\ Use("anchor")
    /\ p.sid # NoSid /\ Attributed(p) /\ p.sid \notin LiveSids
    /\ Becomes(l, Begin(Only(Anchor, [how |-> "anchor", sid |-> p.sid])))
    /\ OnlyPlans

\* branch and spawn start one child under a name of its own.
StartChild(l, a, how) ==
    /\ launch[l] = Idle /\ Use(how)
    /\ Becomes(l, Begin(Only(a, [how |-> how, sid |-> NoSid])))
    /\ OnlyPlans

(* ----------------------------------------------------------- the launch -- *)

At(l, pc) == launch[l].pc = pc
Step(l, pc) == Becomes(l, [launch[l] EXCEPT !.pc = pc])

\* The peers are started one by one, the anchor first; one that fails is left.
Next1(l, a) == At(l, "next") /\ a \in launch[l].todo /\ (Anchor \in launch[l].todo => a = Anchor)
Done(l, a) ==
    LET todo == launch[l].todo \ {a} IN
    Becomes(l, IF todo = {} THEN Idle
               ELSE [Idle EXCEPT !.pc = "next", !.plan = launch[l].plan, !.todo = todo])
Mine(l)    == launch[l].plan[launch[l].a]
Reserves(how) == how \notin {"resume", "anchor"}
BornAs(how) == IF how \in {"fork", "branch"} THEN "fork" ELSE "fresh"

\* PruneChannel on the way: registrations whose listener is gone.
Pruned == [a \in Aliases |-> IF seat[a].listener = "gone" THEN NoSeat ELSE seat[a]]

\* ReserveAlias takes the name over from anything that is not listening.
ReserveAlias(l, a) ==
    /\ Next1(l, a) /\ Reserves(launch[l].plan[a].how)
    /\ IF Listening(a) THEN seat' = Pruned /\ Done(l, a)
       ELSE /\ seat' = [Pruned EXCEPT ![a] = [NoSeat EXCEPT !.sid = Reserved,
                                                !.origin = BornAs(launch[l].plan[a].how)]]
            /\ Becomes(l, [launch[l] EXCEPT !.pc = "claimed", !.a = a])
    /\ UNCHANGED <<file, marker, reclaim, coord, proc, ledger, blurred, sids, left, late>>

MyMarker(l, a) == [sid |-> launch[l].plan[a].sid, by |-> l, fresh |-> TRUE]
OnlyMarker == UNCHANGED <<file, seat, coord, proc, ledger, blurred, sids, left, late>>

\* ClaimLaunchIntent: the link that only one launcher can make ...
Claiming(l, a) == \/ Next1(l, a) /\ ~Reserves(launch[l].plan[a].how)
                  \/ At(l, "link") /\ a = launch[l].a

Link(l) ==
    \E a \in Aliases :
       /\ Claiming(l, a)
       /\ IF marker[a] = NoMarker
          THEN /\ marker' = [marker EXCEPT ![a] = MyMarker(l, a)]
               /\ Becomes(l, [launch[l] EXCEPT !.pc = "claimed", !.a = a])
          ELSE Becomes(l, [launch[l] EXCEPT !.pc = "taken", !.a = a]) /\ UNCHANGED marker
       /\ UNCHANGED reclaim /\ OnlyMarker

\* ... a fresh marker or a second failure refuses, a corpse is reclaimed under
\* a lock nobody waits for ...
Taken(l) ==
    LET a == launch[l].a IN
    /\ At(l, "taken")
    /\ IF marker[a].fresh \/ launch[l].again THEN Done(l, a) /\ UNCHANGED reclaim
       ELSE IF reclaim[a] = Nobody
            THEN reclaim' = [reclaim EXCEPT ![a] = l] /\ Step(l, "peek")
            ELSE Becomes(l, [launch[l] EXCEPT !.pc = "link", !.again = TRUE]) /\ UNCHANGED reclaim
    /\ UNCHANGED marker /\ OnlyMarker

\* ... which looks again: gone or fresh, back to the link.
Peek(l) ==
    LET a == launch[l].a IN
    /\ At(l, "peek")
    /\ IF marker[a] = NoMarker \/ marker[a].fresh
       THEN /\ Becomes(l, [launch[l] EXCEPT !.pc = "link", !.again = TRUE])
            /\ reclaim' = [reclaim EXCEPT ![a] = Nobody]
       ELSE Step(l, "swap") /\ UNCHANGED reclaim
    /\ UNCHANGED marker /\ OnlyMarker

\* The rename replaces whatever is there by the launcher's own marker.
Swap(l) ==
    LET a == launch[l].a IN
    /\ At(l, "swap")
    /\ marker' = [marker EXCEPT ![a] = MyMarker(l, a)]
    /\ reclaim' = [reclaim EXCEPT ![a] = Nobody]
    /\ Step(l, "claimed") /\ OnlyMarker

\* Whom the prompt names: nobody for the anchor, for an orchestrator and for a
\* spawn that has no role; else one coordinator, which here goes by the name of
\* the launcher whose prompt it is.
Coordinators(l) ==
    CASE Mine(l).how = "anchor" -> {Nobody}
      [] Mine(l).how = "branch" -> {l}
      [] Mine(l).how = "spawn"  -> {l, Nobody}
      [] OTHER -> IF launch[l].a \in Orchestrators THEN {Nobody} ELSE {l}

\* recordCoordinator: the record, or none when the prompt names nobody, and
\* what undo would put back.
RecordCoordinator(l) ==
    LET a == launch[l].a IN
    /\ At(l, "claimed")
    /\ \/ \E c \in Coordinators(l) :
             LET wrote == IF c = Nobody THEN NoCoord
                          ELSE [by |-> c, fresh |-> TRUE,
                                sid |-> IF Mine(l).how = "resume" THEN Mine(l).sid ELSE NoSid] IN
             /\ coord' = [coord EXCEPT ![a] = wrote]
             /\ Becomes(l, [launch[l] EXCEPT !.pc = "recorded", !.prev = coord[a], !.wrote = wrote])
             /\ UNCHANGED left
       \/ /\ Use("fail") /\ UNCHANGED coord
          /\ IF Reserves(Mine(l).how) THEN Step(l, "unreserve") ELSE Done(l, a)
    /\ UNCHANGED <<file, seat, marker, reclaim, proc, ledger, blurred, sids, late>>

\* A process that comes up without a guard on its way: its marker expired or
\* was answered by another process of the session.
Opens(l, p) ==
    /\ proc[p].st = "none" /\ \A q \in Procs : q < p => proc[q].st # "none"
    /\ proc' = [proc EXCEPT ![p] = [st |-> "opening", a |-> launch[l].a, how |-> Mine(l).how,
                    birth |-> "", sid |-> IF Reserves(Mine(l).how) THEN NoSid ELSE Mine(l).sid]]
    /\ late' = IF launch[l].lost THEN late \cup {p} ELSE late

\* The forker opens a window, or fails; it may report a failure and have opened.
Fork(l) ==
    /\ At(l, "recorded")
    /\ \/ (\E p \in Procs : Opens(l, p)) /\ Done(l, launch[l].a) /\ UNCHANGED left
       \/ (\E p \in Procs : Opens(l, p)) /\ Step(l, "undo") /\ Use("fail")
       \/ UNCHANGED <<proc, late>> /\ Step(l, "undo") /\ Use("fail")
    /\ UNCHANGED <<file, seat, marker, reclaim, coord, ledger, blurred, sids>>

SameBytes(r, s) == r.by = s.by /\ r.sid = s.sid

\* Mutant: undo puts the previous record back whatever is there.
MutantUndo(l) ==
    LET a == launch[l].a IN
    /\ At(l, "undo")
    /\ coord' = [coord EXCEPT ![a] = launch[l].prev]
    /\ IF Reserves(Mine(l).how) THEN Step(l, "unreserve") ELSE Done(l, a)
    /\ UNCHANGED <<file, seat, marker, reclaim, proc, ledger, blurred, sids, left, late>>

\* undo puts back what was there if what is there is still what was written.
Undo(l) ==
    LET a == launch[l].a IN
    /\ At(l, "undo")
    /\ coord' = IF SameBytes(coord[a], launch[l].wrote)
                THEN [coord EXCEPT ![a] = launch[l].prev] ELSE coord
    /\ IF Reserves(Mine(l).how) THEN Step(l, "unreserve") ELSE Done(l, a)
    /\ UNCHANGED <<file, seat, marker, reclaim, proc, ledger, blurred, sids, left, late>>

\* Unreserve removes the placeholder unless somebody answered it.
Unreserve(l) ==
    LET a == launch[l].a IN
    /\ At(l, "unreserve")
    /\ seat' = IF seat[a].sid = Reserved THEN [seat EXCEPT ![a] = NoSeat] ELSE seat
    /\ Done(l, a)
    /\ UNCHANGED <<file, marker, reclaim, coord, proc, ledger, blurred, sids, left, late>>

\* A launcher killed at any point leaves its files; its locks die with it.
Killed(l) ==
    /\ launch[l] # Idle /\ Use("killed")
    /\ reclaim' = [a \in Aliases |-> IF reclaim[a] = l THEN Nobody ELSE reclaim[a]]
    /\ Becomes(l, Idle)
    /\ UNCHANGED <<file, seat, marker, coord, proc, ledger, blurred, sids, late>>

\* bootstrap records whom its prompt names, and nobody for an orchestrator,
\* unless the name is taken.
RecordBootstrapCoordinator(l, a) ==
    /\ launch[l] = Idle /\ Use("bootstrap") /\ file[a].mode # "none" /\ seat[a] = NoSeat
    /\ coord' = [coord EXCEPT ![a] =
                    IF a \in Orchestrators THEN NoCoord
                    ELSE [by |-> l, fresh |-> TRUE,
                          sid |-> IF file[a].mode = "resume" THEN file[a].sid ELSE NoSid]]
    /\ UNCHANGED <<file, seat, marker, reclaim, proc, launch, ledger, blurred, sids, late>>

(* ------------------------------------------------------- the processes -- *)

Launching == UNCHANGED <<file, launch, reclaim, left>>

\* The marker of alias a stops guarding: its launcher's window, to be opened or
\* on its way, is on its own.
Unguarded(a) ==
    /\ launch' = [l \in Launchers |->
          IF launch[l].pc \in {"claimed", "recorded"} /\ launch[l].a = a /\ marker[a].by = l
          THEN [launch[l] EXCEPT !.lost = TRUE] ELSE launch[l]]
    /\ late' = late \cup {p \in Procs : Coming(p) /\ proc[p].sid = marker[a].sid}

\* A window becomes a process; a child that is no resume gets a session id.
Boot(p) ==
    /\ proc[p].st = "opening"
    /\ IF proc[p].sid # NoSid
       THEN proc' = [proc EXCEPT ![p].st = "running"] /\ UNCHANGED sids
       ELSE /\ sids < MaxSessions /\ sids' = sids + 1
            /\ proc' = [proc EXCEPT ![p].st = "running", ![p].sid = sids + 1]
    /\ Launching /\ UNCHANGED <<seat, marker, coord, ledger, blurred, late>>

\* A user starts a session by hand, or one that has ended, to join some name.
StartByHand(p, a) ==
    /\ Use("hand") /\ proc[p].st = "none" /\ \A q \in Procs : q < p => proc[q].st # "none"
    /\ \E s \in 1 .. sids + 1 :
          /\ s \in Sessions \ LiveSids
          /\ sids' = IF s > sids THEN s ELSE sids
          /\ proc' = [proc EXCEPT ![p] = [st |-> "running", a |-> a, sid |-> s, how |-> "hand",
                                           birth |-> ""]]
    /\ UNCHANGED <<file, seat, marker, reclaim, coord, launch, ledger, blurred, late>>

\* settleCoordinatorRecord: the launched child binds an open record, a
\* returning session keeps its own, anyone else removes it.
Settled(r, s) ==
    IF r = NoCoord \/ r.sid = s THEN r
    ELSE IF r.sid = NoSid /\ r.fresh THEN [r EXCEPT !.sid = s]
    ELSE NoCoord

\* Mutant: the ledger is not asked.
MutantBirth(a, s) == IF seat[a].sid \in {Reserved, s} THEN seat[a].origin ELSE "joined"

\* birthForJoin: a placeholder's birth and the session's own are kept; a
\* session once recorded as fork-born stays one.
Birth(a, s) ==
    IF seat[a].sid \in {Reserved, s} /\ seat[a].origin # "joined" THEN seat[a].origin
    ELSE IF s \in ledger THEN "fork" ELSE "joined"

\* Another join of the session of p is under way.
Overlapped(p) == \E q \in Procs \ {p} : proc[q].st = "joining" /\ proc[q].sid = proc[p].sid

\* Join reads the birth, clears the channel of dead peers and looks whether the
\* session is on already, all before it has the lock ...
JoinLooks(p) ==
    LET s == proc[p].sid IN
    /\ proc[p].st = "running" /\ seat' = Pruned
    /\ IF \E b \in Aliases : Pruned[b].sid = s
       THEN proc' = [proc EXCEPT ![p].st = "joined"] /\ UNCHANGED blurred
       ELSE /\ proc' = [proc EXCEPT ![p].st = "joining", ![p].birth = Birth(proc[p].a, s)]
            /\ blurred' = IF Overlapped(p) THEN blurred \cup {s} ELSE blurred
    /\ Launching /\ UNCHANGED <<marker, coord, ledger, sids, late>>

\* ... and takes the name its prompt gives from anything that is not listening;
\* a name that is taken refuses it, to be tried again.
Join(p) ==
    LET a == proc[p].a
        s == proc[p].sid
        birth == proc[p].birth IN
    /\ proc[p].st = "joining"
    /\ IF Listening(a)
       THEN /\ proc' = [proc EXCEPT ![p].st = "running", ![p].birth = ""]
            /\ UNCHANGED <<seat, coord, ledger, blurred>>
       ELSE /\ seat' = [seat EXCEPT ![a] = [sid |-> s, origin |-> birth, listener |-> "never"]]
            /\ coord' = [coord EXCEPT ![a] = Settled(coord[a], s)]
            /\ ledger' = IF birth = "fork" THEN ledger \cup {s} ELSE ledger
            /\ blurred' = IF birth = "fresh" /\ s \in ledger THEN blurred \cup {s} ELSE blurred
            /\ proc' = [proc EXCEPT ![p].st = IF marker[a] = NoMarker THEN "joined" ELSE "arrived",
                                    ![p].birth = ""]
    /\ Launching /\ UNCHANGED <<marker, sids, late>>

\* Mutant: the lock is not taken.
MutantClear(p) ==
    LET a == proc[p].a
        clears == marker[a].sid = proc[p].sid IN
    /\ proc[p].st = "arrived"
    /\ proc' = [proc EXCEPT ![p].st = "joined"]
    /\ IF clears THEN marker' = [marker EXCEPT ![a] = NoMarker] /\ Unguarded(a)
       ELSE UNCHANGED <<marker, launch, late>>
    /\ UNCHANGED <<file, reclaim, left, seat, coord, ledger, blurred, sids>>

\* ClearLaunchIntentFor: the same session's marker only, and not when its lock
\* is held.  A second process on the way loses its guard with it.
Clear(p) ==
    LET a == proc[p].a
        clears == marker[a].sid = proc[p].sid /\ reclaim[a] = Nobody IN
    /\ proc[p].st = "arrived"
    /\ proc' = [proc EXCEPT ![p].st = "joined"]
    /\ IF clears THEN marker' = [marker EXCEPT ![a] = NoMarker] /\ Unguarded(a)
       ELSE UNCHANGED <<marker, launch, late>>
    /\ UNCHANGED <<file, reclaim, left, seat, coord, ledger, blurred, sids>>

Arm(p) ==
    /\ proc[p].st \in {"arrived", "joined"}
    /\ \E a \in Aliases : seat[a].sid = proc[p].sid /\ seat[a].listener # "alive"
                          /\ seat' = [seat EXCEPT ![a].listener = "alive"]
    /\ Launching /\ UNCHANGED <<marker, coord, proc, ledger, blurred, sids, late>>

\* A process ends, or its window never comes up; its listener goes with it
\* unless another process of the same session holds one.
Exit(p) ==
    /\ Use("exit") /\ proc[p].st \notin {"none", "dead"}
    /\ proc' = [proc EXCEPT ![p] = [NoProc EXCEPT !.st = "dead"]] /\ late' = late \ {p}
    /\ seat' = [a \in Aliases |-> IF Listening(a) /\ seat[a].sid = proc[p].sid
                                  THEN [seat[a] EXCEPT !.listener = "gone"] ELSE seat[a]]
    /\ UNCHANGED <<file, launch, reclaim, marker, coord, ledger, blurred, sids>>

\* A marker is three minutes old, a coordinator record a day.
Expire(a) ==
    /\ Use("expire")
    /\ \/ /\ marker[a].fresh
          /\ marker' = [marker EXCEPT ![a].fresh = FALSE] /\ Unguarded(a)
          /\ UNCHANGED coord
       \/ /\ coord[a].fresh
          /\ coord' = [coord EXCEPT ![a].fresh = FALSE] /\ UNCHANGED <<marker, launch, late>>
    /\ UNCHANGED <<file, reclaim, seat, proc, ledger, blurred, sids>>

\* A session renames its own registration over anything that is not listening:
\* its listener is of the old name, and the coordinator record comes along.
Renamed(r) == [r EXCEPT !.listener = IF @ = "never" THEN "never" ELSE "gone"]

Rename(a, b) ==
    /\ Use("rename") /\ a # b /\ seat[a].sid \in Sessions /\ ~Listening(b)
    /\ \E p \in Procs : proc[p].st # "opening" /\ proc[p].sid = seat[a].sid
    /\ seat' = [seat EXCEPT ![b] = Renamed(seat[a]), ![a] = NoSeat]
    /\ coord' = [coord EXCEPT ![b] = coord[a], ![a] = NoCoord]
    /\ UNCHANGED <<file, marker, reclaim, proc, launch, ledger, blurred, sids, late>>

(* ------------------------------------------------------------- the save -- *)

\* capturePeer: the session is refreshed, the birth only filled in.
Captured(p, r) ==
    [p EXCEPT !.sid = IF r.sid = Reserved THEN NoSid ELSE r.sid,
              !.origin = IF p.origin = "" THEN r.origin ELSE p.origin]

\* newPeerMode: a peer new to the file resumes if its birth allows it.
NewPeerMode(p) == IF p.sid # NoSid /\ p.origin \in {"fresh", "joined"} THEN "resume" ELSE "template"

Saved(a) ==
    LET p == Captured(file[a], seat[a]) IN
    IF seat[a] = NoSeat THEN file[a]
    ELSE IF file[a].mode = "none" THEN [p EXCEPT !.mode = NewPeerMode(p)] ELSE p

\* setHandModes: --mode refuses what apply would refuse.
HandMode(p, m) == p.mode # "none" /\ (m = "template" \/ p.origin \in {"fresh", "joined"})

\* A save captures the channel; a hand mode names one peer of the file.
Save ==
    /\ Use("save")
    /\ \/ file' = [a \in Aliases |-> Saved(a)]
       \/ \E a \in Aliases, m \in Modes :
             /\ HandMode(Saved(a), m)
             /\ file' = [[b \in Aliases |-> Saved(b)] EXCEPT ![a].mode = m]
    /\ UNCHANGED <<seat, marker, reclaim, coord, proc, launch, ledger, blurred, sids, late>>

Next ==
    \/ \E l \in Launchers :
          \/ \E m \in Modes \cup {"own"}, only \in SUBSET Aliases : Apply(l, m, only)
          \/ ResumeAnchor(l)
          \/ \E a \in Aliases : \/ \E how \in {"branch", "spawn"} : StartChild(l, a, how)
                                \/ ReserveAlias(l, a)
                                \/ RecordBootstrapCoordinator(l, a)
          \/ Link(l) \/ Taken(l) \/ Peek(l) \/ Swap(l)
          \/ RecordCoordinator(l) \/ Fork(l) \/ Undo(l) \/ Unreserve(l) \/ Killed(l)
    \/ \E p \in Procs : Boot(p) \/ JoinLooks(p) \/ Join(p) \/ Clear(p) \/ Arm(p) \/ Exit(p)
                        \/ \E a \in Aliases : StartByHand(p, a)
    \/ \E a \in Aliases : Expire(a) \/ \E b \in Aliases : Rename(a, b)
    \/ Save

Spec == Init /\ [][Next]_vars

(* ----------------------------------------------------------- properties -- *)

\* While a launched child is on its way to the bus and its marker guards it, no
\* second process is launched on its session under its name, whatever launchers
\* race, fail to lock, find corpses or are killed.
OneChildOnTheWay ==
    \A p, q \in Procs \ late :
       p # q /\ Coming(p) /\ Coming(q) /\ proc[p].how # "hand" /\ proc[q].how # "hand"
             /\ proc[p].a = proc[q].a
          => proc[p].sid = NoSid \/ proc[p].sid # proc[q].sid

\* Who coordinates the session at a.
CoordinatorOf(a) ==
    IF coord[a].sid # NoSid /\ coord[a].sid = seat[a].sid THEN coord[a].by ELSE Nobody

\* A launch that is reported as failed takes nothing from a child that has
\* answered it all the same: neither its registration nor, when the child was
\* no resume, the coordinator its record was bound to.
FailureTakesNothing ==
    [][\A l \in Launchers : LET a == launch[l].a IN
          launch[l].pc \in {"undo", "unreserve"} /\ launch'[l].pc # launch[l].pc /\ left' = left
             => /\ seat[a].sid \in Sessions => seat'[a] = seat[a]
                /\ Reserves(Mine(l).how) /\ CoordinatorOf(a) # Nobody => coord'[a] = coord[a]]_vars

\* A session once recorded as fork-born is never taken into a formation as one
\* to resume, under whatever name it left up, unless it answered the placeholder
\* of a fresh launch, whose birth a join keeps, or two of its joins overlapped,
\* one of which read the ledger before the other wrote it.
ForkIsNotTakenIn ==
    [][\A a \in Aliases : file[a].mode = "none" /\ file'[a].sid \in ledger \ blurred
          => file'[a].mode = "template"]_vars

\* "a child that has since answered owns what is there now": the record bound
\* to the session that holds the name outlives an undo.
AnsweredOwnsTheRecord ==
    [][\A l \in Launchers : LET a == launch[l].a IN
          launch[l].pc = "undo" /\ launch'[l].pc # "undo" /\ left' = left
             /\ CoordinatorOf(a) = l => coord'[a] = coord[a]]_vars
=============================================================================
