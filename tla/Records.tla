------------------------------ MODULE Records ------------------------------
(***************************************************************************)
(* The records a channel keeps beside its mail, and the commands and hooks *)
(* that read and write them without a common lock: the operator's grants,  *)
(* the coordinators' permits, the collapse state of denials, the mark of   *)
(* reported model fallbacks, the run claims and the ledger.                *)
(*                                                                         *)
(* A call is a process of its own.  What it does between two file          *)
(* operations that others can come between is an action; what it does      *)
(* under a peer lock is one action, except a join, which keeps the lock    *)
(* while it looks for its run.  A coordinator's record is given by the     *)
(* environment here (module Formation models the launches that write it).  *)
(***************************************************************************)
EXTENDS Naturals, FiniteSets, TLC

CONSTANTS
    Aliases,    \* the aliases of the channel
    Sessions,   \* the sessions that come and go
    Calls,      \* the processes that run a command or a hook
    Nobody,     \* no session, no alias
    MaxIds,     \* bound: grants, permits, runs
    MaxRows,    \* bound: fallbacks in a session's transcript
    Budgets     \* bound: how many commands and mishaps of each kind there are

\* The commands and mishaps.
Names == {"join", "leave", "rename", "dies", "arm", "assign", "grant", "use", "revoke", "expire",
          "permit", "ask", "deny", "age", "fall", "stop", "stuck", "killed"}

ASSUME RecordsAssumption ==
    /\ Nobody \notin Aliases \cup Sessions /\ Aliases \cap Sessions = {}
    /\ MaxIds \in Nat \ {0} /\ MaxRows \in Nat
    /\ Budgets \subseteq [Names -> Nat]

VARIABLES
    seat,     \* seat[a]: the registration of alias a
    coord,    \* coord[a]: the coordinator record of alias a
    run,      \* run[a]: the run alias a claims
    runs,     \* runs minted
    ledger,   \* the joins and leaves of the ledger
    grant,    \* grant[g]: a grant, its markers and its uses
    permit,   \* permit[p]: a permit, its marker and its uses
    denial,   \* denial[a]: the collapse state of alias a, for one kind of denial
    rows,     \* rows[s]: fallbacks in the transcript of session s
    mark,     \* mark[a]: how far alias a's transcript has been reported
    call,     \* call[c]: what call c is doing
    left,     \* the commands and mishaps that may still come
    ghost     \* what has happened, for the properties

vars == <<seat, coord, run, runs, ledger, grant, permit, denial, rows, mark, call, left, ghost>>

Ids      == 1 .. MaxIds
NoSeat   == [sid |-> Nobody, st |-> "free"]
NoCoord  == [by |-> Nobody, sid |-> Nobody]
NoMark   == [sid |-> Nobody, off |-> 0]
NoDenial == [sid |-> Nobody, st |-> "none"]
NoGrant  == [a |-> Nobody, sid |-> Nobody, once |-> TRUE, st |-> "none", revoked |-> FALSE,
             used |-> Nobody]
NoPermit == [by |-> Nobody, what |-> {}, st |-> "none", revoked |-> FALSE]
NoGhost  == [taken |-> {}, twice |-> FALSE, asked |-> {}, told |-> {}, cut |-> {},
             reported |-> {}, lost |-> {}, stirred |-> FALSE, apart |-> FALSE]
Idle     == [pc |-> "idle"]

JoinEvent(s, id) == [event |-> "join", sid |-> s, run |-> id]

\* Every alias has a session of its own, or the channel is empty.
Seatings == {f \in [Aliases -> Sessions] : \A a, b \in Aliases : a # b => f[a] # f[b]}

Init ==
    /\ \/ seat = [a \in Aliases |-> NoSeat] /\ ledger = {}
       \/ \E f \in Seatings :
             /\ seat = [a \in Aliases |-> [sid |-> f[a], st |-> "armed"]]
             /\ ledger = {JoinEvent(f[a], 0) : a \in Aliases}
    /\ coord = [a \in Aliases |-> NoCoord]
    /\ run = [a \in Aliases |-> 0] /\ runs = 0
    /\ grant = [g \in Ids |-> NoGrant] /\ permit = [p \in Ids |-> NoPermit]
    /\ denial = [a \in Aliases |-> NoDenial]
    /\ rows = [s \in Sessions |-> 0] /\ mark = [a \in Aliases |-> NoMark]
    /\ call = [c \in Calls |-> Idle] /\ left \in Budgets /\ ghost = NoGhost

\* A user gives a command, or a mishap strikes.
Spend(K) == (\A k \in K : left[k] > 0) /\ left' = [k \in DOMAIN left |->
                                                     IF k \in K THEN left[k] - 1 ELSE left[k]]
Becomes(c, f) == call' = [call EXCEPT ![c] = f]
Returns(c)    == Becomes(c, Idle)
Starts(c, k)  == call[c] = Idle /\ Spend({k})

\* A call meets a lock it cannot get or a file it cannot write.
Stuck == Spend({"stuck"})

Holds(s, a) == seat[a].sid = s /\ s # Nobody
Present(a)  == seat[a].st # "free"
Live(a)     == seat[a].st \in {"unarmed", "armed"}

\* A join keeps the peer lock until it has recorded its run, and reads the
\* roster up to three times, for three questions.
Looks   == {"resolve", "adopt", "minting"}
Joining == Looks \cup {"mint", "commit", "record"}
Locked(a) == \E c \in Calls : call[c].pc \in Joining /\ call[c].a = a

\* CoordinatorOf: the record speaks for the session it is bound to.
CoordinatorOf(a) ==
    IF coord[a].sid # Nobody /\ Holds(coord[a].sid, a) THEN coord[a].by ELSE Nobody
CoordinatesAnySeat(a) == \E b \in Aliases : coord[b].by = a

OnlySeats   == UNCHANGED <<rows, grant, permit, denial>>
OnlyRuns    == UNCHANGED <<seat, coord, grant, permit, denial, rows, mark>>
OnlyGrants  == UNCHANGED <<seat, coord, run, runs, ledger, permit, denial, rows, mark>>
OnlyPermits == UNCHANGED <<seat, coord, run, runs, ledger, grant, denial, rows, mark>>
OnlyDenials == UNCHANGED <<seat, coord, run, runs, ledger, grant, permit, rows, mark>>
OnlyMarks   == UNCHANGED <<seat, coord, run, runs, ledger, grant, permit, denial>>

(* ------------------------------------------- joining, leaving, and runs -- *)

\* The runs live peers claim, the joiner left out.
LiveRuns(skip) == {run[b] : b \in {x \in Aliases \ {skip} : Live(x)}} \ {0}

LeaveEvent(a) == [event |-> "leave", sid |-> seat[a].sid, run |-> run[a]]

\* A command writes its events after what it did, and stands also when a write
\* fails: the event is lost.
Logs(k, E) ==
    \/ Spend({k}) /\ ledger' = ledger \cup E
    \/ Spend({k, "stuck"}) /\ \E W \in SUBSET E : W # E /\ ledger' = ledger \cup W

\* Ghost: a peer is renamed, replaced, or goes while a joiner looks under the
\* mint lock.
Stirs == IF \E c \in Calls : call[c].pc = "minting" THEN [ghost EXCEPT !.stirred = TRUE] ELSE ghost

\* Join looks for live peers, then prunes the dead ones whose lock it gets; a
\* session that is still registered has nothing to do.
JoinBegins(c) ==
    LET dead == {b \in Aliases : seat[b].st = "dead" /\ ~Locked(b)} IN
    /\ call[c] = Idle /\ Logs("join", {LeaveEvent(b) : b \in dead})
    /\ \E s \in Sessions, a \in Aliases :
          /\ \A b \in Aliases \ dead : ~Holds(s, b)
          /\ Becomes(c, [pc |-> "claim", s |-> s, a |-> a, was |-> \E b \in Aliases : Live(b)])
    /\ seat' = [b \in Aliases |-> IF b \in dead THEN NoSeat ELSE seat[b]]
    /\ run' = [b \in Aliases |-> IF b \in dead THEN 0 ELSE run[b]]
    /\ UNCHANGED <<coord, runs, mark, ghost>> /\ OnlySeats

\* settleCoordinatorRecord: the record's own session keeps it, the launched
\* child binds it, anyone else inherits nothing.
Settled(a, s) ==
    CASE coord[a].sid = s -> coord[a]
      [] coord[a].by # Nobody /\ coord[a].sid = Nobody -> [coord[a] EXCEPT !.sid = s]
      [] OTHER -> NoCoord

\* What a joiner has listed, read and found.
Looking(c, for, listed, todo, at, ids) ==
    Becomes(c, [pc |-> for, s |-> call[c].s, a |-> call[c].a, was |-> for = "resolve" /\ call[c].was,
                listed |-> listed, todo |-> todo, at |-> at, ids |-> ids])

\* The name is claimed under its lock; only a live listener keeps it.  The
\* directory is made anew, and a run claimed in it is gone.
JoinClaims(c) ==
    LET a == call[c].a  s == call[c].s IN
    /\ call[c].pc = "claim" /\ ~Locked(a) /\ UNCHANGED <<left, runs, mark, ledger>> /\ OnlySeats
    /\ IF seat[a].st = "armed"
       THEN Returns(c) /\ UNCHANGED <<seat, coord, run, ghost>>
       ELSE /\ seat' = [seat EXCEPT ![a] = [sid |-> s, st |-> "unarmed"]]
            /\ coord' = [coord EXCEPT ![a] = Settled(a, s)]
            /\ run' = [run EXCEPT ![a] = 0] /\ ghost' = Stirs
            /\ Looking(c, "resolve", FALSE, {}, Nobody, {})

Recording(c, id) == Becomes(c, [pc |-> "record", s |-> call[c].s, a |-> call[c].a, run |-> id])
Committing(c, id, own) == Becomes(c, [pc |-> "commit", s |-> call[c].s, a |-> call[c].a,
                                      run |-> id, own |-> own])

\* liveRuns: a join lists the directory, its own name left out, and then reads
\* name after name, whether the peer is dead and what run it claims.  No lock
\* keeps a peer from coming, going or moving meanwhile.
Lists(c) ==
    /\ call[c].pc \in Looks /\ ~call[c].listed
    /\ Looking(c, call[c].pc, TRUE, {b \in Aliases \ {call[c].a} : Present(b)}, Nobody, {})
    /\ ghost' = IF call[c].pc = "minting" THEN [ghost EXCEPT !.stirred = FALSE] ELSE ghost
    /\ UNCHANGED <<run, runs, ledger, left>> /\ OnlyRuns

\* A peer whose record is not there is not dead.
LooksAt(c) ==
    /\ call[c].pc \in Looks /\ call[c].at = Nobody
    /\ \E b \in call[c].todo :
          Looking(c, call[c].pc, TRUE, call[c].todo \ {b},
                  IF seat[b].st = "dead" THEN Nobody ELSE b, call[c].ids)
    /\ UNCHANGED <<run, runs, ledger, left, ghost>> /\ OnlyRuns

ReadsClaim(c) ==
    /\ call[c].pc \in Looks /\ call[c].at # Nobody
    /\ Looking(c, call[c].pc, TRUE, call[c].todo, Nobody, call[c].ids \cup ({run[call[c].at]} \ {0}))
    /\ UNCHANGED <<run, runs, ledger, left, ghost>> /\ OnlyRuns

Looked(c, for) == call[c].pc = for /\ call[c].listed /\ call[c].todo = {} /\ call[c].at = Nobody

\* ResolveRunForJoin, before the lock: a split takes no side, ...
Resolve(c) ==
    /\ Looked(c, "resolve") /\ UNCHANGED <<run, runs, ledger, left, ghost>> /\ OnlyRuns
    /\ IF Cardinality(call[c].ids) > 1 THEN Recording(c, 0)
       ELSE IF call[c].was THEN Looking(c, "adopt", FALSE, {}, Nobody, {})
       ELSE Becomes(c, [pc |-> "mint", s |-> call[c].s, a |-> call[c].a])

\* ... and a joiner who came to a populated channel looks again and adopts the
\* one run its live peers claim.
Adopt(c) ==
    /\ Looked(c, "adopt") /\ UNCHANGED <<run, runs, ledger, left, ghost>> /\ OnlyRuns
    /\ IF Cardinality(call[c].ids) = 1 THEN \E id \in call[c].ids : Committing(c, id, FALSE)
       ELSE Becomes(c, [pc |-> "mint", s |-> call[c].s, a |-> call[c].a])

\* A claim that is being minted is written under the mint lock.
MintLocked == \E c \in Calls : call[c].pc = "minting" \/ (call[c].pc = "commit" /\ call[c].own)

AcquireMintLock(c) ==
    /\ call[c].pc = "mint" /\ UNCHANGED <<run, runs, ledger, ghost>> /\ OnlyRuns
    /\ \/ ~MintLocked /\ UNCHANGED left /\ Looking(c, "minting", FALSE, {}, Nobody, {})
       \/ Stuck /\ Recording(c, 0)

MutantMint(c) ==
    /\ call[c].pc = "minting" /\ UNCHANGED <<run, ledger, left, ghost>> /\ OnlyRuns
    /\ runs < MaxIds /\ runs' = runs + 1 /\ Committing(c, runs + 1, TRUE)

\* The last look, under the lock: a sibling may have opened or split the run.
\* Ghost: a stir may have hidden a run from it.
Mint(c) ==
    LET ids == call[c].ids IN
    /\ Looked(c, "minting") /\ UNCHANGED <<run, ledger, left>> /\ OnlyRuns
    /\ ghost' = [ghost EXCEPT !.apart = @ \/ (ghost.stirred /\ ~(LiveRuns(call[c].a) \subseteq ids))]
    /\ CASE Cardinality(ids) > 1 -> Recording(c, 0) /\ UNCHANGED runs
         [] Cardinality(ids) = 1 -> (\E id \in ids : Committing(c, id, TRUE)) /\ UNCHANGED runs
         [] OTHER -> runs < MaxIds /\ runs' = runs + 1 /\ Committing(c, runs + 1, TRUE)

\* commitOrBlank.  Ghost: an adopted run whose holders have gone meanwhile.
Commit(c) ==
    LET a == call[c].a  id == call[c].run IN
    /\ call[c].pc = "commit" /\ UNCHANGED <<runs, ledger>> /\ OnlyRuns
    /\ \/ /\ run' = [run EXCEPT ![a] = id] /\ Recording(c, id) /\ UNCHANGED left
          /\ ghost' = [ghost EXCEPT !.apart = @ \/ (~call[c].own /\ id \notin LiveRuns(a))]
       \/ Stuck /\ Recording(c, 0) /\ UNCHANGED <<run, ghost>>

\* RecordEventInRun: the event follows the mutation, and a join stands without
\* it.  Ghost: the event that could not be written.
RecordJoin(c) ==
    LET e == JoinEvent(call[c].s, call[c].run) IN
    /\ call[c].pc = "record" /\ Returns(c)
    /\ \/ ledger' = ledger \cup {e} /\ UNCHANGED <<left, ghost>>
       \/ Stuck /\ ghost' = [ghost EXCEPT !.lost = @ \cup {e}] /\ UNCHANGED ledger
    /\ UNCHANGED <<run, runs>> /\ OnlyRuns

\* Leave, Unregister, or a reaper for a dead peer: what the directory says of
\* the peer is read before the directory goes.
Leave(a) ==
    /\ Present(a) /\ ~Locked(a) /\ Logs("leave", {LeaveEvent(a)})
    /\ seat' = [seat EXCEPT ![a] = NoSeat] /\ run' = [run EXCEPT ![a] = 0]
    /\ ghost' = Stirs
    /\ UNCHANGED <<coord, runs, mark, call>> /\ OnlySeats

\* The directory moves with its claim, the coordinator record and the mark of
\* reported fallbacks after it; the listener has to arm again.
Rename(a, b) ==
    LET moved == [seat[a] EXCEPT !.st = IF @ = "armed" THEN "dead" ELSE @] IN
    /\ a # b /\ Present(a) /\ seat[b].st # "armed" /\ ~Locked(a) /\ ~Locked(b)
    /\ Spend({"rename"})
    /\ seat' = [seat EXCEPT ![a] = NoSeat, ![b] = moved]
    /\ run' = [run EXCEPT ![a] = 0, ![b] = run[a]]
    /\ coord' = [coord EXCEPT ![a] = NoCoord, ![b] = coord[a]]
    /\ mark' = [mark EXCEPT ![a] = NoMark, ![b] = mark[a]]
    /\ ghost' = Stirs
    /\ UNCHANGED <<runs, ledger, call>> /\ OnlySeats

\* A listener goes, or an unarmed peer outlives its grace.
Dies(a) ==
    /\ Live(a) /\ Spend({"dies"}) /\ seat' = [seat EXCEPT ![a].st = "dead"]
    /\ ghost' = Stirs
    /\ UNCHANGED <<coord, run, runs, ledger, mark, call>> /\ OnlySeats

\* Ghost: a peer that was taken for dead comes back with a run nobody has.
Arm(a) ==
    /\ seat[a].st \in {"unarmed", "dead"} /\ ~Locked(a) /\ Spend({"arm"})
    /\ seat' = [seat EXCEPT ![a].st = "armed"]
    /\ ghost' = [ghost EXCEPT !.apart = @ \/ (seat[a].st = "dead" /\ run[a] \notin LiveRuns(a))]
    /\ UNCHANGED <<coord, run, runs, ledger, mark, call>> /\ OnlySeats

\* A launch writes a record: bound to the session it resumes, or open.
Assign(a, b) ==
    /\ a # b /\ ~Locked(a) /\ Spend({"assign"})
    /\ \E s \in {seat[a].sid, Nobody} : coord' = [coord EXCEPT ![a] = [by |-> b, sid |-> s]]
    /\ UNCHANGED <<seat, run, runs, ledger, mark, call, ghost>> /\ OnlySeats

(* ---------------------------------------------------------------- grants -- *)

\* NewGrant: the grant names the session that holds the alias now.  The
\* operator then reads it at a terminal.
GrantAsks(c) ==
    /\ Starts(c, "grant") /\ UNCHANGED <<grant, ghost>> /\ OnlyGrants
    /\ \E a \in Aliases, once \in BOOLEAN :
          Live(a) /\ Becomes(c, [pc |-> "confirm", a |-> a, s |-> seat[a].sid, once |-> once])

Fresh(f) == {i \in Ids : f[i].st = "none" /\ \A j \in 1 .. i - 1 : f[j].st # "none"}

\* The operator types what was shown, or not.  A harness among the ancestors,
\* or an ancestry that cannot be read to the top, makes the grant suspect.
GrantConfirmed(c) ==
    /\ call[c].pc = "confirm" /\ Returns(c) /\ UNCHANGED <<left, ghost>> /\ OnlyGrants
    /\ \/ UNCHANGED grant
       \/ \E g \in Fresh(grant), suspect \in BOOLEAN :
             grant' = [grant EXCEPT ![g] = [NoGrant EXCEPT !.a = call[c].a, !.sid = call[c].s,
                            !.once = call[c].once, !.st = IF suspect THEN "suspect" ELSE "live"]]

GrantState(g) ==
    CASE grant[g].revoked -> "revoked"
      [] ~grant[g].revoked /\ grant[g].once /\ grant[g].used # Nobody -> "used"
      [] OTHER -> grant[g].st

\* UseGrant reads the grant of one of the session's own aliases.
UseGrant(c) ==
    /\ Starts(c, "use") /\ UNCHANGED <<grant, ghost>> /\ OnlyGrants
    /\ \E s \in Sessions, g \in Ids :
          /\ GrantState(g) = "live" /\ Holds(s, grant[g].a) /\ s = grant[g].sid
          /\ Becomes(c, [pc |-> "take", s |-> s, g |-> g])

Took(c) == [ghost EXCEPT !.taken = @ \cup {[g |-> call[c].g, s |-> call[c].s]},
                         !.twice = @ \/ (grant[call[c].g].once /\ grant[call[c].g].used # Nobody)]

MutantTakeGrant(c) ==
    LET g == call[c].g IN
    /\ call[c].pc = "take" /\ Returns(c) /\ UNCHANGED left /\ OnlyGrants
    /\ grant' = [grant EXCEPT ![g].used = call[c].s] /\ ghost' = Took(c)

\* A once grant is taken by whoever links its marker first; a use of the other
\* kind is one more line.
TakeGrant(c) ==
    LET g == call[c].g IN
    /\ call[c].pc = "take" /\ Returns(c) /\ UNCHANGED left /\ OnlyGrants
    /\ IF grant[g].once /\ grant[g].used # Nobody
       THEN UNCHANGED <<grant, ghost>>
       ELSE grant' = [grant EXCEPT ![g].used = call[c].s] /\ ghost' = Took(c)

RevokeGrant(g) ==
    /\ grant[g].st # "none" /\ ~grant[g].revoked /\ Spend({"revoke"})
    /\ grant' = [grant EXCEPT ![g].revoked = TRUE] /\ UNCHANGED <<call, ghost>> /\ OnlyGrants

GrantExpires(g) ==
    /\ grant[g].st = "live" /\ Spend({"expire"})
    /\ grant' = [grant EXCEPT ![g].st = "expired"] /\ UNCHANGED <<call, ghost>> /\ OnlyGrants

(* --------------------------------------------------------------- permits -- *)

Branches      == {"main", "topic"}
RefActions    == {"push"}
TargetActions == {"merge"}
Actions       == RefActions \cup TargetActions \cup {"effort"}

\* A branch name covers itself, a pattern several branches.
NoRef == [covers |-> {}, exact |-> TRUE]
Refs  == {NoRef, [covers |-> {"main"}, exact |-> TRUE], [covers |-> {"topic"}, exact |-> FALSE],
          [covers |-> Branches, exact |-> FALSE]}

\* Remote URLs as git reports them, and the repositories they name.
Remotes == {"ssh", "https", "other", "path"}
NormalizeRepo == [r \in Remotes |-> CASE r \in {"ssh", "https"} -> "here"
                                      [] r = "other" -> "there"
                                      [] r = "path" -> ""]

CheckRefPattern(r) == r.exact \/ "main" \notin r.covers

\* One merge, release or install with its target; an effort by itself; or
\* pushes with a ref that reaches no default branch by a wildcard.
FillPermitScope(r) ==
    /\ r.actions # {}
    /\ IF r.actions \cap TargetActions # {}
       THEN Cardinality(r.actions) = 1 /\ r.ref = NoRef /\ ~r.effort /\ r.target # ""
       ELSE IF "effort" \in r.actions
       THEN r.actions = {"effort"} /\ r.ref = NoRef /\ r.target = "" /\ r.effort
       ELSE r.target = "" /\ ~r.effort /\ r.ref # NoRef /\ CheckRefPattern(r.ref)

Requests == [actions : SUBSET Actions, ref : Refs, target : {"", "v1"}, effort : BOOLEAN,
             remote : {"ssh", "path"}]
Grantable == {r \in Requests : FillPermitScope(r) /\ NormalizeRepo[r.remote] # ""}

\* A use names one action with a branch or a target.
Asks == {u \in [action : RefActions \cup TargetActions, branch : Branches,
                target : {"", "v1", "v2"}, remote : {"https", "other"}] :
            u.action \in TargetActions => u.target # ""}

\* NewPermit: written by a seat some coordinator record names.
NewPermit(c) ==
    /\ Starts(c, "permit") /\ UNCHANGED <<permit, ghost>> /\ OnlyPermits
    /\ \E a \in Aliases, what \in Grantable :
          /\ Present(a) /\ CoordinatesAnySeat(a)
          /\ Becomes(c, [pc |-> "file", by |-> a, what |-> what])

WritePermit(c) ==
    /\ call[c].pc = "file" /\ Returns(c) /\ UNCHANGED <<left, ghost>> /\ OnlyPermits
    /\ \E p \in Fresh(permit) :
          permit' = [permit EXCEPT ![p] = [by |-> call[c].by, what |-> call[c].what,
                                           st |-> "live", revoked |-> FALSE]]

PermitState(p) == IF permit[p].revoked THEN "revoked" ELSE permit[p].st

\* permitRefusal finds nothing against the use.
Covers(p, by, u) ==
    /\ PermitState(p) = "live" /\ permit[p].by = by
    /\ LET w == permit[p].what IN
       /\ u.action \in w.actions
       /\ NormalizeRepo[w.remote] = NormalizeRepo[u.remote]
       /\ IF w.target # "" THEN w.target = u.target ELSE u.branch \in w.ref.covers

\* UsePermit: the newest permit of the seat's recorded coordinator that covers
\* the use.
UsePermit(c) ==
    /\ Starts(c, "ask") /\ UNCHANGED <<permit, ghost>> /\ OnlyPermits
    /\ \E a \in Aliases, u \in Asks, p \in Ids :
          /\ Present(a) /\ CoordinatorOf(a) # Nobody /\ Covers(p, CoordinatorOf(a), u)
          /\ \A q \in p + 1 .. MaxIds : ~Covers(q, CoordinatorOf(a), u)
          /\ Becomes(c, [pc |-> "count", p |-> p, by |-> CoordinatorOf(a), u |-> u])

\* A use that cannot be recorded is not covered.
CountUse(c) ==
    /\ call[c].pc = "count" /\ Returns(c) /\ UNCHANGED permit /\ OnlyPermits
    /\ \/ Stuck /\ UNCHANGED ghost
       \/ UNCHANGED left /\ ghost' = [ghost EXCEPT !.asked = @ \cup
             {[p |-> call[c].p, by |-> call[c].by, u |-> call[c].u]}]

RevokePermit(p) ==
    /\ permit[p].st # "none" /\ ~permit[p].revoked /\ Spend({"revoke"})
    /\ permit' = [permit EXCEPT ![p].revoked = TRUE] /\ UNCHANGED <<call, ghost>> /\ OnlyPermits

PermitExpires(p) ==
    /\ permit[p].st = "live" /\ Spend({"expire"})
    /\ permit' = [permit EXCEPT ![p].st = "expired"] /\ UNCHANGED <<call, ghost>> /\ OnlyPermits

(* --------------------------------------------------------------- denials -- *)

Telling(c, a, s) == Becomes(c, [pc |-> "tell", a |-> a, s |-> s, to |-> CoordinatorOf(a)])

\* claimDenied: a denial inside the window is counted, another one opens the
\* window and is told.  The state of an earlier holder of the alias is dropped.
\* When the claim fails, the denial is told all the same.
ClaimDenied(c) ==
    /\ call[c] = Idle /\ OnlyDenials
    /\ \E a \in Aliases :
          LET s == seat[a].sid IN
          /\ Present(a) /\ CoordinatorOf(a) # Nobody
          /\ \/ /\ Spend({"deny", "stuck"}) /\ Telling(c, a, s) /\ UNCHANGED <<denial, ghost>>
             \/ /\ Spend({"deny"}) /\ ~Locked(a)
                /\ IF denial[a] = [sid |-> s, st |-> "fresh"]
                   THEN UNCHANGED <<denial, call, ghost>>
                   ELSE /\ denial' = [denial EXCEPT ![a] = [sid |-> s, st |-> "fresh"]]
                        /\ Telling(c, a, s)
                        /\ ghost' = [ghost EXCEPT !.told = @ \ {<<a, s>>}, !.cut = @ \ {a}]

MutantTellDenied(c) ==
    /\ call[c].pc = "tell" /\ UNCHANGED denial /\ OnlyDenials /\ Returns(c)
    /\ \/ ~Present(call[c].to) /\ UNCHANGED <<left, ghost>>
       \/ Stuck /\ UNCHANGED ghost
       \/ /\ Present(call[c].to) /\ UNCHANGED left
          /\ ghost' = [ghost EXCEPT !.told = @ \cup {<<call[c].a, call[c].s>>}]

\* deliverNotice appends to the coordinator's inbox, if it is registered and
\* its lock is to be had; otherwise the claim has to be released.
TellDenied(c) ==
    /\ call[c].pc = "tell" /\ UNCHANGED denial /\ OnlyDenials
    /\ \/ /\ \/ ~Present(call[c].to) /\ UNCHANGED left
             \/ Stuck
          /\ Becomes(c, [pc |-> "release", a |-> call[c].a, s |-> call[c].s]) /\ UNCHANGED ghost
       \/ /\ Present(call[c].to) /\ ~Locked(call[c].to) /\ Returns(c) /\ UNCHANGED left
          /\ ghost' = [ghost EXCEPT !.told = @ \cup {<<call[c].a, call[c].s>>}]

\* releaseDenied drops the entry whoever it is of.  Ghost: a release that gets
\* no lock leaves the entry behind.
ReleaseDenied(c) ==
    LET a == call[c].a IN
    /\ call[c].pc = "release" /\ Returns(c) /\ OnlyDenials
    /\ \/ /\ ~Locked(a) /\ denial' = [denial EXCEPT ![a] = NoDenial] /\ UNCHANGED <<left, ghost>>
       \/ Stuck /\ ghost' = [ghost EXCEPT !.cut = @ \cup {a}] /\ UNCHANGED denial

WindowPasses(a) ==
    /\ denial[a].st = "fresh" /\ Spend({"age"})
    /\ denial' = [denial EXCEPT ![a] = NoDenial] /\ UNCHANGED <<call, ghost>> /\ OnlyDenials

(* ------------------------------------------------------------- fallbacks -- *)

\* The harness falls back to another model and notes it in the transcript.
Fall(s) ==
    /\ rows[s] < MaxRows /\ Spend({"fall"}) /\ rows' = [rows EXCEPT ![s] = @ + 1]
    /\ UNCHANGED <<call, mark, ghost>> /\ OnlyMarks

RegressionRecipient(a) ==
    IF CoordinatorOf(a) # Nobody THEN CoordinatorOf(a)
    ELSE IF CoordinatesAnySeat(a) THEN a ELSE Nobody

\* HookRegressed at the end of a turn: the mark of this session, or zero, and
\* the transcript behind it.
Stop(c) ==
    /\ Starts(c, "stop") /\ UNCHANGED <<rows, mark, ghost>> /\ OnlyMarks
    /\ \E a \in Aliases :
          LET s == seat[a].sid
              from == IF mark[a].sid = s THEN mark[a].off ELSE 0 IN
          /\ Present(a) /\ RegressionRecipient(a) # Nobody /\ rows[s] > from
          /\ Becomes(c, [pc |-> "report", a |-> a, s |-> s, to |-> RegressionRecipient(a),
                         from |-> from, next |-> from, end |-> rows[s]])

Reached(c, n, last) ==
    Becomes(c, [call[c] EXCEPT !.next = n, !.pc = IF last \/ n = call[c].end THEN "mark" ELSE @])

\* One fallback is told, or the reporting ends before it.
Report(c) ==
    /\ call[c].pc = "report" /\ UNCHANGED <<rows, mark>> /\ OnlyMarks
    /\ \/ /\ \/ ~Present(call[c].to) /\ UNCHANGED left
             \/ Stuck
          /\ Reached(c, call[c].next, TRUE) /\ UNCHANGED ghost
       \/ /\ Present(call[c].to) /\ ~Locked(call[c].to) /\ UNCHANGED left
          /\ Reached(c, call[c].next + 1, FALSE)
          /\ ghost' = [ghost EXCEPT !.reported = @ \cup {<<call[c].s, call[c].next + 1>>}]

\* The mark is written under a lock that is not waited for.
WriteMark(c) ==
    LET a == call[c].a IN
    /\ call[c].pc = "mark" /\ Returns(c) /\ UNCHANGED <<rows, ghost>> /\ OnlyMarks
    /\ \/ UNCHANGED <<left, mark>> /\ (call[c].next = call[c].from \/ Locked(a))
       \/ /\ call[c].next # call[c].from /\ ~Locked(a) /\ UNCHANGED left
          /\ mark' = [mark EXCEPT ![a] = [sid |-> call[c].s, off |-> call[c].next]]

\* A process ends where it is; the kernel lets go of its locks.  Ghost: a
\* denial's entry left behind, and the event of a join that is never written.
Killed(c) ==
    /\ call[c] # Idle /\ Spend({"killed"}) /\ Returns(c)
    /\ ghost' = CASE call[c].pc \in {"tell", "release"} -> [ghost EXCEPT !.cut = @ \cup {call[c].a}]
                  [] call[c].pc \in Joining ->
                        [ghost EXCEPT !.lost = @ \cup {JoinEvent(call[c].s, run[call[c].a])}]
                  [] OTHER -> ghost
    /\ UNCHANGED <<run, runs, ledger>> /\ OnlyRuns

Next ==
    \/ \E c \in Calls :
          \/ JoinBegins(c) \/ JoinClaims(c) \/ Lists(c) \/ LooksAt(c) \/ ReadsClaim(c)
          \/ Resolve(c) \/ Adopt(c) \/ AcquireMintLock(c) \/ Mint(c)
          \/ Commit(c) \/ RecordJoin(c)
          \/ GrantAsks(c) \/ GrantConfirmed(c) \/ UseGrant(c) \/ TakeGrant(c)
          \/ NewPermit(c) \/ WritePermit(c) \/ UsePermit(c) \/ CountUse(c)
          \/ ClaimDenied(c) \/ TellDenied(c) \/ ReleaseDenied(c)
          \/ Stop(c) \/ Report(c) \/ WriteMark(c) \/ Killed(c)
    \/ \E a \in Aliases : Leave(a) \/ Dies(a) \/ Arm(a) \/ WindowPasses(a)
    \/ \E a, b \in Aliases : Rename(a, b) \/ Assign(a, b)
    \/ \E i \in Ids : RevokeGrant(i) \/ GrantExpires(i) \/ RevokePermit(i) \/ PermitExpires(i)
    \/ \E s \in Sessions : Fall(s)

Spec == Init /\ [][Next]_vars

(* ------------------------------------------------------------ properties -- *)

Grants ==
    [a : Aliases \cup {Nobody}, sid : Sessions \cup {Nobody}, once : BOOLEAN,
     st : {"none", "live", "suspect", "expired"}, revoked : BOOLEAN,
     used : Sessions \cup {Nobody}]
Permits == {NoPermit} \cup
    [by : Aliases, what : Grantable, st : {"live", "expired"}, revoked : BOOLEAN]
Events  == [event : {"join", "leave"}, sid : Sessions, run : 0 .. MaxIds]
Uses    == [p : Ids, by : Aliases, u : Asks]
Ghosts ==
    [taken : SUBSET [g : Ids, s : Sessions], twice : BOOLEAN, asked : SUBSET Uses,
     told : SUBSET (Aliases \X Sessions), cut : SUBSET Aliases,
     reported : SUBSET (Sessions \X Nat), lost : SUBSET Events, stirred : BOOLEAN,
     apart : BOOLEAN]

\* The fields a call has where it stands.
Seating == Joining \cup {"claim"}
Pcs == Seating \cup {"idle", "confirm", "take", "file", "count", "tell", "release", "report", "mark"}
CallFine(k) ==
    /\ k.pc \in Pcs
    /\ k.pc \in Seating \cup {"confirm", "tell", "release", "report", "mark"}
          => k.a \in Aliases /\ k.s \in Sessions
    /\ k.pc = "claim" => k.was \in BOOLEAN
    /\ k.pc \in Looks =>
          /\ k.was \in BOOLEAN /\ k.listed \in BOOLEAN /\ k.todo \subseteq Aliases \ {k.a}
          /\ k.at \in (Aliases \ {k.a}) \cup {Nobody} /\ k.ids \subseteq Ids
          /\ ~k.listed => k.todo = {} /\ k.at = Nobody /\ k.ids = {}
    /\ k.pc = "commit" => k.run \in Ids /\ k.own \in BOOLEAN
    /\ k.pc = "record" => k.run \in 0 .. MaxIds
    /\ k.pc = "confirm" => k.once \in BOOLEAN
    /\ k.pc = "take" => k.g \in Ids /\ k.s \in Sessions
    /\ k.pc = "file" => k.by \in Aliases /\ k.what \in Grantable
    /\ k.pc = "count" => k.p \in Ids /\ k.by \in Aliases /\ k.u \in Asks
    /\ k.pc \in {"tell", "report"} => k.to \in Aliases
    /\ k.pc \in {"report", "mark"} =>
          /\ k.from \in Nat /\ k.next \in Nat /\ k.end \in 0 .. MaxRows
          /\ k.from <= k.next /\ k.next <= k.end
          /\ {"pc", "a", "s", "to", "from", "next", "end"} \subseteq DOMAIN k
    /\ k.pc = "report" => k.next < k.end

TypeOK ==
    /\ seat \in [Aliases -> [sid : Sessions \cup {Nobody}, st : {"free", "unarmed", "armed", "dead"}]]
    /\ coord \in [Aliases -> [by : Aliases \cup {Nobody}, sid : Sessions \cup {Nobody}]]
    /\ run \in [Aliases -> 0 .. MaxIds] /\ runs \in 0 .. MaxIds
    /\ ledger \subseteq Events
    /\ grant \in [Ids -> Grants] /\ permit \in [Ids -> Permits]
    /\ denial \in [Aliases -> [sid : Sessions \cup {Nobody}, st : {"none", "fresh"}]]
    /\ rows \in [Sessions -> 0 .. MaxRows]
    /\ mark \in [Aliases -> [sid : Sessions \cup {Nobody}, off : 0 .. MaxRows]]
    /\ DOMAIN call = Calls /\ \A c \in Calls : CallFine(call[c])
    /\ left \in [Names -> Nat] /\ ghost \in Ghosts

\* An operator's grant is used only by the session it was shown for, however
\* often the alias changed hands since, and a once grant by one use of it.
GrantIsItsSessions ==
    /\ ~ghost.twice
    /\ \A t \in ghost.taken : t.s = grant[t.g].sid /\ grant[t.g].st # "suspect"

\* What a permit was used for is what the operator's words allowed: the same
\* repository, a named target, or a branch; a default branch only by its name;
\* and the seat's own coordinator wrote it.
UseIsWithinItsWords ==
    \A x \in ghost.asked :
        LET w == permit[x.p].what IN
        /\ permit[x.p].by = x.by /\ NormalizeRepo[w.remote] = NormalizeRepo[x.u.remote]
        /\ x.u.action \in TargetActions => w.actions = {x.u.action} /\ w.target = x.u.target
        /\ x.u.action \in RefActions =>
              /\ x.u.branch \in w.ref.covers
              /\ x.u.branch = "main" => w.ref.covers = {"main"}

\* No use of a grant or a permit goes beyond what its giver meant, whoever has
\* the alias and whichever two uses race.
UseIsGranted == GrantIsItsSessions /\ UseIsWithinItsWords

\* What is no longer told was told, whatever was sent, renamed or cut short
\* between the reading and the recording.  While a denial silences the ones
\* like it, it was told, or is being told by its hook, unless that hook was cut
\* short.
DenialWasTold ==
    \A a \in Aliases : denial[a].st = "fresh" =>
        \/ <<a, denial[a].sid>> \in ghost.told \/ a \in ghost.cut
        \/ \E c \in Calls : call[c].pc \in {"tell", "release"} /\ call[c].a = a
                            /\ call[c].s = denial[a].sid

\* A fallback the mark has passed was told.
FallbackWasTold ==
    \A a \in Aliases : \A i \in 1 .. mark[a].off : <<mark[a].sid, i>> \in ghost.reported

SilencedWasTold == DenialWasTold /\ FallbackWasTold

\* Live peers are of one run, and joins alone never split them: unless a peer
\* adopted a run whose holders went away before its claim was written, or one
\* taken for dead came back, or a peer renamed, replaced or gone during the look
\* under the mint lock hid its run from it.
OneRun == Cardinality(LiveRuns(Nobody)) > 1 => ghost.apart

\* The ledger closes what it opened: a peer leaves the run it joined, unless
\* the event of just that join could not be written, or was not yet when the
\* process was killed.
LeaveNamesItsRun ==
    \A e \in ledger :
        e.event = "leave" => [e EXCEPT !.event = "join"] \in ledger \cup ghost.lost

\* A run is one thing to those who live in it and to those who read of it
\* later, however joins race with each other and writes fail or stop.
RunsHoldTogether == OneRun /\ LeaveNamesItsRun

=============================================================================
