----------------------------- MODULE Scheduler -----------------------------
(***************************************************************************)
(* The work scheduler of the cbus daemon: one loop goroutine that starts   *)
(* operations on connections, at most one per connection (its lane, a      *)
(* 1-slot semaphore) and at most |Slots| in all; the ready set and the     *)
(* follow-up timers that ask for a visit; the sweep over every connection; *)
(* the control verbs, which take the lane but no slot; the inbox writers,  *)
(* which wake the daemon; registration, collection and shutdown.           *)
(*                                                                         *)
(* A step is one critical section of d.mu, or one channel operation.  The  *)
(* kick is a channel of capacity one that is never waited on, so a kick    *)
(* sent too early, or a mark put back too late, would leave a connection   *)
(* ready with nobody left to start it.                                     *)
(***************************************************************************)
EXTENDS Naturals, FiniteSets

CONSTANTS
    Conns,         \* connection IDs, in the order sort.Strings gives them
    Slots,         \* daemonMaxOperations
    MaxArrivals,   \* bound on inbox lines, unless they are Endless
    MaxUnread,     \* bound on one connection's unread lines
    MaxControls,   \* bound on control verbs
    MaxFollowUps,  \* receipt lookups before a Claude attempt's deadline
    Endless,       \* lines keep coming: MaxArrivals does not apply
    Tickers        \* whether the ticker runs: FALSE, TRUE or both

ASSUME ConstantsAssumption ==
    /\ Conns \subseteq Nat
    /\ IsFiniteSet(Conns) /\ IsFiniteSet(Slots)
    /\ MaxArrivals \in Nat /\ MaxUnread \in Nat /\ MaxControls \in Nat
    /\ MaxFollowUps \in Nat
    /\ Endless \in BOOLEAN /\ Tickers \subseteq BOOLEAN

VARIABLES
    live,      \* d.connections and d.snapshots: the registered connections
    born,      \* IDs a connect has drawn: an ID is never drawn twice
    detached,  \* connections whose record is detached
    ticker,    \* the ticker of scheduleLoop runs
    lane,      \* lane[c]: "free", or who holds it: "op", "control"
    ready,     \* d.ready
    due,       \* due[c]: no follow-up visit, one to come, or one that is due
    retry,     \* connections whose d.nextTry is in the future
    kick,      \* d.kick holds a token
    passLeft,  \* d.passLeft: connections the running pass has yet to visit
    rotation,  \* d.rotation: where the pass goes on
    at,        \* the loop: "select", "drive", "ready", "begin", "again",
               \* "full", "sweep", or "stopped"
    todo,      \* dispatchReady's ids not handled yet; the first is worked on
    ids,       \* continueSchedule's ids
    dropping,  \* the slot, if any, of the visit the loop itself is finishing
    op,        \* op[s]: the operation in slot s, Free or [stage, conn, result]
    kicking,   \* slots whose last operation has its kick still to send
    control,   \* control[c]: "none", "wait", "hold", "lane", "kick"
    writer,    \* writer[c]: "none", "mark", "kick": an inbox writer's wake
    unread,    \* unread[c]: lines in the inbox past the cursor
    awaiting,  \* awaiting[c]: a submitted line's lookups so far, 0 for none
    arrived, controls,  \* counters for the bounds
    phase      \* "running", "closing", "exited", "forced"

connVars  == <<live, born, detached, ticker>>
passVars  == <<passLeft, rotation>>
listVars  == <<todo, ids, dropping>>
loopVars  == <<passVars, at, listVars>>
opVars    == <<op, kicking>>
verbVars  == <<control, controls>>
inboxVars == <<writer, unread, awaiting, arrived>>
others    == <<connVars, retry, verbVars, inboxVars, phase>>
schedulerVars == <<connVars, lane, ready, due, retry, kick, loopVars, opVars, verbVars,
                   inboxVars, phase>>

Results == {"quiet", "accepted", "parked", "waiting", "failed"}
Stages  == {"run", "after", "lane", "slot"}  \* "lane", "slot": to be released
Free    == [stage |-> "free"]
Ops     == {Free} \cup [stage : Stages, conn : Conns, result : Results]

-----------------------------------------------------------------------------
(* Inbox writers: append, then WakeDaemon: mark, then kickLoop. *)

\* A line arrives; its writer may die, or fail to reach the daemon, before
\* the wake.
Arrive(c) ==
    /\ c \in live
    /\ unread[c] < MaxUnread
    /\ writer[c] = "none"  \* bound: one writer at a time per connection
    /\ Endless \/ arrived < MaxArrivals
    /\ unread' = [unread EXCEPT ![c] = @ + 1]
    /\ arrived' = IF Endless THEN arrived ELSE arrived + 1
    /\ \/ writer' = [writer EXCEPT ![c] = "mark"]
       \/ UNCHANGED writer
    /\ UNCHANGED <<connVars, lane, ready, due, retry, kick, loopVars, opVars, verbVars,
                   awaiting, phase>>

\* wake: unknown IDs are ignored, the kick is sent all the same.
WakeMark(c) ==
    /\ writer[c] = "mark"
    /\ ready' = IF c \in live THEN ready \cup {c} ELSE ready
    /\ writer' = [writer EXCEPT ![c] = "kick"]
    /\ UNCHANGED <<connVars, lane, due, retry, kick, loopVars, opVars, verbVars, unread,
                   awaiting, arrived, phase>>

WakeKick(c) ==
    /\ writer[c] = "kick"
    /\ kick' = TRUE
    /\ writer' = [writer EXCEPT ![c] = "none"]
    /\ UNCHANGED <<connVars, lane, ready, due, retry, loopVars, opVars, verbVars, unread,
                   awaiting, arrived, phase>>

-----------------------------------------------------------------------------
(* The clock. *)

FollowUpComesDue(c) ==
    /\ due[c] = "later"
    /\ due' = [due EXCEPT ![c] = "now"]
    /\ UNCHANGED <<others, lane, ready, kick, loopVars, opVars>>

RetryElapses(c) ==
    /\ c \in retry
    /\ retry' = retry \ {c}
    /\ UNCHANGED <<connVars, lane, ready, due, kick, loopVars, opVars, verbVars,
                   inboxVars, phase>>

-----------------------------------------------------------------------------
(* The loop goroutine: scheduleLoop, dispatchReady, launch, continueSchedule. *)

\* The tick: a new pass over every connection.
Tick ==
    /\ at = "select" /\ ticker
    /\ passLeft' = Cardinality(live)
    /\ at' = "drive"
    /\ UNCHANGED <<others, lane, ready, due, kick, rotation, listVars, opVars>>

TakeKick ==
    /\ at = "select" /\ kick
    /\ kick' = FALSE
    /\ at' = "drive"
    /\ UNCHANGED <<others, lane, ready, due, passVars, listVars, opVars>>

DueTimer ==
    /\ at = "select"
    /\ \E c \in Conns : due[c] = "now"
    /\ at' = "drive"
    /\ UNCHANGED <<others, lane, ready, due, kick, passVars, listVars, opVars>>

\* dispatchReady begins: what is due becomes ready, and the set is copied.
DispatchReady ==
    LET ripe == {c \in Conns : due[c] = "now"} IN
    /\ at = "drive"
    /\ ready' = ready \cup ripe
    /\ due' = [c \in Conns |-> IF c \in ripe THEN "none" ELSE due[c]]
    /\ todo' = ready'
    /\ at' = "ready"
    /\ UNCHANGED <<others, lane, kick, passVars, ids, dropping, opVars>>

\* The ids are sorted: the loop works on the first one not handled yet.
First(c) == c \in todo /\ \A x \in todo : c <= x

\* The next id leaves the ready set before its lane is tried.
TakeReady ==
    /\ at = "ready" /\ dropping = {} /\ todo # {}
    /\ \E c \in Conns : First(c) /\ ready' = ready \ {c}
    /\ at' = "begin"
    /\ UNCHANGED <<others, lane, due, kick, passVars, listVars, opVars>>

SlotsFull == \A s \in Slots : op[s] # Free

\* launch drops a visit to a connection that is gone, detached or backing off.
Dropped(c) == c \notin live \/ c \in detached \/ c \in retry

\* beginOperation and launch: lane and slot are taken, both or neither; a visit
\* that launch drops the loop finishes itself before it goes on.
Begin(c, s) ==
    /\ lane[c] = "free" /\ op[s] = Free
    /\ lane' = [lane EXCEPT ![c] = "op"]
    /\ op' = [op EXCEPT ![s] = [stage |-> IF Dropped(c) THEN "lane" ELSE "run",
                                conn |-> c, result |-> "quiet"]]
    /\ dropping' = IF Dropped(c) THEN {s} ELSE {}
    /\ UNCHANGED kicking

BeginReady ==
    /\ at = "begin"
    /\ \E c \in Conns, s \in Slots :
        First(c) /\ Begin(c, s) /\ todo' = todo \ {c}
    /\ at' = "ready"
    /\ UNCHANGED <<others, ready, due, kick, passVars, ids>>

BeginRefused ==
    /\ at = "begin"
    /\ \E c \in Conns :
        /\ First(c)
        /\ \/ lane[c] # "free" /\ at' = "again"
           \/ lane[c] = "free" /\ SlotsFull /\ at' = "full"
    /\ UNCHANGED <<others, lane, ready, due, kick, passVars, listVars, opVars>>

\* Mutant: the mark of a connection whose lane was busy is not put back.
MutantBusyForgotten ==
    /\ at \in {"again", "full"}
    /\ \E c \in Conns :
        /\ First(c)
        /\ ready' = IF at = "full" THEN ready \cup {c} ELSE ready
        /\ todo' = IF at = "full" THEN {} ELSE todo \ {c}
    /\ at' = IF at = "full" THEN "select" ELSE "ready"
    /\ UNCHANGED <<others, lane, due, kick, passVars, ids, dropping, opVars>>

\* The mark is put back: after full slots the loop waits for a kick, after a
\* busy lane it goes on with the next id.
PutBack ==
    /\ at \in {"again", "full"}
    /\ \E c \in Conns :
        /\ First(c)
        /\ ready' = ready \cup {c}
        /\ todo' = IF at = "full" THEN {} ELSE todo \ {c}
    /\ at' = IF at = "full" THEN "select" ELSE "ready"
    /\ UNCHANGED <<others, lane, due, kick, passVars, ids, dropping, opVars>>

\* All ready ids are handled and slots may remain: continueSchedule begins.
StartSweep ==
    /\ at = "ready" /\ dropping = {} /\ todo = {}
    /\ ids' = live
    /\ at' = "sweep"
    /\ UNCHANGED <<others, lane, ready, due, kick, passVars, todo, dropping, opVars>>

Least(a, b) == IF a < b THEN a ELSE b
Left        == Least(passLeft, Cardinality(ids))

\* ids[rotation % len(ids)], the ids being sorted.
Target(c) == Cardinality({x \in ids : x < c}) = rotation % Cardinality(ids)

\* Mutant: a pass starts over at the first connection.
MutantNoRotation == UNCHANGED rotation /\ passLeft' = Left - 1

Advance == rotation' = (rotation + 1) % Cardinality(ids) /\ passLeft' = Left - 1

\* One connection of the pass: started, or skipped when its lane is busy.
SweepVisit ==
    /\ at = "sweep" /\ dropping = {} /\ Left > 0
    /\ \E c \in ids :
        /\ Target(c)
        /\ \/ \E s \in Slots : Begin(c, s)
           \/ lane[c] # "free" /\ UNCHANGED <<lane, dropping, opVars>>
    /\ Advance
    /\ UNCHANGED <<others, ready, due, kick, at, todo, ids>>

\* The pass is over, or it stops in place because the slots are full.
SweepEnds ==
    /\ at = "sweep" /\ dropping = {}
    /\ Left > 0 => \E c \in ids : Target(c) /\ lane[c] = "free" /\ SlotsFull
    /\ passLeft' = Left
    /\ ids' = {}
    /\ at' = "select"
    /\ UNCHANGED <<others, lane, ready, due, kick, rotation, todo, dropping, opVars>>

\* finish of the dropped visit has run; the loop goes on.
DropDone ==
    /\ dropping # {}
    /\ \A s \in dropping : op[s] = Free /\ s \notin kicking
    /\ dropping' = {}
    /\ UNCHANGED <<others, lane, ready, due, kick, passVars, at, todo, ids, opVars>>

-----------------------------------------------------------------------------
(* An operation's goroutine: runScheduled, followUp, scheduledFailure, finish. *)

Running(s)     == op[s].stage = "run"
Finished(s, r) == op' = [op EXCEPT ![s].stage = "after", ![s].result = r]

\* scheduledOperation found the registration gone.
OpDetaches(s) ==
    /\ Running(s)
    /\ detached' = detached \cup {op[s].conn}
    /\ Finished(s, "quiet")
    /\ UNCHANGED <<live, born, ticker, lane, ready, due, retry, kick, loopVars, kicking,
                   verbVars, inboxVars, phase>>

\* ... or had nothing to do now, or failed (also once the receipt deadline
\* passed, or for a consumer that exited); or accepted a line, perhaps the last
\* of an exited consumer; or submitted one, or looked it up again.
OpWorks(s) ==
    LET c == op[s].conn IN
    /\ Running(s)
    /\ \/ /\ Finished(s, "quiet") \/ Finished(s, "failed")
          /\ UNCHANGED <<unread, awaiting>>
       \/ /\ unread[c] > 0
          /\ Finished(s, "accepted") \/ Finished(s, "parked")
          /\ unread' = [unread EXCEPT ![c] = @ - 1]
          /\ awaiting' = [awaiting EXCEPT ![c] = 0]
       \/ /\ unread[c] > 0 /\ awaiting[c] < MaxFollowUps
          /\ Finished(s, "waiting")
          /\ awaiting' = [awaiting EXCEPT ![c] = @ + 1]
          /\ UNCHANGED unread
    /\ UNCHANGED <<connVars, lane, ready, due, retry, kick, loopVars, kicking, verbVars,
                   writer, arrived, phase>>

\* The next visit: at once after an acceptance, soon for an awaited receipt,
\* after a backoff for an error or an exited consumer.
FollowUp(s) ==
    LET c == op[s].conn  r == op[s].result IN
    /\ op[s].stage = "after"
    /\ ready' = IF r \in {"accepted", "parked"} THEN ready \cup {c} ELSE ready
    /\ due' = IF r = "waiting" THEN [due EXCEPT ![c] = "later"] ELSE due
    /\ retry' = IF r \in {"failed", "parked"} THEN retry \cup {c} ELSE retry
    /\ op' = [op EXCEPT ![s].stage = "lane"]
    /\ UNCHANGED <<connVars, lane, kick, loopVars, kicking, verbVars, inboxVars, phase>>

ReleaseLane(s) ==
    /\ op[s].stage = "lane"
    /\ lane' = [lane EXCEPT ![op[s].conn] = "free"]
    /\ op' = [op EXCEPT ![s].stage = "slot"]
    /\ UNCHANGED <<others, ready, due, kick, loopVars, kicking>>

ReleaseSlot(s) ==
    /\ op[s].stage = "slot"
    /\ s \notin kicking  \* bound: one kick to come per slot
    /\ op' = [op EXCEPT ![s] = Free]
    /\ kicking' = kicking \cup {s}
    /\ UNCHANGED <<others, lane, ready, due, kick, loopVars>>

\* Mutant: the channel has no buffer: only a waiting loop takes the kick.
MutantKickUnbuffered(s) ==
    /\ s \in kicking
    /\ kicking' = kicking \ {s}
    /\ kick' = (kick \/ at = "select")
    /\ UNCHANGED <<others, lane, ready, due, loopVars, op>>

Kick(s) ==
    /\ s \in kicking
    /\ kicking' = kicking \ {s}
    /\ kick' = TRUE
    /\ UNCHANGED <<others, lane, ready, due, loopVars, op>>

-----------------------------------------------------------------------------
(* The control verbs: beginControl waits for the lane, and takes no slot. *)

\* Mutant: closing is not looked at.
MutantControlWhileClosing(c) ==
    /\ control[c] = "none"
    /\ controls < MaxControls
    /\ controls' = controls + 1
    /\ control' = [control EXCEPT ![c] = "wait"]
    /\ UNCHANGED <<connVars, lane, ready, due, retry, kick, loopVars, opVars,
                   inboxVars, phase>>

\* A connect on a drawn ID, or a verb on a connection found in a snapshot.
ControlBegin(c) ==
    /\ phase = "running"
    /\ control[c] = "none"  \* bound: one verb at a time per connection
    /\ controls < MaxControls
    /\ controls' = controls + 1
    /\ control' = [control EXCEPT ![c] = "wait"]
    /\ UNCHANGED <<connVars, lane, ready, due, retry, kick, loopVars, opVars,
                   inboxVars, phase>>

\* Mutant: the verb goes on without the lane after d.controlWait.
MutantControlBargesIn(c) ==
    /\ control[c] = "wait"
    /\ lane' = [lane EXCEPT ![c] = "control"]
    /\ control' = [control EXCEPT ![c] = "hold"]
    /\ UNCHANGED <<connVars, ready, due, retry, kick, loopVars, opVars, controls,
                   inboxVars, phase>>

ControlTake(c) ==
    /\ control[c] = "wait"
    /\ lane[c] = "free"
    /\ lane' = [lane EXCEPT ![c] = "control"]
    /\ control' = [control EXCEPT ![c] = "hold"]
    /\ UNCHANGED <<connVars, ready, due, retry, kick, loopVars, opVars, controls,
                   inboxVars, phase>>

\* d.controlWait passed, or the daemon is stopping: busy, and nothing claimed.
ControlGivesUp(c) ==
    /\ control[c] = "wait"
    /\ control' = [control EXCEPT ![c] = "none"]
    /\ UNCHANGED <<connVars, lane, ready, due, retry, kick, loopVars, opVars, controls,
                   inboxVars, phase>>

\* The verb is over: a reconnect or a recovery clears the backoff, a connect
\* also wakes the connection, before the lane is released.
ControlWorks(c) ==
    /\ control[c] = "hold"
    /\ \/ UNCHANGED <<ready, retry, kick>>
       \/ c \in live /\ retry' = retry \ {c} /\ UNCHANGED <<ready, kick>>
       \/ /\ c \in live /\ retry' \in {retry, retry \ {c}}
          /\ ready' = ready \cup {c} /\ kick' = TRUE
    /\ control' = [control EXCEPT ![c] = "lane"]
    /\ UNCHANGED <<connVars, lane, due, loopVars, opVars, controls, inboxVars, phase>>

\* connectWithCredential registers a connection under an ID it has just drawn.
Register(c) ==
    /\ control[c] = "hold"
    /\ c \notin born
    /\ live' = live \cup {c}
    /\ born' = born \cup {c}
    /\ ready' = ready \cup {c}
    /\ kick' = TRUE
    /\ control' = [control EXCEPT ![c] = "lane"]
    /\ UNCHANGED <<detached, ticker, lane, due, retry, loopVars, opVars, controls, inboxVars,
                   phase>>

\* collectOne: forget drops every trace of the record, the lane included, so
\* the lane its holder then releases is nobody else's.
Collect(c) ==
    /\ control[c] = "hold"
    /\ c \in live
    /\ live' = live \ {c}
    /\ detached' = detached \ {c}
    /\ lane' = [lane EXCEPT ![c] = "free"]
    /\ ready' = ready \ {c}
    /\ due' = [due EXCEPT ![c] = "none"]
    /\ retry' = retry \ {c}
    /\ control' = [control EXCEPT ![c] = "kick"]
    /\ UNCHANGED <<born, ticker, kick, loopVars, opVars, controls, inboxVars, phase>>

ControlReleases(c) ==
    /\ control[c] = "lane"
    /\ lane' = [lane EXCEPT ![c] = "free"]
    /\ control' = [control EXCEPT ![c] = "kick"]
    /\ UNCHANGED <<connVars, ready, due, retry, kick, loopVars, opVars, controls,
                   inboxVars, phase>>

ControlKick(c) ==
    /\ control[c] = "kick"
    /\ kick' = TRUE
    /\ control' = [control EXCEPT ![c] = "none"]
    /\ UNCHANGED <<connVars, lane, ready, due, retry, loopVars, opVars, controls,
                   inboxVars, phase>>

-----------------------------------------------------------------------------
(* RunDaemon's shutdown: the loop, then closing, then the workers. *)

StopLoop ==
    /\ at = "select"
    /\ at' = "stopped"
    /\ UNCHANGED <<others, lane, ready, due, kick, passVars, listVars, opVars>>

Close ==
    /\ at = "stopped" /\ phase = "running"
    /\ phase' = "closing"
    /\ UNCHANGED <<connVars, lane, ready, due, retry, kick, loopVars, opVars, verbVars,
                   inboxVars>>

\* d.workers: operations and verbs, from their admission to after their kick.
Idle ==
    /\ \A s \in Slots : op[s] = Free /\ s \notin kicking
    /\ \A c \in Conns : control[c] = "none"

\* workers.Wait returned, or five seconds passed without that.
Exit ==
    /\ phase = "closing"
    /\ \/ Idle /\ phase' = "exited"
       \/ phase' = "forced"
    /\ UNCHANGED <<connVars, lane, ready, due, retry, kick, loopVars, opVars, verbVars,
                   inboxVars>>

-----------------------------------------------------------------------------

\* The daemon starts with some of the IDs registered and perhaps lines unread
\* since the last one; a and n of the bounds on lines and verbs are used up.
Start(a, n) ==
    /\ live \in SUBSET Conns /\ born = live
    /\ detached = {} /\ ticker \in Tickers
    /\ lane = [c \in Conns |-> "free"]
    /\ ready = {} /\ retry = {}
    /\ due = [c \in Conns |-> "none"]
    /\ kick = FALSE
    /\ passLeft = 0 /\ rotation = 0
    /\ at = "select" /\ todo = {} /\ ids = {} /\ dropping = {}
    /\ op = [s \in Slots |-> Free]
    /\ kicking = {}
    /\ control = [c \in Conns |-> "none"]
    /\ writer = [c \in Conns |-> "none"]
    /\ unread \in [Conns -> 0 .. MaxUnread]
    /\ awaiting = [c \in Conns |-> 0]
    /\ arrived = a /\ controls = n
    /\ phase = "running"

SchedulerInit == Start(0, 0)

Loop ==
    \/ DispatchReady
    \/ TakeReady
    \/ BeginReady
    \/ BeginRefused
    \/ PutBack
    \/ StartSweep
    \/ SweepVisit
    \/ SweepEnds
    \/ DropDone

Operation(s) ==
    \/ OpDetaches(s)
    \/ OpWorks(s)
    \/ FollowUp(s)
    \/ ReleaseLane(s)
    \/ ReleaseSlot(s)
    \/ Kick(s)

ControlVerb(c) ==
    \/ ControlTake(c)
    \/ ControlGivesUp(c)
    \/ ControlWorks(c)
    \/ Register(c)
    \/ Collect(c)
    \/ ControlReleases(c)
    \/ ControlKick(c)

Shutdown == StopLoop \/ Close \/ Exit

SchedulerNext ==
    \/ \E c \in Conns :
        \/ Arrive(c) \/ WakeMark(c) \/ WakeKick(c)
        \/ FollowUpComesDue(c) \/ RetryElapses(c)
        \/ ControlBegin(c) \/ ControlVerb(c)
    \/ Tick \/ TakeKick \/ DueTimer
    \/ Loop
    \/ \E s \in Slots : Operation(s)
    \/ Shutdown

SchedulerSpec == SchedulerInit /\ [][SchedulerNext]_schedulerVars

\* Goroutines run: the loop between two waits, an operation and a verb to
\* their end (their calls have timeouts), a writer that reached the daemon; a
\* channel or a timer that is ready is taken, the tick too, as select chooses
\* at random among the ready ones; backoffs end.
SchedulerFairness ==
    /\ WF_schedulerVars(Loop)
    /\ SF_schedulerVars(Tick)
    /\ WF_schedulerVars(Tick \/ TakeKick \/ DueTimer)
    /\ \A s \in Slots : WF_schedulerVars(Operation(s))
    /\ \A c \in Conns :
        /\ WF_schedulerVars(ControlVerb(c))
        /\ WF_schedulerVars(WakeMark(c) \/ WakeKick(c))
        /\ WF_schedulerVars(FollowUpComesDue(c))
        /\ WF_schedulerVars(RetryElapses(c))

SchedulerFairSpec == SchedulerSpec /\ SchedulerFairness

-----------------------------------------------------------------------------
(* Properties. *)

SchedulerTypeOK ==
    /\ live \subseteq born /\ born \subseteq Conns /\ detached \subseteq Conns
    /\ lane \in [Conns -> {"free", "op", "control"}]
    /\ ready \subseteq Conns /\ retry \subseteq Conns
    /\ due \in [Conns -> {"none", "later", "now"}]
    /\ kick \in BOOLEAN
    /\ passLeft \in Nat /\ rotation \in Nat
    /\ at \in {"select", "drive", "ready", "begin", "again", "full", "sweep", "stopped"}
    /\ todo \subseteq Conns /\ ids \subseteq Conns /\ dropping \subseteq Slots
    /\ op \in [Slots -> Ops]
    /\ kicking \subseteq Slots
    /\ control \in [Conns -> {"none", "wait", "hold", "lane", "kick"}]
    /\ writer \in [Conns -> {"none", "mark", "kick"}]
    /\ unread \in [Conns -> Nat] /\ awaiting \in [Conns -> Nat]
    /\ arrived \in Nat /\ controls \in Nat
    /\ phase \in {"running", "closing", "exited", "forced"}

\* c is worked on by the operation in slot s, or by a verb.
WorkedOnBy(c, s)  == op[s].stage \in {"run", "after", "lane"} /\ op[s].conn = c
WorkedOnByVerb(c) == control[c] \in {"hold", "lane"}

\* A connection's record is worked on by one goroutine at a time: two
\* operations, or an operation and a verb, never hold the same lane.
LaneExclusion ==
    \A c \in Conns, s \in Slots : WorkedOnBy(c, s) =>
        /\ ~WorkedOnByVerb(c)
        /\ \A t \in Slots : WorkedOnBy(c, t) => t = s

\* A kick is in the channel, or somebody is still to send one.
KickComes ==
    \/ kick
    \/ \E s \in Slots : op[s] # Free \/ s \in kicking
    \/ \E c \in Conns : control[c] \in {"hold", "lane", "kick"} \/ writer[c] = "kick"

\* The loop never waits on a ready connection that nothing will remind it of.
NoLostWake == at = "select" /\ ready # {} => KickComes

\* Once shutdown's wait is over no operation and no verb is under way.
CleanExit == phase = "exited" => Idle

Visited(c) == \E s \in Slots : op[s].stage = "run" /\ op[s].conn = c

Excused(c) == c \notin live \/ c \in detached \/ c \in retry \/ at = "stopped"

\* Something asked for a visit: a writer, an acceptance, or a receipt awaited.
Asked(c) ==
    \/ writer[c] = "mark"
    \/ \E s \in Slots : op[s].stage = "after" /\ op[s].conn = c
                          /\ op[s].result \in {"accepted", "waiting"}

\* What asks for a visit gets one without the sweep, also when no tick comes:
\* the marks, the timers and the kicks are enough.
AskedIsVisited == \A c \in Conns : Asked(c) ~> Visited(c) \/ Excused(c)

\* The sweep reaches every registered connection again and again, whether or
\* not anything asked for it: mail without a wake waits for nothing else, a
\* backoff ends in a visit, an exit is noticed.
EveryoneIsVisited ==
    \A c \in Conns :
        ticker /\ c \in live ~> Visited(c) \/ c \notin live \/ c \in detached \/ at = "stopped"
=============================================================================
