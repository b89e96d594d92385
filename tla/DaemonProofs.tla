---------------------------- MODULE DaemonProofs ----------------------------
(***************************************************************************)
(* The safety of the daemon's two halves: of Scheduler, which decides who  *)
(* works on a connection's record and when, for any number of connections  *)
(* and slots, and of Delivery, which is that work, for every number of     *)
(* lines, faults and harness processes.                                    *)
(***************************************************************************)
EXTENDS Scheduler, Delivery, FiniteSetTheorems, TLAPS

(***************************************************************************)
(* Scheduler: lanes exclude, no wake is lost, shutdown waits for what is   *)
(* under way.  A lane that is taken is held by exactly one operation or    *)
(* verb, which has its kick still to send.  That is why the loop may       *)
(* forget a busy lane or full slots: at every point of a dispatch the      *)
(* ready ids it will not reach any more are covered by a kick to come.     *)
(***************************************************************************)

\* A lane is marked as held exactly while its holder works.
LanesHeld ==
    \A c \in Conns :
        /\ lane[c] = "op" <=> \E s \in Slots : WorkedOnBy(c, s)
        /\ lane[c] = "control" <=> WorkedOnByVerb(c)

\* What the loop will not reach before it waits again is covered by a kick.
Covered ==
    /\ at \in {"ready", "begin"} => ready \subseteq todo \/ KickComes
    /\ at \in {"again", "full"} => KickComes
    /\ at \in {"sweep", "select"} => ready = {} \/ KickComes

\* The loop stops before the daemon closes, and stays stopped.
Stopped ==
    /\ phase # "running" => at = "stopped"
    /\ phase = "exited" => Idle

SchedulerIInv == SchedulerTypeOK /\ LanesHeld /\ LaneExclusion /\ Covered /\ Stopped

-----------------------------------------------------------------------------
(* Type correctness, one lemma per group of steps. *)

LEMMA FreeStage == Free.stage = "free" /\ Free \in Ops
BY DEF Free, Ops

\* An operation that is at work is a record of its connection and result.
LEMMA AtWork ==
    ASSUME NEW o \in Ops, o.stage # "free"
    PROVE  /\ o \in [stage : Stages, conn : Conns, result : Results]
           /\ o.conn \in Conns /\ o.stage \in Stages /\ o.result \in Results /\ o # Free
BY FreeStage DEF Ops, Free, Stages

LEMMA Restaged ==
    ASSUME NEW s \in Slots, op \in [Slots -> Ops], op[s].stage # "free",
           NEW stage \in Stages
    PROVE  /\ [op EXCEPT ![s].stage = stage] \in [Slots -> Ops]
           /\ \A t \in Slots \ {s} : [op EXCEPT ![s].stage = stage][t] = op[t]
           /\ [op EXCEPT ![s].stage = stage][s].stage = stage
           /\ [op EXCEPT ![s].stage = stage][s].conn = op[s].conn
           /\ [op EXCEPT ![s].stage = stage][s] # Free
BY AtWork, FreeStage DEF Ops, Stages, Free

LEMMA FinishedOp ==
    ASSUME NEW s \in Slots, op \in [Slots -> Ops], op[s].stage # "free",
           NEW r \in Results, Finished(s, r)
    PROVE  /\ op' \in [Slots -> Ops]
           /\ \A t \in Slots \ {s} : op'[t] = op[t]
           /\ op'[s].stage = "after" /\ op'[s].conn = op[s].conn /\ op'[s] # Free
<1> DEFINE new == [op[s] EXCEPT !.stage = "after", !.result = r]
<1>1. op' = [op EXCEPT ![s] = new]
  BY DEF Finished
<1>2. new \in Ops /\ new.stage = "after" /\ new.conn = op[s].conn
  BY AtWork DEF Ops, Stages, Free
<1> HIDE DEF new
<1>3. new # Free
  BY <1>2, FreeStage
<1> QED
  BY <1>1, <1>2, <1>3

LEMMA CardinalityNat ==
    ASSUME NEW S, S \subseteq Conns PROVE IsFiniteSet(S) /\ Cardinality(S) \in Nat
BY ConstantsAssumption, FS_Subset, FS_CardinalityType

LEMMA TypeInit == SchedulerInit => SchedulerTypeOK
<1> SUFFICES ASSUME SchedulerInit PROVE SchedulerTypeOK  OBVIOUS
<1>1. op \in [Slots -> Ops]  BY FreeStage DEF SchedulerInit, Start
<1>2. /\ lane \in [Conns -> {"free", "op", "control"}]
      /\ due \in [Conns -> {"none", "later", "now"}]
      /\ control \in [Conns -> {"none", "wait", "hold", "lane", "kick"}]
      /\ writer \in [Conns -> {"none", "mark", "kick"}]
  BY DEF SchedulerInit, Start
<1>3. unread \in [Conns -> Nat] /\ awaiting \in [Conns -> Nat]  BY DEF SchedulerInit, Start
<1> QED  BY <1>1, <1>2, <1>3 DEF SchedulerInit, Start, SchedulerTypeOK

\* Only the loop, and only by a Begin, starts an operation.
LEMMA BegunOp ==
    ASSUME SchedulerTypeOK, NEW c \in Conns, NEW s \in Slots, Begin(c, s)
    PROVE  /\ op' \in [Slots -> Ops]
           /\ \A t \in Slots \ {s} : op'[t] = op[t]
           /\ op'[s].stage \in {"run", "lane"} /\ op'[s].conn = c
           /\ op'[s] # Free
<1> DEFINE new == [stage |-> IF Dropped(c) THEN "lane" ELSE "run",
                   conn |-> c, result |-> "quiet"]
<1>1. new \in Ops /\ new # Free /\ new.conn = c /\ new.stage \in {"run", "lane"}
  BY DEF Ops, Free, Stages, Results
<1>2. op' = [op EXCEPT ![s] = new]  BY DEF Begin
<1> HIDE DEF new
<1> QED  BY <1>1, <1>2 DEF SchedulerTypeOK

LEMMA TypeWriters ==
    ASSUME SchedulerTypeOK, NEW c \in Conns, Arrive(c) \/ WakeMark(c) \/ WakeKick(c) PROVE SchedulerTypeOK'
<1>1. CASE Arrive(c)
  <2>1. unread' \in [Conns -> Nat] /\ writer' \in [Conns -> {"none", "mark", "kick"}]
        /\ arrived' \in Nat
    BY <1>1 DEF SchedulerTypeOK, Arrive
  <2> QED  BY <1>1, <2>1 DEF SchedulerTypeOK, Arrive, connVars, loopVars, passVars, listVars, opVars,
                             verbVars
<1>2. CASE WakeMark(c)
  BY <1>2 DEF SchedulerTypeOK, WakeMark, connVars, loopVars, passVars, listVars, opVars, verbVars
<1>3. CASE WakeKick(c)
  BY <1>3 DEF SchedulerTypeOK, WakeKick, connVars, loopVars, passVars, listVars, opVars, verbVars
<1> QED  BY <1>1, <1>2, <1>3

LEMMA TypeClock ==
    ASSUME SchedulerTypeOK, NEW c \in Conns, FollowUpComesDue(c) \/ RetryElapses(c) PROVE SchedulerTypeOK'
BY DEF SchedulerTypeOK, FollowUpComesDue, RetryElapses, others, connVars, loopVars, passVars,
       listVars, opVars, verbVars, inboxVars

LEMMA TypeSelect ==
    ASSUME SchedulerTypeOK, Tick \/ TakeKick \/ DueTimer \/ StopLoop PROVE SchedulerTypeOK'
<1>1. Cardinality(live) \in Nat  BY CardinalityNat DEF SchedulerTypeOK
<1> QED  BY <1>1 DEF SchedulerTypeOK, Tick, TakeKick, DueTimer, StopLoop, others, connVars, passVars,
                     listVars, opVars, verbVars, inboxVars

LEMMA TypeDispatch ==
    ASSUME SchedulerTypeOK, DispatchReady \/ TakeReady \/ BeginRefused \/ PutBack \/ StartSweep
    PROVE SchedulerTypeOK'
BY DEF SchedulerTypeOK, DispatchReady, TakeReady, BeginRefused, PutBack, StartSweep, others, connVars,
       passVars, listVars, opVars, verbVars, inboxVars

LEMMA TypeBegin ==
    ASSUME SchedulerTypeOK, BeginReady PROVE SchedulerTypeOK'
<1>1. PICK c \in Conns, s \in Slots : Begin(c, s) /\ todo' = todo \ {c}
  BY DEF BeginReady
<1>2. op' \in [Slots -> Ops]  BY <1>1, BegunOp
<1> QED  BY <1>1, <1>2 DEF SchedulerTypeOK, BeginReady, Begin, others, connVars, passVars, verbVars,
                           inboxVars

LEMMA LeftNat == SchedulerTypeOK => Left \in Nat
BY CardinalityNat DEF SchedulerTypeOK, Left, Least

LEMMA TypeSweepVisit ==
    ASSUME SchedulerTypeOK, SweepVisit PROVE SchedulerTypeOK'
<1>1. PICK c \in ids : (\E s \in Slots : Begin(c, s)) \/ UNCHANGED <<lane, dropping, opVars>>
  BY DEF SweepVisit
<1>2. c \in Conns /\ Left - 1 \in Nat /\ Cardinality(ids) \in Nat /\ Cardinality(ids) > 0
  BY LeftNat, CardinalityNat DEF SchedulerTypeOK, SweepVisit, Left, Least
<1>3. passLeft' \in Nat /\ rotation' \in Nat
  <2>1. rotation + 1 \in Nat  BY DEF SchedulerTypeOK
  <2> QED  BY <1>2, <2>1 DEF SweepVisit, Advance
<1>4. op' \in [Slots -> Ops] /\ dropping' \subseteq Slots /\ kicking' = kicking
      /\ lane' \in [Conns -> {"free", "op", "control"}]
  <2>1. CASE \E s \in Slots : Begin(c, s)
    <3>1. PICK s \in Slots : Begin(c, s)  BY <2>1
    <3>2. op' \in [Slots -> Ops]  BY <1>2, <3>1, BegunOp
    <3>3. /\ dropping' = {s} \/ dropping' = {}
          /\ kicking' = kicking /\ lane' = [lane EXCEPT ![c] = "op"]
      BY <3>1 DEF Begin
    <3> QED  BY <1>2, <3>2, <3>3 DEF SchedulerTypeOK
  <2>2. CASE UNCHANGED <<lane, dropping, opVars>>
    BY <2>2 DEF SchedulerTypeOK, opVars
  <2> QED  BY <1>1, <2>1, <2>2
<1> QED  BY <1>3, <1>4 DEF SchedulerTypeOK, SweepVisit, others, connVars, verbVars, inboxVars

LEMMA TypeSweepEnds ==
    ASSUME SchedulerTypeOK, SweepEnds \/ DropDone PROVE SchedulerTypeOK'
BY LeftNat DEF SchedulerTypeOK, SweepEnds, DropDone, others, connVars, passVars, opVars, verbVars,
               inboxVars

LEMMA TypeOperation ==
    ASSUME SchedulerTypeOK, NEW s \in Slots, Operation(s) PROVE SchedulerTypeOK'
<1>1. CASE OpDetaches(s)
  <2>1. op[s].stage # "free" /\ Finished(s, "quiet")  BY <1>1 DEF OpDetaches, Running
  <2>2. op' \in [Slots -> Ops]  BY <2>1, FinishedOp DEF SchedulerTypeOK, Results
  <2>3. op[s].conn \in Conns  BY <2>1, AtWork DEF SchedulerTypeOK
  <2> QED  BY <1>1, <2>2, <2>3 DEF SchedulerTypeOK, OpDetaches, loopVars, passVars, listVars, verbVars,
                                   inboxVars
<1>2. CASE OpWorks(s)
  <2>1. op[s].stage # "free"  BY <1>2 DEF OpWorks, Running
  <2>2. \E r \in Results : Finished(s, r)  BY <1>2 DEF OpWorks, Results
  <2>3. op' \in [Slots -> Ops]  BY <2>1, <2>2, FinishedOp DEF SchedulerTypeOK
  <2>4. op[s].conn \in Conns  BY <2>1, AtWork DEF SchedulerTypeOK
  <2>5. unread' \in [Conns -> Nat] /\ awaiting' \in [Conns -> Nat]
    BY <1>2, <2>4 DEF OpWorks, SchedulerTypeOK
  <2> QED  BY <1>2, <2>3, <2>5 DEF SchedulerTypeOK, OpWorks, connVars, loopVars, passVars, listVars,
                                   verbVars
<1>3. CASE FollowUp(s)
  <2>1. op[s].stage # "free"  BY <1>3 DEF FollowUp
  <2>2. op[s].conn \in Conns /\ "lane" \in Stages  BY <2>1, AtWork DEF SchedulerTypeOK, Stages
  <2>3. op' \in [Slots -> Ops]  BY <1>3, <2>1, <2>2, Restaged DEF SchedulerTypeOK, FollowUp
  <2>4. ready' \subseteq Conns /\ retry' \subseteq Conns
        /\ due' \in [Conns -> {"none", "later", "now"}]
    BY <1>3, <2>2 DEF SchedulerTypeOK, FollowUp
  <2> QED  BY <1>3, <2>3, <2>4 DEF SchedulerTypeOK, FollowUp, connVars, loopVars, passVars, listVars,
                                   verbVars, inboxVars
<1>4. CASE ReleaseLane(s)
  <2>1. op[s].stage # "free"  BY <1>4 DEF ReleaseLane
  <2>2. op' \in [Slots -> Ops]  BY <1>4, <2>1, Restaged DEF SchedulerTypeOK, ReleaseLane, Stages
  <2>3. lane' \in [Conns -> {"free", "op", "control"}]  BY <1>4 DEF SchedulerTypeOK, ReleaseLane
  <2> QED  BY <1>4, <2>2, <2>3 DEF SchedulerTypeOK, ReleaseLane, others, connVars, loopVars, passVars,
                                   listVars, verbVars, inboxVars
<1>5. CASE ReleaseSlot(s)
  BY <1>5, FreeStage DEF SchedulerTypeOK, ReleaseSlot, others, connVars, loopVars, passVars, listVars,
                         verbVars, inboxVars
<1>6. CASE Kick(s)
  BY <1>6 DEF SchedulerTypeOK, Kick, others, connVars, loopVars, passVars, listVars, verbVars,
              inboxVars
<1> QED  BY <1>1, <1>2, <1>3, <1>4, <1>5, <1>6 DEF Operation

LEMMA TypeVerb ==
    ASSUME SchedulerTypeOK, NEW c \in Conns, ControlBegin(c) \/ ControlVerb(c) PROVE SchedulerTypeOK'
<1>0. CASE ControlBegin(c) \/ ControlGivesUp(c)
  BY <1>0 DEF SchedulerTypeOK, ControlBegin, ControlGivesUp, connVars, loopVars, passVars, listVars,
              opVars, inboxVars
<1>1. CASE ControlTake(c) \/ ControlReleases(c) \/ ControlKick(c)
  <2>1. control' \in [Conns -> {"none", "wait", "hold", "lane", "kick"}]
    BY <1>1 DEF SchedulerTypeOK, ControlTake, ControlReleases, ControlKick
  <2>2. lane' \in [Conns -> {"free", "op", "control"}]
    BY <1>1 DEF SchedulerTypeOK, ControlTake, ControlReleases, ControlKick
  <2>3. kick' \in BOOLEAN
    BY <1>1 DEF SchedulerTypeOK, ControlTake, ControlReleases, ControlKick
  <2> QED  BY <1>1, <2>1, <2>2, <2>3
              DEF SchedulerTypeOK, ControlTake, ControlReleases, ControlKick, connVars, loopVars,
                  passVars, listVars, opVars, inboxVars
<1>2. CASE ControlWorks(c)
  BY <1>2 DEF SchedulerTypeOK, ControlWorks, connVars, loopVars, passVars, listVars, opVars, inboxVars
<1>3. CASE Register(c) \/ Collect(c)
  BY <1>3 DEF SchedulerTypeOK, Register, Collect, loopVars, passVars, listVars, opVars, inboxVars
<1> QED  BY <1>0, <1>1, <1>2, <1>3 DEF ControlVerb

LEMMA TypeShutdown ==
    ASSUME SchedulerTypeOK, Close \/ Exit PROVE SchedulerTypeOK'
BY DEF SchedulerTypeOK, Close, Exit, connVars, loopVars, passVars, listVars, opVars, verbVars,
       inboxVars

LEMMA TypeNext == SchedulerTypeOK /\ [SchedulerNext]_schedulerVars => SchedulerTypeOK'
<1> SUFFICES ASSUME SchedulerTypeOK, [SchedulerNext]_schedulerVars PROVE SchedulerTypeOK'  OBVIOUS
<1>1. CASE UNCHANGED schedulerVars
  BY <1>1 DEF SchedulerTypeOK, schedulerVars, connVars, loopVars, passVars, listVars, opVars, verbVars, inboxVars
<1>2. CASE SchedulerNext
  BY <1>2, TypeWriters, TypeClock, TypeSelect, TypeDispatch, TypeBegin, TypeSweepVisit,
     TypeSweepEnds, TypeOperation, TypeVerb, TypeShutdown DEF SchedulerNext, Loop, Shutdown
<1> QED  BY <1>1, <1>2

-----------------------------------------------------------------------------
(* Lanes. *)

Lanes == LanesHeld /\ LaneExclusion

\* A step that takes or releases no lane, and starts or ends no work.
LEMMA LanesKept ==
    ASSUME Lanes, lane' = lane,
           \A c \in Conns, s \in Slots : WorkedOnBy(c, s)' = WorkedOnBy(c, s),
           \A c \in Conns : WorkedOnByVerb(c)' = WorkedOnByVerb(c)
    PROVE  Lanes'
<1>1. LanesHeld'  BY DEF Lanes, LanesHeld
<1>2. LaneExclusion'  BY DEF Lanes, LaneExclusion
<1> QED  BY <1>1, <1>2 DEF Lanes

LEMMA LanesBegin ==
    ASSUME SchedulerTypeOK, Lanes, NEW c \in Conns, NEW s \in Slots, Begin(c, s), control' = control
    PROVE  Lanes'
<1>1. /\ WorkedOnBy(c, s)'
      /\ \A d \in Conns \ {c} : ~WorkedOnBy(d, s)' /\ ~WorkedOnBy(d, s)
      /\ \A d \in Conns, t \in Slots \ {s} : WorkedOnBy(d, t)' <=> WorkedOnBy(d, t)
  BY BegunOp, FreeStage DEF WorkedOnBy, Begin
<1>2. lane[c] = "free" /\ lane'[c] = "op" /\ \A d \in Conns \ {c} : lane'[d] = lane[d]
  BY DEF Begin, SchedulerTypeOK
<1>3. ~WorkedOnByVerb(c) /\ \A t \in Slots : ~WorkedOnBy(c, t)
  BY <1>2 DEF Lanes, LanesHeld
<1>4. \A d \in Conns : WorkedOnByVerb(d)' <=> WorkedOnByVerb(d)
  BY DEF WorkedOnByVerb
<1>5. LanesHeld'
  <2> SUFFICES ASSUME NEW d \in Conns
               PROVE  /\ lane'[d] = "op" <=> \E t \in Slots : WorkedOnBy(d, t)'
                      /\ lane'[d] = "control" <=> WorkedOnByVerb(d)'
    BY DEF LanesHeld
  <2>1. CASE d = c  BY <2>1, <1>1, <1>2, <1>3, <1>4
  <2>2. CASE d # c  BY <2>2, <1>1, <1>2, <1>4 DEF Lanes, LanesHeld
  <2> QED  BY <2>1, <2>2
<1>6. LaneExclusion'
  <2> SUFFICES ASSUME NEW d \in Conns, NEW u \in Slots, WorkedOnBy(d, u)'
               PROVE  /\ ~WorkedOnByVerb(d)'
                      /\ \A t \in Slots : WorkedOnBy(d, t)' => t = u
    BY DEF LaneExclusion
  <2>1. CASE d = c  BY <2>1, <1>1, <1>3, <1>4
  <2>2. CASE d # c  BY <2>2, <1>1, <1>4 DEF Lanes, LaneExclusion
  <2> QED  BY <2>1, <2>2
<1> QED  BY <1>5, <1>6 DEF Lanes

\* What an operation does in its slot leaves the other slots alone.
LEMMA LanesOperation ==
    ASSUME SchedulerTypeOK, Lanes, NEW s \in Slots, Operation(s) PROVE Lanes'
<1>1. CASE OpDetaches(s) \/ OpWorks(s) \/ FollowUp(s)
  <2>1. /\ op[s].stage \in {"run", "after"} /\ op'[s].stage \in {"after", "lane"}
        /\ op'[s].conn = op[s].conn
        /\ \A t \in Slots \ {s} : op'[t] = op[t]
        /\ lane' = lane /\ control' = control
    <3>1. CASE OpDetaches(s)
      <4>1. op[s].stage = "run" /\ Finished(s, "quiet")  BY <3>1 DEF OpDetaches, Running
      <4> QED  BY <3>1, <4>1, FinishedOp DEF SchedulerTypeOK, Results, OpDetaches, verbVars
    <3>2. CASE OpWorks(s)
      <4>1. op[s].stage = "run" /\ \E r \in Results : Finished(s, r)
        BY <3>2 DEF OpWorks, Running, Results
      <4> QED  BY <3>2, <4>1, FinishedOp DEF SchedulerTypeOK, OpWorks, verbVars
    <3>3. CASE FollowUp(s)
      <4>1. op[s].stage = "after" /\ op' = [op EXCEPT ![s].stage = "lane"]
            /\ "lane" \in Stages
        BY <3>3 DEF FollowUp, Stages
      <4> QED  BY <3>3, <4>1, Restaged DEF SchedulerTypeOK, FollowUp, verbVars
    <3> QED  BY <1>1, <3>1, <3>2, <3>3
  <2>2. \A c \in Conns, t \in Slots : WorkedOnBy(c, t)' = WorkedOnBy(c, t)
    BY <2>1 DEF WorkedOnBy
  <2>3. \A c \in Conns : WorkedOnByVerb(c)' = WorkedOnByVerb(c)
    BY <2>1 DEF WorkedOnByVerb
  <2> QED  BY <2>1, <2>2, <2>3, LanesKept
<1>2. CASE ReleaseLane(s)
  <2> DEFINE c == op[s].conn
  <2>1. /\ op[s].stage = "lane" /\ op'[s].stage = "slot"
        /\ \A t \in Slots \ {s} : op'[t] = op[t]
        /\ lane' = [lane EXCEPT ![c] = "free"] /\ control' = control
    BY <1>2, Restaged DEF SchedulerTypeOK, ReleaseLane, Stages, others, verbVars
  <2>2. c \in Conns  BY <2>1, AtWork DEF SchedulerTypeOK
  <2>3. /\ WorkedOnBy(c, s)
        /\ \A d \in Conns : ~WorkedOnBy(d, s)'
        /\ \A d \in Conns, t \in Slots \ {s} : WorkedOnBy(d, t)' = WorkedOnBy(d, t)
        /\ \A d \in Conns \ {c} : ~WorkedOnBy(d, s)
        /\ \A d \in Conns : WorkedOnByVerb(d)' = WorkedOnByVerb(d)
    BY <2>1, <2>2 DEF WorkedOnBy, WorkedOnByVerb
  <2>4. ~WorkedOnByVerb(c) /\ \A t \in Slots \ {s} : ~WorkedOnBy(c, t)
    BY <2>2, <2>3 DEF Lanes, LaneExclusion
  <2>5. lane'[c] = "free" /\ \A d \in Conns \ {c} : lane'[d] = lane[d]
    BY <2>1, <2>2 DEF SchedulerTypeOK
  <2> HIDE DEF c
  <2>6. LanesHeld'
    <3> SUFFICES ASSUME NEW d \in Conns
                 PROVE  /\ lane'[d] = "op" <=> \E t \in Slots : WorkedOnBy(d, t)'
                        /\ lane'[d] = "control" <=> WorkedOnByVerb(d)'
      BY DEF LanesHeld
    <3>1. CASE d = c  BY <3>1, <2>3, <2>4, <2>5
    <3>2. CASE d # c  BY <3>2, <2>3, <2>5 DEF Lanes, LanesHeld
    <3> QED  BY <3>1, <3>2
  <2>7. LaneExclusion'  BY <2>3 DEF Lanes, LaneExclusion
  <2> QED  BY <2>6, <2>7 DEF Lanes
<1>3. CASE ReleaseSlot(s)
  <2>1. /\ op[s].stage = "slot" /\ op'[s] = Free
        /\ \A t \in Slots \ {s} : op'[t] = op[t]
        /\ lane' = lane /\ control' = control
    BY <1>3 DEF SchedulerTypeOK, ReleaseSlot, others, verbVars
  <2>2. \A c \in Conns, t \in Slots : WorkedOnBy(c, t)' = WorkedOnBy(c, t)
    BY <2>1, FreeStage DEF WorkedOnBy
  <2>3. \A c \in Conns : WorkedOnByVerb(c)' = WorkedOnByVerb(c)
    BY <2>1 DEF WorkedOnByVerb
  <2> QED  BY <2>1, <2>2, <2>3, LanesKept
<1>4. CASE Kick(s)
  <2>1. lane' = lane /\ control' = control /\ op' = op
    BY <1>4 DEF Kick, others, verbVars
  <2> QED  BY <2>1, LanesKept DEF WorkedOnBy, WorkedOnByVerb
<1> QED  BY <1>1, <1>2, <1>3, <1>4 DEF Operation

\* A verb takes a free lane and gives it back, or loses it to the collection.
LEMMA LanesVerb ==
    ASSUME SchedulerTypeOK, Lanes, NEW c \in Conns, ControlBegin(c) \/ ControlVerb(c) PROVE Lanes'
<1>0. op' = op /\ \A d \in Conns, t \in Slots : WorkedOnBy(d, t)' = WorkedOnBy(d, t)
  BY DEF ControlBegin, ControlVerb, ControlTake, ControlGivesUp, ControlWorks, Register, Collect,
         ControlReleases, ControlKick, opVars, WorkedOnBy
<1>1. \A d \in Conns \ {c} :
        control'[d] = control[d] /\ (WorkedOnByVerb(d)' = WorkedOnByVerb(d))
  BY DEF ControlBegin, ControlVerb, ControlTake, ControlGivesUp, ControlWorks, Register, Collect,
         ControlReleases, ControlKick, WorkedOnByVerb, SchedulerTypeOK
<1>2. CASE ControlTake(c)
  <2>1. lane[c] = "free" /\ lane' = [lane EXCEPT ![c] = "control"] /\ WorkedOnByVerb(c)'
    BY <1>2 DEF ControlTake, WorkedOnByVerb, SchedulerTypeOK
  <2>2. lane'[c] = "control" /\ \A d \in Conns \ {c} : lane'[d] = lane[d]
    BY <2>1 DEF SchedulerTypeOK
  <2>3. \A t \in Slots : ~WorkedOnBy(c, t)  BY <2>1 DEF Lanes, LanesHeld
  <2>4. LanesHeld'  BY <1>0, <1>1, <2>1, <2>2, <2>3 DEF Lanes, LanesHeld
  <2>5. LaneExclusion'  BY <1>0, <1>1, <2>3 DEF Lanes, LaneExclusion
  <2> QED  BY <2>4, <2>5 DEF Lanes
<1>3. CASE Collect(c) \/ ControlReleases(c)
  <2>1. /\ WorkedOnByVerb(c) /\ ~WorkedOnByVerb(c)'
        /\ lane' = [lane EXCEPT ![c] = "free"]
    BY <1>3 DEF Collect, ControlReleases, WorkedOnByVerb, SchedulerTypeOK
  <2>2. lane'[c] = "free" /\ \A d \in Conns \ {c} : lane'[d] = lane[d]
    BY <2>1 DEF SchedulerTypeOK
  <2>3. \A t \in Slots : ~WorkedOnBy(c, t)  BY <2>1 DEF Lanes, LaneExclusion
  <2>4. LanesHeld'  BY <1>0, <1>1, <2>1, <2>2, <2>3 DEF Lanes, LanesHeld
  <2>5. LaneExclusion'  BY <1>0, <1>1, <2>3 DEF Lanes, LaneExclusion
  <2> QED  BY <2>4, <2>5 DEF Lanes
<1>4. CASE \/ ControlBegin(c) \/ ControlGivesUp(c) \/ ControlWorks(c) \/ Register(c)
           \/ ControlKick(c)
  <2>1. lane' = lane /\ WorkedOnByVerb(c)' = WorkedOnByVerb(c)
    BY <1>4 DEF ControlBegin, ControlGivesUp, ControlWorks, Register, ControlKick,
                WorkedOnByVerb, SchedulerTypeOK
  <2>2. \A d \in Conns : WorkedOnByVerb(d)' = WorkedOnByVerb(d)  BY <1>1, <2>1
  <2> QED  BY <1>0, <2>1, <2>2, LanesKept
<1> QED  BY <1>2, <1>3, <1>4 DEF ControlVerb

LEMMA LanesNext == SchedulerTypeOK /\ Lanes /\ [SchedulerNext]_schedulerVars => Lanes'
<1> SUFFICES ASSUME SchedulerTypeOK, Lanes, [SchedulerNext]_schedulerVars PROVE Lanes'  OBVIOUS
<1>1. ASSUME lane' = lane, op' = op, control' = control PROVE Lanes'
  BY <1>1, LanesKept DEF WorkedOnBy, WorkedOnByVerb
<1>2. CASE UNCHANGED schedulerVars
  BY <1>1, <1>2 DEF schedulerVars, opVars, verbVars
<1>3. ASSUME NEW c \in Conns,
             \/ Arrive(c) \/ WakeMark(c) \/ WakeKick(c)
             \/ FollowUpComesDue(c) \/ RetryElapses(c)
      PROVE  Lanes'
  BY <1>1, <1>3 DEF Arrive, WakeMark, WakeKick, FollowUpComesDue, RetryElapses, others,
                    opVars, verbVars
<1>4. CASE Tick \/ TakeKick \/ DueTimer \/ Shutdown
  BY <1>1, <1>4 DEF Tick, TakeKick, DueTimer, Shutdown, StopLoop, Close, Exit, others, opVars,
                    verbVars
<1>5. CASE BeginReady
  BY <1>5, LanesBegin DEF BeginReady, others, verbVars
<1>6. CASE SweepVisit
  <2>1. PICK c \in Conns :
          (\E s \in Slots : Begin(c, s)) \/ UNCHANGED <<lane, dropping, opVars>>
    BY <1>6 DEF SweepVisit, SchedulerTypeOK
  <2>2. control' = control  BY <1>6 DEF SweepVisit, others, verbVars
  <2> QED  BY <2>1, <2>2, <1>1, LanesBegin DEF opVars
<1>7. CASE DispatchReady \/ TakeReady \/ BeginRefused \/ PutBack \/ StartSweep \/ SweepEnds
           \/ DropDone
  BY <1>1, <1>7 DEF DispatchReady, TakeReady, BeginRefused, PutBack, StartSweep, SweepEnds,
                    DropDone, others, opVars, verbVars
<1>8. CASE SchedulerNext
  BY <1>8, <1>3, <1>4, <1>5, <1>6, <1>7, LanesOperation, LanesVerb DEF SchedulerNext, Loop
<1> QED  BY <1>2, <1>8

-----------------------------------------------------------------------------
(* Kicks. *)

\* Whatever an operation does, its kick is still to come, or was just sent.
LEMMA OperationKicks ==
    ASSUME SchedulerTypeOK, NEW s \in Slots, Operation(s) PROVE KickComes'
<1>1. CASE OpDetaches(s) \/ OpWorks(s) \/ FollowUp(s) \/ ReleaseLane(s)
  <2>1. op'[s] # Free
    <3>1. CASE OpDetaches(s)
      <4>1. op[s].stage = "run" /\ Finished(s, "quiet")  BY <3>1 DEF OpDetaches, Running
      <4> QED  BY <4>1, FinishedOp DEF SchedulerTypeOK, Results
    <3>2. CASE OpWorks(s)
      <4>1. op[s].stage = "run" /\ \E r \in Results : Finished(s, r)
        BY <3>2 DEF OpWorks, Running, Results
      <4> QED  BY <4>1, FinishedOp DEF SchedulerTypeOK
    <3>3. CASE FollowUp(s)
      BY <3>3, Restaged DEF SchedulerTypeOK, FollowUp, Stages
    <3>4. CASE ReleaseLane(s)
      BY <3>4, Restaged DEF SchedulerTypeOK, ReleaseLane, Stages
    <3> QED  BY <1>1, <3>1, <3>2, <3>3, <3>4
  <2> QED  BY <2>1 DEF KickComes
<1>2. CASE ReleaseSlot(s)
  BY <1>2 DEF ReleaseSlot, KickComes
<1>3. CASE Kick(s)
  BY <1>3 DEF Kick, KickComes
<1> QED  BY <1>1, <1>2, <1>3 DEF Operation

\* The same of a verb, once it has taken the lane.
LEMMA VerbKicks ==
    ASSUME SchedulerTypeOK, NEW c \in Conns, ControlBegin(c) \/ ControlVerb(c), KickComes PROVE KickComes'
<1>1. CASE \/ ControlTake(c) \/ ControlWorks(c) \/ Register(c) \/ Collect(c)
           \/ ControlReleases(c)
  <2>1. control'[c] \in {"hold", "lane", "kick"}
    BY <1>1 DEF SchedulerTypeOK, ControlTake, ControlWorks, Register, Collect, ControlReleases
  <2> QED  BY <2>1 DEF KickComes
<1>2. CASE ControlKick(c)
  BY <1>2 DEF ControlKick, KickComes
<1>3. CASE ControlBegin(c) \/ ControlGivesUp(c)
  <2>1. /\ UNCHANGED <<kick, op, kicking, writer>>
        /\ \A d \in Conns : control[d] \in {"hold", "lane", "kick"} => control'[d] = control[d]
    BY <1>3 DEF SchedulerTypeOK, ControlBegin, ControlGivesUp, opVars, inboxVars
  <2> QED  BY <2>1 DEF KickComes
<1> QED  BY <1>1, <1>2, <1>3 DEF ControlVerb

LEMMA WriterKicks ==
    ASSUME SchedulerTypeOK, NEW c \in Conns, Arrive(c) \/ WakeMark(c) \/ WakeKick(c), KickComes
    PROVE  KickComes'
<1>1. CASE Arrive(c)
  <2>1. /\ UNCHANGED <<kick, op, kicking, control>>
        /\ \A d \in Conns : writer[d] = "kick" => writer'[d] = "kick"
    BY <1>1 DEF SchedulerTypeOK, Arrive, opVars, verbVars
  <2> QED  BY <2>1 DEF KickComes
<1>2. CASE WakeMark(c)
  <2>1. writer'[c] = "kick"  BY <1>2 DEF SchedulerTypeOK, WakeMark
  <2> QED  BY <2>1 DEF KickComes
<1>3. CASE WakeKick(c)
  BY <1>3 DEF WakeKick, KickComes
<1> QED  BY <1>1, <1>2, <1>3

\* Only a held lane or a taken slot makes beginOperation refuse.
LEMMA RefusedIsCovered ==
    ASSUME SchedulerTypeOK, Lanes, Slots # {}, BeginRefused PROVE KickComes
<1>1. PICK c \in Conns : lane[c] # "free" \/ SlotsFull
  BY DEF BeginRefused
<1>2. CASE lane[c] # "free"
  <2>1. lane[c] = "op" \/ lane[c] = "control"  BY <1>2 DEF SchedulerTypeOK
  <2>2. CASE lane[c] = "op"
    BY <2>2, FreeStage DEF Lanes, LanesHeld, WorkedOnBy, KickComes
  <2>3. CASE lane[c] = "control"
    BY <2>3 DEF Lanes, LanesHeld, WorkedOnByVerb, KickComes
  <2> QED  BY <2>1, <2>2, <2>3
<1>3. CASE SlotsFull
  BY <1>3 DEF SlotsFull, KickComes
<1> QED  BY <1>1, <1>2, <1>3

\* A step of anybody but the loop.
LEMMA CoveredKept ==
    ASSUME Covered, at' = at, todo' = todo, KickComes => KickComes',
           ready' \subseteq ready \/ KickComes'
    PROVE  Covered'
<1> DEFINE K == KickComes'
<1>1. K <=> KickComes'  OBVIOUS
<1> QED  BY DEF Covered

LEMMA CoveredLoop ==
    ASSUME SchedulerTypeOK, Lanes, Covered, Slots # {}, Loop PROVE Covered'
<1>1. ASSUME op' = op, kicking' = kicking, control' = control, writer' = writer, kick' = kick
      PROVE  KickComes' = KickComes
  BY <1>1 DEF KickComes
<1>2. CASE DispatchReady
  BY <1>2 DEF DispatchReady, Covered
<1>3. CASE TakeReady
  BY <1>1, <1>3 DEF TakeReady, Covered, others, opVars, verbVars, inboxVars, listVars
<1>4. CASE BeginReady
  <2>1. PICK c \in Conns, s \in Slots : Begin(c, s)  BY <1>4 DEF BeginReady
  <2>2. KickComes'  BY <2>1, BegunOp DEF KickComes
  <2> QED  BY <2>2 DEF Covered
<1>5. CASE BeginRefused
  BY <1>1, <1>5, RefusedIsCovered DEF BeginRefused, Covered, others, opVars, verbVars,
     inboxVars
<1>6. CASE PutBack
  BY <1>1, <1>6 DEF PutBack, Covered, others, opVars, verbVars, inboxVars
<1>7. CASE StartSweep
  BY <1>1, <1>7 DEF StartSweep, Covered, others, opVars, verbVars, inboxVars
<1>8. CASE SweepVisit
  <2>1. PICK c \in Conns :
          (\E s \in Slots : Begin(c, s)) \/ UNCHANGED <<lane, dropping, opVars>>
    BY <1>8 DEF SweepVisit, SchedulerTypeOK
  <2>2. CASE \E s \in Slots : Begin(c, s)
    <3>1. KickComes'  BY <2>2, BegunOp DEF KickComes
    <3> QED  BY <3>1 DEF Covered
  <2>3. CASE UNCHANGED <<lane, dropping, opVars>>
    BY <1>1, <1>8, <2>3 DEF SweepVisit, Covered, others, opVars, verbVars, inboxVars
  <2> QED  BY <2>1, <2>2, <2>3
<1>9. CASE SweepEnds
  BY <1>1, <1>9 DEF SweepEnds, Covered, others, opVars, verbVars, inboxVars
<1>10. CASE DropDone
  BY <1>1, <1>10 DEF DropDone, Covered, others, opVars, verbVars, inboxVars
<1> QED  BY <1>2, <1>3, <1>4, <1>5, <1>6, <1>7, <1>8, <1>9, <1>10 DEF Loop

LEMMA CoveredNext ==
    ASSUME SchedulerTypeOK, Lanes, Covered, Slots # {}, [SchedulerNext]_schedulerVars PROVE Covered'
<1>1. CASE UNCHANGED schedulerVars
  BY <1>1, CoveredKept DEF schedulerVars, opVars, verbVars, inboxVars, loopVars, listVars, KickComes
<1>2. ASSUME NEW c \in Conns, Arrive(c) \/ WakeMark(c) \/ WakeKick(c) PROVE Covered'
  <2>1. at' = at /\ todo' = todo
    BY <1>2 DEF Arrive, WakeMark, WakeKick, loopVars, listVars
  <2>2. ready' \subseteq ready \/ KickComes'
    <3>1. CASE WakeMark(c)
      <4>1. writer'[c] = "kick"  BY <3>1 DEF SchedulerTypeOK, WakeMark
      <4> QED  BY <4>1 DEF KickComes
    <3> QED  BY <1>2, <3>1 DEF Arrive, WakeKick
  <2> QED  BY <1>2, <2>1, <2>2, WriterKicks, CoveredKept
<1>3. ASSUME NEW c \in Conns, FollowUpComesDue(c) \/ RetryElapses(c) PROVE Covered'
  <2>1. UNCHANGED <<at, todo, ready, kick, op, kicking, control, writer>>
    BY <1>3 DEF FollowUpComesDue, RetryElapses, others, loopVars, listVars, opVars, verbVars,
                inboxVars
  <2> QED  BY <2>1, CoveredKept DEF KickComes
<1>4. ASSUME NEW c \in Conns, ControlBegin(c) \/ ControlVerb(c) PROVE Covered'
  <2>1. at' = at /\ todo' = todo
    BY <1>4 DEF ControlBegin, ControlVerb, ControlTake, ControlGivesUp, ControlWorks, Register,
                Collect, ControlReleases, ControlKick, loopVars, listVars
  <2>2. ready' \subseteq ready \/ KickComes'
    <3>1. CASE ControlWorks(c) \/ Register(c)
      <4>1. control'[c] = "lane"  BY <3>1 DEF SchedulerTypeOK, ControlWorks, Register
      <4> QED  BY <4>1 DEF KickComes
    <3>2. CASE ~(ControlWorks(c) \/ Register(c))
      BY <1>4, <3>2 DEF ControlBegin, ControlVerb, ControlTake, ControlGivesUp, Collect,
                        ControlReleases, ControlKick
    <3> QED  BY <3>1, <3>2
  <2> QED  BY <1>4, <2>1, <2>2, VerbKicks, CoveredKept
<1>5. ASSUME NEW s \in Slots, Operation(s) PROVE Covered'
  <2>1. at' = at /\ todo' = todo
    BY <1>5 DEF Operation, OpDetaches, OpWorks, FollowUp, ReleaseLane, ReleaseSlot, Kick,
                loopVars, listVars
  <2> QED  BY <1>5, <2>1, OperationKicks, CoveredKept
<1>6. CASE Tick \/ TakeKick \/ DueTimer \/ StopLoop
  BY <1>6 DEF Tick, TakeKick, DueTimer, StopLoop, Covered
<1>7. CASE Close \/ Exit
  BY <1>7, CoveredKept DEF Close, Exit, opVars, verbVars, inboxVars, loopVars, listVars,
                           KickComes
<1> QED  BY <1>1, <1>2, <1>3, <1>4, <1>5, <1>6, <1>7, CoveredLoop DEF SchedulerNext, Shutdown

-----------------------------------------------------------------------------
(* Shutdown. *)

LEMMA StoppedNext ==
    ASSUME SchedulerTypeOK, Stopped, [SchedulerNext]_schedulerVars PROVE Stopped'
<1>1. ASSUME phase' = phase, phase = "running" PROVE Stopped'
  BY <1>1 DEF Stopped
<1>2. ASSUME UNCHANGED <<phase, at, op, kicking, control>> PROVE Stopped'
  BY <1>2 DEF Stopped, Idle
<1>3. CASE UNCHANGED schedulerVars
  BY <1>2, <1>3 DEF schedulerVars, loopVars, opVars, verbVars
<1>4. ASSUME NEW c \in Conns,
             \/ Arrive(c) \/ WakeMark(c) \/ WakeKick(c)
             \/ FollowUpComesDue(c) \/ RetryElapses(c)
      PROVE  Stopped'
  BY <1>2, <1>4 DEF Arrive, WakeMark, WakeKick, FollowUpComesDue, RetryElapses, others,
                    loopVars, opVars, verbVars
<1>5. CASE Loop \/ Tick \/ TakeKick \/ DueTimer \/ StopLoop
  <2>1. phase' = phase
    BY <1>5 DEF Loop, DispatchReady, TakeReady, BeginReady, BeginRefused, PutBack, StartSweep,
                SweepVisit, SweepEnds, DropDone, Tick, TakeKick, DueTimer, StopLoop, others
  <2>2. CASE DropDone
    BY <1>2, <2>2 DEF DropDone, others, passVars, opVars, verbVars
  <2>3. CASE ~DropDone
    <3>1. at # "stopped"
      BY <1>5, <2>3 DEF Loop, DispatchReady, TakeReady, BeginReady, BeginRefused, PutBack,
                        StartSweep, SweepVisit, SweepEnds, Tick, TakeKick, DueTimer, StopLoop
    <3> QED  BY <1>1, <2>1, <3>1 DEF Stopped
  <2> QED  BY <2>2, <2>3
<1>6. ASSUME NEW s \in Slots, Operation(s) PROVE Stopped'
  <2>1. phase' = phase /\ at' = at
    BY <1>6 DEF Operation, OpDetaches, OpWorks, FollowUp, ReleaseLane, ReleaseSlot, Kick,
                others, loopVars
  <2>2. ~Idle
    BY <1>6, FreeStage DEF Idle, Operation, OpDetaches, OpWorks, FollowUp, ReleaseLane,
                           ReleaseSlot, Kick, Running
  <2> QED  BY <2>1, <2>2 DEF Stopped
<1>7. ASSUME NEW c \in Conns, ControlBegin(c) \/ ControlVerb(c) PROVE Stopped'
  <2>1. phase' = phase /\ at' = at
    BY <1>7 DEF ControlBegin, ControlVerb, ControlTake, ControlGivesUp, ControlWorks, Register,
                Collect, ControlReleases, ControlKick, loopVars
  <2>2. phase = "running" \/ ~Idle
    BY <1>7 DEF ControlBegin, ControlVerb, ControlTake, ControlGivesUp, ControlWorks, Register,
                Collect, ControlReleases, ControlKick, Idle
  <2> QED  BY <2>1, <2>2 DEF Stopped
<1>8. CASE Close \/ Exit
  <2>1. at = "stopped" /\ at' = at
    BY <1>8 DEF Close, Exit, Stopped, loopVars
  <2>2. phase' = "exited" => Idle /\ UNCHANGED <<op, kicking, control>>
    BY <1>8 DEF Close, Exit, opVars, verbVars
  <2> QED  BY <2>1, <2>2 DEF Stopped, Idle
<1> QED  BY <1>3, <1>4, <1>5, <1>6, <1>7, <1>8 DEF SchedulerNext, Shutdown

-----------------------------------------------------------------------------
(* The theorems. *)

\* SchedulerIInv is inductive: it holds initially and every step keeps it.
THEOREM SchedulerInvariance == Slots # {} => (SchedulerSpec => []SchedulerIInv)
<1> SUFFICES ASSUME Slots # {} PROVE SchedulerSpec => []SchedulerIInv  OBVIOUS
<1>1. SchedulerInit => SchedulerIInv
  <2> SUFFICES ASSUME SchedulerInit PROVE SchedulerIInv  OBVIOUS
  <2>1. SchedulerTypeOK  BY TypeInit
  <2>2. LanesHeld /\ LaneExclusion
    BY FreeStage DEF SchedulerInit, Start, LanesHeld, LaneExclusion, WorkedOnBy, WorkedOnByVerb
  <2>3. Covered /\ Stopped  BY DEF SchedulerInit, Start, Covered, Stopped
  <2> QED  BY <2>1, <2>2, <2>3 DEF SchedulerIInv
<1>2. SchedulerIInv /\ [SchedulerNext]_schedulerVars => SchedulerIInv'
  BY TypeNext, LanesNext, CoveredNext, StoppedNext DEF SchedulerIInv, Lanes
<1> QED  BY <1>1, <1>2, PTL DEF SchedulerSpec

\* No two goroutines ever work on one connection's record: not two operations,
\* and not an operation and a control verb, collection included.
THEOREM LanesExclude == Slots # {} => (SchedulerSpec => []LaneExclusion)
<1>1. SchedulerIInv => LaneExclusion  BY DEF SchedulerIInv
<1> QED  BY <1>1, SchedulerInvariance, PTL

\* A wake, an acceptance or a due follow-up is never left in the ready set with
\* no kick in the channel and nobody who will still send one.
THEOREM NoWakeIsLost == Slots # {} => (SchedulerSpec => []NoLostWake)
<1>1. SchedulerIInv => NoLostWake  BY DEF SchedulerIInv, Covered, NoLostWake
<1> QED  BY <1>1, SchedulerInvariance, PTL

\* When shutdown's wait for the workers returns, nothing is under way and
\* nothing begins any more.
THEOREM ShutdownWaits == Slots # {} => (SchedulerSpec => []CleanExit)
<1>1. SchedulerIInv => CleanExit  BY DEF SchedulerIInv, Stopped, CleanExit
<1> QED  BY <1>1, SchedulerInvariance, PTL

\* The variables keep their types, whatever the number of IDs and slots.
THEOREM SchedulerTypeCorrect == Slots # {} => (SchedulerSpec => []SchedulerTypeOK)
<1>1. SchedulerIInv => SchedulerTypeOK  BY DEF SchedulerIInv
<1> QED  BY <1>1, SchedulerInvariance, PTL

(***************************************************************************)
(* Delivery: the invariant says of each of the two copies of the record,   *)
(* memory's and the file's, what the harness can hold beyond its cursor:   *)
(* at most the one line it keeps pending.                                  *)
(***************************************************************************)

Accounts(r) == r.offset = r.accepted + Cardinality(r.abandoned)

\* Record r is a true account of n inbox lines, writes w and copies c.
RecordOK(r, n, w, c) ==
    /\ r.offset <= n
    /\ r.pending # "none" => r.offset < n
    /\ r.accepted <= r.offset
    /\ \A l \in Lines : l <= r.offset => c[l] > 0 \/ l \in r.abandoned
    /\ \A l \in Lines : l > r.offset + 1 => w[l] = 0 /\ c[l] = 0
    /\ r.pending = "none" => \A l \in Lines : l > r.offset => w[l] = 0 /\ c[l] = 0
    /\ r.pending = "acked" => c[r.offset + 1] > 0
    /\ \A l \in r.abandoned : l <= r.offset
    /\ Accounts(r)

\* Record s is r, or has resolved one more line than r.
Near(r, s) ==
    \/ s.offset = r.offset /\ s.abandoned = r.abandoned
    \/ /\ s.offset = r.offset + 1
       /\ s.abandoned \in {r.abandoned, r.abandoned \cup {r.offset + 1}}

\* Record r accounts for the present world, and for at most one line more
\* than memory's.
Successor(r) ==
    /\ r \in Journal
    /\ RecordOK(r, inbox, wire, copies)
    /\ Near(mem, r)

\* Inside deliver the lane and the peer lock are held, and the attempt is in
\* the file before it can reach the harness.
InDeliver ==
    /\ pc # "idle" => Owned /\ mem.state = "submitting" /\ mem.pending # "none"
    /\ pc \in {"submit", "written"} => disk = mem
    /\ pc = "submit" => wire[Head(mem)] = 0 /\ copies[Head(mem)] = 0
    /\ pc = "acked" => mem.pending = "acked"

FenceHolds == fenced => Disconnected /\ disk.state = "disconnected"

IInv ==
    /\ TypeOK
    /\ RecordOK(mem, inbox, wire, copies)
    /\ RecordOK(disk, inbox, wire, copies)
    /\ Near(mem, disk)
    /\ AtMostOnce
    /\ NoOvertaking
    /\ InDeliver
    /\ FenceHolds

-----------------------------------------------------------------------------
(* The record's transitions keep it a true account. *)

LEMMA LinesFinite == IsFiniteSet(Lines)
  BY FS_Interval, BoundsAssumption DEF Lines

\* A cursor that passed one resolved line, with nothing pending.
LEMMA AdvancedOK ==
    ASSUME NEW r \in Journal, NEW s \in Journal, NEW n \in 0 .. MaxLines,
           NEW w, NEW c,
           RecordOK(r, n, w, c), r.pending # "none",
           s.offset = r.offset + 1, s.pending = "none", s.accepted <= s.offset,
           Accounts(s),
           r.abandoned \subseteq s.abandoned,
           \A l \in s.abandoned : l \in r.abandoned \/ l = r.offset + 1,
           c[r.offset + 1] > 0 \/ r.offset + 1 \in s.abandoned
    PROVE  RecordOK(s, n, w, c)
<1>1. r.offset \in Nat /\ n \in Nat /\ r.offset < n
  BY BoundsAssumption DEF Journal, RecordOK
<1>2. s.abandoned \in SUBSET Lines /\ Lines \subseteq Nat
  BY BoundsAssumption DEF Journal, Lines
<1>3. \A l \in Lines : l <= s.offset => c[l] > 0 \/ l \in s.abandoned
  <2> SUFFICES ASSUME NEW l \in Lines, l <= r.offset + 1
               PROVE  c[l] > 0 \/ l \in s.abandoned
    OBVIOUS
  <2>1. CASE l = r.offset + 1
    BY <2>1
  <2>2. CASE l <= r.offset
    BY <2>2 DEF RecordOK
  <2> QED
    BY <1>1, <1>2, <2>1, <2>2
<1>4. \A l \in Lines : l > s.offset => w[l] = 0 /\ c[l] = 0
  BY <1>1, <1>2 DEF RecordOK
<1>5. \A l \in s.abandoned : l <= s.offset
  <2> SUFFICES ASSUME NEW l \in s.abandoned PROVE l <= r.offset + 1
    OBVIOUS
  <2>1. l \in r.abandoned => l <= r.offset
    BY DEF RecordOK
  <2>2. l \in Nat
    BY <1>2
  <2> QED
    BY <1>1, <2>1, <2>2
<1>6. \A l \in Lines : l > s.offset + 1 => w[l] = 0 /\ c[l] = 0
  <2> SUFFICES ASSUME NEW l \in Lines, l > s.offset + 1
               PROVE  w[l] = 0 /\ c[l] = 0
    OBVIOUS
  <2>1. l \in Nat /\ s.offset \in Nat
    BY <1>1, <1>2
  <2>2. l > s.offset
    BY <2>1
  <2> QED
    BY <1>4, <2>2
<1>7. s.offset <= n
  BY <1>1
<1> QED
  BY <1>3, <1>4, <1>5, <1>6, <1>7 DEF RecordOK

LEMMA SettledOK ==
    ASSUME NEW r \in Journal, NEW n \in 0 .. MaxLines,
           NEW w \in [Lines -> Nat], NEW c \in [Lines -> Nat],
           RecordOK(r, n, w, c), r.pending # "none", c[r.offset + 1] > 0
    PROVE  /\ Settled(r) \in Journal
           /\ RecordOK(Settled(r), n, w, c)
           /\ Settled(r).offset = r.offset + 1
           /\ Settled(r).abandoned = r.abandoned
<1>1. /\ r.offset \in 0 .. MaxLines /\ r.accepted \in 0 .. MaxLines
      /\ r.abandoned \in SUBSET Lines
  BY DEF Journal
<1>2. /\ Settled(r).offset = r.offset + 1 /\ Settled(r).accepted = r.accepted + 1
      /\ Settled(r).abandoned = r.abandoned /\ Settled(r).pending = "none"
  <2>1. Settled(r).offset = r.offset + 1
    BY DEF Settled, Journal
  <2>2. Settled(r).accepted = r.accepted + 1
    BY DEF Settled, Journal
  <2>3. Settled(r).abandoned = r.abandoned
    BY DEF Settled, Journal
  <2>4. Settled(r).pending = "none"
    BY DEF Settled, Journal
  <2> QED
    BY <2>1, <2>2, <2>3, <2>4
<1>3. Settled(r) \in Journal
  <2>1. r.offset + 1 \in 0 .. MaxLines /\ r.accepted + 1 \in 0 .. MaxLines
    BY <1>1, BoundsAssumption DEF RecordOK
  <2>2. \A s \in States : [r EXCEPT !.offset = r.offset + 1,
             !.accepted = r.accepted + 1, !.pending = "none", !.state = s] \in Journal
    BY <2>1 DEF Journal, Attempts
  <2>3. (IF r.state = "disconnected" THEN r.state ELSE "ready") \in States
    BY DEF States
  <2> QED
    BY <2>2, <2>3 DEF Settled
<1>4. IsFiniteSet(r.abandoned)
  BY <1>1, LinesFinite, FS_Subset
<1>5. Cardinality(r.abandoned) \in Nat
  BY <1>4, FS_CardinalityType
<1>6. Accounts(Settled(r))
  BY <1>1, <1>2, <1>5 DEF Accounts, RecordOK
<1>7. c[r.offset + 1] > 0 \/ r.offset + 1 \in r.abandoned
  OBVIOUS
<1>8. RecordOK(Settled(r), n, w, c)
  BY <1>1, <1>2, <1>3, <1>6, <1>7, AdvancedOK DEF RecordOK
<1> QED
  BY <1>2, <1>3, <1>8

LEMMA GivenUpOK ==
    ASSUME NEW r \in Journal, NEW n \in 0 .. MaxLines,
           NEW w \in [Lines -> Nat], NEW c \in [Lines -> Nat],
           RecordOK(r, n, w, c), r.pending # "none"
    PROVE  /\ GivenUp(r) \in Journal
           /\ RecordOK(GivenUp(r), n, w, c)
           /\ GivenUp(r).offset = r.offset + 1
           /\ GivenUp(r).abandoned = r.abandoned \cup {r.offset + 1}
<1>1. /\ r.offset \in 0 .. MaxLines /\ r.accepted \in 0 .. MaxLines
      /\ r.abandoned \in SUBSET Lines
  BY DEF Journal
<1>2. /\ GivenUp(r).offset = r.offset + 1 /\ GivenUp(r).accepted = r.accepted
      /\ GivenUp(r).abandoned = r.abandoned \cup {r.offset + 1}
      /\ GivenUp(r).pending = "none"
  <2>1. GivenUp(r).offset = r.offset + 1
    BY DEF GivenUp, Journal
  <2>2. GivenUp(r).accepted = r.accepted
    BY DEF GivenUp, Journal
  <2>3. GivenUp(r).abandoned = r.abandoned \cup {r.offset + 1}
    BY DEF GivenUp, Journal, Head
  <2>4. GivenUp(r).pending = "none"
    BY DEF GivenUp, Journal
  <2> QED
    BY <2>1, <2>2, <2>3, <2>4
<1>3. r.offset + 1 \in Lines
  BY <1>1, BoundsAssumption DEF RecordOK, Lines
<1>4. GivenUp(r) \in Journal
  <2>1. r.offset + 1 \in 0 .. MaxLines
    BY <1>3, BoundsAssumption DEF Lines
  <2>2. r.abandoned \cup {r.offset + 1} \in SUBSET Lines
    BY <1>1, <1>3
  <2>3. \A s \in States : [r EXCEPT !.offset = r.offset + 1,
             !.abandoned = r.abandoned \cup {r.offset + 1},
             !.pending = "none", !.state = s] \in Journal
    BY <2>1, <2>2 DEF Journal, Attempts
  <2>4. (IF r.state = "disconnected" THEN r.state ELSE "ready") \in States
    BY DEF States
  <2> QED
    BY <2>3, <2>4 DEF GivenUp, Head
<1>5. IsFiniteSet(r.abandoned)
  BY <1>1, LinesFinite, FS_Subset
<1>6. r.offset + 1 \notin r.abandoned
  BY <1>1 DEF RecordOK, Lines
<1>7. Cardinality(r.abandoned \cup {r.offset + 1}) = Cardinality(r.abandoned) + 1
  BY <1>5, <1>6, FS_AddElement
<1>8. Cardinality(r.abandoned) \in Nat
  BY <1>5, FS_CardinalityType
<1>9. Accounts(GivenUp(r))
  BY <1>1, <1>2, <1>7, <1>8 DEF Accounts, RecordOK
<1>10. RecordOK(GivenUp(r), n, w, c)
  BY <1>1, <1>2, <1>4, <1>9, AdvancedOK DEF RecordOK
<1> QED
  BY <1>2, <1>4, <1>10

\* Transitions that change only the state or the attempt's evidence.
LEMMA SameCursorOK ==
    ASSUME NEW r \in Journal, NEW s \in Journal, NEW n, NEW w, NEW c,
           RecordOK(r, n, w, c),
           s.offset = r.offset, s.accepted = r.accepted,
           s.abandoned = r.abandoned,
           s.pending # "none" => r.offset < n,
           s.pending = "none" => r.pending = "none"
              \/ \A l \in Lines : l > r.offset => w[l] = 0 /\ c[l] = 0,
           s.pending = "acked" => c[r.offset + 1] > 0
    PROVE  RecordOK(s, n, w, c)
  BY DEF RecordOK, Accounts

LEMMA FailedOK ==
    ASSUME NEW r \in Journal, NEW n, NEW w, NEW c, RecordOK(r, n, w, c)
    PROVE  /\ Failed(r) \in Journal
           /\ RecordOK(Failed(r), n, w, c)
           /\ Failed(r).offset = r.offset
           /\ Failed(r).abandoned = r.abandoned
           /\ Failed(r).pending = r.pending
<1>1. Failed(r) \in Journal
  BY DEF Failed, Journal, States
<1>2. /\ Failed(r).offset = r.offset /\ Failed(r).accepted = r.accepted
      /\ Failed(r).abandoned = r.abandoned /\ Failed(r).pending = r.pending
  <2>1. Failed(r).offset = r.offset
    BY DEF Failed, Journal
  <2>2. Failed(r).accepted = r.accepted
    BY DEF Failed, Journal
  <2>3. Failed(r).abandoned = r.abandoned
    BY DEF Failed, Journal
  <2>4. Failed(r).pending = r.pending
    BY DEF Failed, Journal
  <2> QED
    BY <2>1, <2>2, <2>3, <2>4
<1>3. RecordOK(Failed(r), n, w, c)
  BY <1>1, <1>2 DEF RecordOK, Accounts
<1> QED
  BY <1>1, <1>2, <1>3

LEMMA NearSame ==
    ASSUME NEW r, NEW s, s.offset = r.offset, s.abandoned = r.abandoned
    PROVE  /\ Near(r, s)
           /\ \A t : Near(r, t) => Near(s, t)
  BY DEF Near

-----------------------------------------------------------------------------
(* What every journal save leaves behind, whichever way it goes. *)

LEMMA RecordsAreSuccessors ==
    ASSUME IInv
    PROVE  Successor(mem) /\ Successor(disk)
<1>1. Near(mem, mem)
  BY NearSame
<1> QED
  BY <1>1 DEF IInv, TypeOK, Successor

LEMMA SaveOutcome ==
    ASSUME IInv, NEW rec, NEW kept, Successor(rec), Successor(kept),
           kept.offset = mem.offset, kept.abandoned = mem.abandoned,
           Saved(rec) \/ SaveFails(rec, kept) \/ PassSaveFails(rec, kept)
    PROVE  /\ Successor(mem') /\ Successor(disk')
           /\ Near(mem', disk')
           /\ faults' \in 0 .. MaxFaults
<1>1. Successor(mem) /\ Successor(disk)
  BY RecordsAreSuccessors
<1>2. faults' \in 0 .. MaxFaults
  BY BoundsAssumption DEF IInv, TypeOK, Saved, SaveFails, PassSaveFails, Fault
<1>3. Failed(kept).offset = kept.offset /\ Failed(kept).abandoned = kept.abandoned
  BY FailedOK DEF Successor
<1>4. Successor(Failed(kept))
  <2>1. Near(mem, Failed(kept))
    BY <1>3 DEF Near
  <2> QED
    BY FailedOK, <2>1 DEF Successor
<1>5. Near(rec, rec)
  BY NearSame
<1>6. CASE Saved(rec)
  BY <1>2, <1>5, <1>6 DEF Saved
<1>7. CASE SaveFails(rec, kept)
  <2>1. mem' = kept /\ disk' \in {disk, rec}
    BY <1>7 DEF SaveFails
  <2>2. Near(kept, disk')
    BY <1>1, <2>1, NearSame DEF Successor
  <2> QED
    BY <1>1, <1>2, <2>1, <2>2
<1>8. CASE PassSaveFails(rec, kept)
  <2>1. mem' = Failed(kept) /\ disk' \in {disk, rec, Failed(kept)}
    BY <1>8 DEF PassSaveFails
  <2>2. mem'.offset = mem.offset /\ mem'.abandoned = mem.abandoned
    BY <1>3, <2>1
  <2>3. Successor(disk')
    BY <1>1, <1>4, <2>1
  <2>4. Near(mem', disk')
    BY <2>2, <2>3, NearSame DEF Successor
  <2> QED
    BY <1>2, <1>4, <2>1, <2>3, <2>4
<1> QED
  BY <1>6, <1>7, <1>8

\* A pass that fails without a save of its own.
LEMMA FailOutcome ==
    ASSUME IInv, PassFails
    PROVE  /\ mem' \in Journal /\ disk' \in Journal
           /\ mem'.offset = mem.offset /\ mem'.abandoned = mem.abandoned
           /\ mem'.pending = mem.pending
           /\ disk' \in {disk, mem'} /\ mem' = Failed(mem)
           /\ faults' \in 0 .. MaxFaults /\ tickError' = TRUE
<1>1. RecordOK(mem, inbox, wire, copies) /\ mem \in Journal /\ disk \in Journal
  BY DEF IInv, TypeOK
<1>2. mem' = Failed(mem) /\ disk' \in {disk, Failed(mem)}
  BY DEF PassFails
<1>3. faults' \in 0 .. MaxFaults /\ tickError' = TRUE
  BY BoundsAssumption DEF PassFails, Fault, IInv, TypeOK
<1> QED
  BY <1>1, <1>2, <1>3, FailedOK

\* A step that leaves inbox and harness alone and both records successors.
LEMMA JournalStep ==
    ASSUME IInv, TypeOK', InDeliver', FenceHolds',
           UNCHANGED <<inbox, wire, copies>>,
           Successor(mem'), Successor(disk'),
           Near(mem', disk')
    PROVE  IInv' /\ Near(mem, mem')
<1>1. /\ RecordOK(mem', inbox', wire', copies')
      /\ RecordOK(disk', inbox', wire', copies')
  BY DEF Successor
<1>2. AtMostOnce'
  BY DEF IInv, AtMostOnce
<1>3. NoOvertaking'
  <2>1. mem.abandoned \subseteq mem'.abandoned /\ UNCHANGED <<wire, copies>>
    BY DEF Successor, Near
  <2> QED
    BY <2>1 DEF IInv, NoOvertaking
<1>4. Near(mem, mem')
  BY DEF Successor
<1> QED
  BY <1>1, <1>2, <1>3, <1>4 DEF IInv

\* A step that leaves both records and the attempt's stage alone.
LEMMA WorldStep ==
    ASSUME IInv, TypeOK', InDeliver', FenceHolds',
           UNCHANGED <<mem, disk>>,
           inbox <= inbox',
           \A l \in Lines : wire'[l] + copies'[l] <= wire[l] + copies[l],
           \A l \in Lines : copies[l] <= copies'[l]
    PROVE  IInv' /\ Near(mem, mem')
<1>1. /\ inbox \in Nat /\ inbox' \in Nat
      /\ \A l \in Lines : /\ wire[l] \in Nat /\ copies[l] \in Nat
                          /\ wire'[l] \in Nat /\ copies'[l] \in Nat
  BY BoundsAssumption DEF IInv, TypeOK
<1>2. ASSUME NEW r \in Journal, RecordOK(r, inbox, wire, copies)
      PROVE  RecordOK(r, inbox', wire', copies')
  <2>1. r.offset \in Nat
    BY BoundsAssumption DEF Journal
  <2>2. r.offset <= inbox' /\ (r.pending # "none" => r.offset < inbox')
    BY <1>1, <1>2, <2>1 DEF RecordOK
  <2>3. \A l \in Lines : l <= r.offset => copies'[l] > 0 \/ l \in r.abandoned
    BY <1>1, <1>2 DEF RecordOK
  <2>4. \A l \in Lines : wire[l] = 0 /\ copies[l] = 0 => wire'[l] = 0 /\ copies'[l] = 0
    BY <1>1
  <2>5. r.pending = "acked" => copies'[r.offset + 1] > 0
    <3> SUFFICES ASSUME r.pending = "acked" PROVE copies'[r.offset + 1] > 0
      OBVIOUS
    <3>1. r.offset + 1 \in Lines
      <4>1. r.offset < inbox /\ inbox <= MaxLines
        BY <1>2, BoundsAssumption DEF RecordOK, IInv, TypeOK
      <4> QED
        BY <4>1, <1>1, <2>1, BoundsAssumption DEF Lines
    <3>2. copies[r.offset + 1] > 0
      BY <1>2 DEF RecordOK
    <3> QED
      BY <1>1, <3>1, <3>2
  <2> QED
    BY <1>2, <2>2, <2>3, <2>4, <2>5 DEF RecordOK
<1>3. AtMostOnce'
  BY <1>1 DEF IInv, AtMostOnce
<1>4. NoOvertaking'
  <2> SUFFICES ASSUME NEW l \in Lines, wire'[l] + copies'[l] > 0,
                      NEW k \in 1 .. (l - 1)
               PROVE  copies'[k] > 0 \/ k \in mem.abandoned
    BY DEF NoOvertaking
  <2>1. wire[l] + copies[l] > 0
    BY <1>1
  <2>2. copies[k] > 0 \/ k \in mem.abandoned
    BY <2>1 DEF IInv, NoOvertaking
  <2>3. k \in Lines
    BY BoundsAssumption DEF Lines
  <2> QED
    BY <1>1, <2>2, <2>3
<1> QED
  BY <1>2, <1>3, <1>4, NearSame DEF IInv, TypeOK

-----------------------------------------------------------------------------
(* The world's steps. *)

LEMMA InitIInv == Init => IInv
<1> SUFFICES ASSUME Init PROVE IInv
  OBVIOUS
<1>1. FreshJournal \in Journal
  BY BoundsAssumption DEF FreshJournal, Journal, States, Attempts
<1>2. TypeOK
  <2>1. inbox \in 0 .. MaxLines /\ epoch \in 0 .. MaxEpochs /\ faults \in 0 .. MaxFaults
    BY BoundsAssumption DEF Init
  <2>2. mem \in Journal /\ disk \in Journal
    BY <1>1 DEF Init
  <2>3. wire \in [Lines -> Nat] /\ copies \in [Lines -> Nat]
    BY DEF Init
  <2> QED
    BY <2>1, <2>2, <2>3 DEF Init, TypeOK
<1>3. Accounts(FreshJournal)
  BY FS_EmptySet DEF Accounts, FreshJournal
<1>4. RecordOK(FreshJournal, inbox, wire, copies)
  BY <1>3, BoundsAssumption DEF Init, RecordOK, FreshJournal, Lines
<1>5. AtMostOnce /\ NoOvertaking
  BY DEF Init, AtMostOnce, NoOvertaking
<1>6. InDeliver /\ FenceHolds
  BY DEF Init, InDeliver, FenceHolds, Head
<1>7. Near(FreshJournal, FreshJournal)
  BY DEF Near
<1> QED
  BY <1>2, <1>4, <1>5, <1>6, <1>7 DEF IInv, Init

LEMMA WorldIInv == IInv /\ World => IInv' /\ Near(mem, mem')
<1> SUFFICES ASSUME IInv, World PROVE IInv' /\ Near(mem, mem')
  OBVIOUS
<1> USE DEF IInv
<1>1. CASE Append
  <2>1. TypeOK'
    BY <1>1, BoundsAssumption DEF Append, TypeOK
  <2>2. InDeliver' /\ FenceHolds'
    BY <1>1 DEF Append, InDeliver, FenceHolds, Disconnected, PeerLockFree
  <2>3. inbox <= inbox'
    BY <1>1, BoundsAssumption DEF Append, TypeOK
  <2>4. wire \in [Lines -> Nat] /\ copies \in [Lines -> Nat]
    BY DEF TypeOK
  <2>5. UNCHANGED <<mem, disk, wire, copies>>
    BY <1>1 DEF Append
  <2> QED
    BY <2>1, <2>2, <2>3, <2>4, <2>5, WorldStep
<1>2. CASE Unregister \/ Reclaim
  <2>1. TypeOK'
    BY <1>2 DEF Unregister, Reclaim, TypeOK
  <2>2. InDeliver' /\ FenceHolds'
    BY <1>2 DEF Unregister, Reclaim, InDeliver, FenceHolds, Disconnected, PeerLockFree
  <2>3. inbox \in Nat /\ wire \in [Lines -> Nat] /\ copies \in [Lines -> Nat]
    BY BoundsAssumption DEF TypeOK
  <2>4. UNCHANGED <<mem, disk, inbox, wire, copies>>
    BY <1>2 DEF Unregister, Reclaim
  <2> QED
    BY <2>1, <2>2, <2>3, <2>4, WorldStep
<1>3. ASSUME NEW l \in Lines, HarnessTake(l)
      PROVE  IInv' /\ Near(mem, mem')
  <2>1. wire[l] \in Nat /\ wire[l] > 0 /\ copies[l] \in Nat
    BY <1>3 DEF HarnessTake, TypeOK
  <2>2. TypeOK'
    BY <1>3, <2>1 DEF HarnessTake, TypeOK
  <2>3. \A k \in Lines : /\ wire'[k] + copies'[k] <= wire[k] + copies[k]
                         /\ copies[k] <= copies'[k]
    BY <1>3, <2>1 DEF HarnessTake, TypeOK
  <2>4. InDeliver' /\ FenceHolds'
    <3>1. pc = "submit" => l # Head(mem)
      BY <2>1 DEF InDeliver
    <3> QED
      BY <1>3, <3>1 DEF HarnessTake, InDeliver, FenceHolds, Disconnected, Owned, TypeOK, Head
  <2>5. UNCHANGED <<mem, disk, inbox>> /\ inbox <= inbox'
    BY <1>3, BoundsAssumption DEF HarnessTake, TypeOK
  <2> QED
    BY <2>2, <2>3, <2>4, <2>5, WorldStep
<1>4. ASSUME NEW l \in Lines, HarnessLose(l)
      PROVE  IInv' /\ Near(mem, mem')
  <2>1. wire[l] \in Nat /\ wire[l] > 0
    BY <1>4 DEF HarnessLose, TypeOK
  <2>2. TypeOK'
    BY <1>4, <2>1 DEF HarnessLose, TypeOK
  <2>3. \A k \in Lines : /\ wire'[k] + copies'[k] <= wire[k] + copies[k]
                         /\ copies[k] <= copies'[k]
    BY <1>4, <2>1 DEF HarnessLose, TypeOK
  <2>4. InDeliver' /\ FenceHolds'
    <3>1. pc = "submit" => l # Head(mem)
      BY <2>1 DEF InDeliver
    <3> QED
      BY <1>4, <3>1 DEF HarnessLose, InDeliver, FenceHolds, Disconnected, Owned, TypeOK, Head
  <2>5. UNCHANGED <<mem, disk, inbox>> /\ inbox <= inbox'
    BY <1>4, BoundsAssumption DEF HarnessLose, TypeOK
  <2> QED
    BY <2>2, <2>3, <2>4, <2>5, WorldStep
<1>5. CASE HarnessRestart
  <2>1. TypeOK'
    BY <1>5, BoundsAssumption DEF HarnessRestart, TypeOK
  <2>2. \A k \in Lines : /\ wire'[k] + copies'[k] <= wire[k] + copies[k]
                         /\ copies[k] <= copies'[k]
    BY <1>5 DEF HarnessRestart, TypeOK
  <2>3. InDeliver' /\ FenceHolds'
    <3>1. pc = "submit" => Head(mem) \in Lines
      BY BoundsAssumption DEF InDeliver, RecordOK, TypeOK, Journal, Head, Lines
    <3> QED
      BY <1>5, <3>1 DEF HarnessRestart, InDeliver, FenceHolds, Disconnected, Owned, TypeOK, Head
  <2>4. UNCHANGED <<mem, disk, inbox>> /\ inbox <= inbox'
    BY <1>5, BoundsAssumption DEF HarnessRestart, TypeOK
  <2> QED
    BY <2>1, <2>2, <2>3, <2>4, WorldStep
<1>6. CASE HarnessTurns
  <2>1. TypeOK'
    BY <1>6 DEF HarnessTurns, TypeOK
  <2>2. InDeliver' /\ FenceHolds'
    BY <1>6 DEF HarnessTurns, InDeliver, FenceHolds, Disconnected, Owned, Head
  <2>3. inbox \in Nat /\ wire \in [Lines -> Nat] /\ copies \in [Lines -> Nat]
    BY BoundsAssumption DEF TypeOK
  <2>4. UNCHANGED <<mem, disk, inbox, wire, copies>>
    BY <1>6 DEF HarnessTurns
  <2> QED
    BY <2>1, <2>2, <2>3, <2>4, WorldStep
<1>7. CASE ReceiptDeadline
  <2>1. TypeOK'
    BY <1>7 DEF ReceiptDeadline, TypeOK
  <2>2. InDeliver' /\ FenceHolds'
    BY <1>7 DEF ReceiptDeadline, InDeliver, FenceHolds, Disconnected, Owned, Head
  <2>3. inbox \in Nat /\ wire \in [Lines -> Nat] /\ copies \in [Lines -> Nat]
    BY BoundsAssumption DEF TypeOK
  <2>4. UNCHANGED <<mem, disk, inbox, wire, copies>>
    BY <1>7 DEF ReceiptDeadline
  <2> QED
    BY <2>1, <2>2, <2>3, <2>4, WorldStep
<1>8. CASE Crash
  <2>1. TypeOK'
    <3>1. faults' \in 0 .. MaxFaults
      BY <1>8, BoundsAssumption DEF Crash, Fault, TypeOK
    <3>2. mem' \in Journal /\ disk' \in Journal
      BY <1>8 DEF Crash, TypeOK
    <3> QED
      BY <1>8, <3>1, <3>2 DEF Crash, TypeOK
  <2>2. InDeliver' /\ FenceHolds'
    BY <1>8 DEF Crash, InDeliver, FenceHolds, Disconnected
  <2>3. Successor(disk)
    BY RecordsAreSuccessors
  <2>4. mem' = disk /\ disk' = disk /\ UNCHANGED <<inbox, wire, copies>>
    BY <1>8 DEF Crash
  <2>5. Near(disk, disk)
    BY NearSame
  <2> QED
    BY <2>1, <2>2, <2>3, <2>4, <2>5, JournalStep
<1>9. CASE Restart
  <2>1. TypeOK'
    BY <1>9 DEF Restart, TypeOK
  <2>2. InDeliver' /\ FenceHolds'
    BY <1>9 DEF Restart, InDeliver, FenceHolds, Disconnected, Owned, Head
  <2>3. inbox \in Nat /\ wire \in [Lines -> Nat] /\ copies \in [Lines -> Nat]
    BY BoundsAssumption DEF TypeOK
  <2>4. UNCHANGED <<mem, disk, inbox, wire, copies>>
    BY <1>9 DEF Restart
  <2> QED
    BY <2>1, <2>2, <2>3, <2>4, WorldStep
<1> QED
  BY <1>1, <1>2, <1>3, <1>4, <1>5, <1>6, <1>7, <1>8, <1>9 DEF World

-----------------------------------------------------------------------------
(* The scheduled pass. *)

\* A record that differs from memory's in state and evidence only.
LEMMA RestatedOK ==
    ASSUME IInv, NEW r \in Journal,
           r.offset = mem.offset, r.accepted = mem.accepted,
           r.abandoned = mem.abandoned,
           r.pending # "none" => mem.offset < inbox,
           r.pending = "none" => mem.pending = "none"
              \/ \A l \in Lines : l > mem.offset => wire[l] = 0 /\ copies[l] = 0,
           r.pending = "acked" => copies[mem.offset + 1] > 0
    PROVE  Successor(r)
<1>1. mem \in Journal /\ RecordOK(mem, inbox, wire, copies)
  BY DEF IInv, TypeOK
<1>2. RecordOK(r, inbox, wire, copies)
  BY <1>1, SameCursorOK
<1> QED
  BY <1>2, NearSame DEF Successor

LEMMA RestateOK ==
    ASSUME IInv, NEW st \in States
    PROVE  LET r == [mem EXCEPT !.state = st] IN
           /\ Successor(r) /\ r.offset = mem.offset
           /\ r.abandoned = mem.abandoned /\ r.state = st
<1> DEFINE r == [mem EXCEPT !.state = st]
<1>1. mem \in Journal /\ RecordOK(mem, inbox, wire, copies)
  BY DEF IInv, TypeOK
<1>2. r \in Journal
  BY <1>1 DEF Journal
<1>3. r.offset = mem.offset /\ r.accepted = mem.accepted
      /\ r.abandoned = mem.abandoned /\ r.pending = mem.pending /\ r.state = st
  BY <1>1 DEF Journal
<1>4. r.pending # "none" => mem.offset < inbox
  BY <1>1, <1>3 DEF RecordOK
<1>5. r.pending = "acked" => copies[mem.offset + 1] > 0
  BY <1>1, <1>3 DEF RecordOK
<1> HIDE DEF r
<1>6. Successor(r)
  BY <1>2, <1>3, <1>4, <1>5, RestatedOK
<1> QED
  BY <1>3, <1>6 DEF r

\* The attempt's stage changes too, without a new line in play.
LEMMA RestageOK ==
    ASSUME IInv, NEW st \in States, NEW p \in Attempts \ {"none"},
           mem.offset < inbox, p = "acked" => copies[mem.offset + 1] > 0
    PROVE  /\ Successor([mem EXCEPT !.state = st, !.pending = p])
           /\ Successor([mem EXCEPT !.pending = p])
           /\ Successor([mem EXCEPT !.pending = p, !.state = st])
<1>1. mem \in Journal
  BY DEF IInv, TypeOK
<1>2. ASSUME NEW r \in Journal, r.pending = p, r.offset = mem.offset,
             r.accepted = mem.accepted, r.abandoned = mem.abandoned
      PROVE  Successor(r)
  BY <1>2, RestatedOK
<1>3. Successor([mem EXCEPT !.pending = p])
  <2>1. [mem EXCEPT !.pending = p] \in Journal
    BY <1>1 DEF Journal
  <2> QED
    BY <1>1, <1>2, <2>1 DEF Journal
<1>4. Successor([mem EXCEPT !.state = st, !.pending = p])
  <2>1. [mem EXCEPT !.state = st, !.pending = p] \in Journal
    BY <1>1 DEF Journal
  <2> QED
    BY <1>1, <1>2, <2>1 DEF Journal
<1>5. Successor([mem EXCEPT !.pending = p, !.state = st])
  <2>1. [mem EXCEPT !.pending = p, !.state = st] \in Journal
    BY <1>1 DEF Journal
  <2> QED
    BY <1>1, <1>2, <2>1 DEF Journal
<1> QED
  BY <1>3, <1>4, <1>5

\* The record a settled attempt leaves.
LEMMA SettledSuccessor ==
    ASSUME IInv, mem.pending # "none", copies[Head(mem)] > 0
    PROVE  Successor(Settled(mem))
<1>1. /\ mem \in Journal /\ RecordOK(mem, inbox, wire, copies)
      /\ inbox \in 0 .. MaxLines /\ wire \in [Lines -> Nat] /\ copies \in [Lines -> Nat]
  BY DEF IInv, TypeOK
<1>2. /\ Settled(mem) \in Journal /\ RecordOK(Settled(mem), inbox, wire, copies)
      /\ Settled(mem).offset = mem.offset + 1 /\ Settled(mem).abandoned = mem.abandoned
  BY <1>1, SettledOK DEF Head
<1>3. Near(mem, Settled(mem))
  BY <1>2 DEF Near
<1> QED
  BY <1>2, <1>3 DEF Successor

LEMMA MemIsSuccessor ==
    ASSUME IInv
    PROVE  Successor(mem) /\ mem.offset = mem.offset /\ mem.abandoned = mem.abandoned
  BY RecordsAreSuccessors

\* The types of what the daemon's own steps leave alone.
LEMMA DaemonTypes ==
    ASSUME TypeOK, UNCHANGED <<kind, inbox, reg, up, epoch, engaged>>,
           wire' \in [Lines -> Nat], copies' \in [Lines -> Nat],
           mem' \in Journal, disk' \in Journal,
           pc' \in {"idle", "submit", "acked", "written"},
           expired' \in BOOLEAN, fenced' \in BOOLEAN, tickError' \in BOOLEAN,
           faults' \in 0 .. MaxFaults
    PROVE  TypeOK'
  BY DEF TypeOK

\* One save of a daemon step that leaves inbox and harness alone.
LEMMA SavingStep ==
    ASSUME IInv, NEW rec, NEW kept, Successor(rec), Successor(kept),
           kept.offset = mem.offset, kept.abandoned = mem.abandoned,
           Saved(rec) \/ SaveFails(rec, kept) \/ PassSaveFails(rec, kept),
           UNCHANGED <<kind, inbox, reg, up, wire, copies, epoch, engaged>>,
           pc' \in {"idle", "submit", "acked", "written"},
           expired' \in BOOLEAN, fenced' \in BOOLEAN, tickError' \in BOOLEAN,
           InDeliver', FenceHolds'
    PROVE  IInv' /\ Near(mem, mem')
<1>1. /\ Successor(mem') /\ Successor(disk')
      /\ Near(mem', disk')
      /\ faults' \in 0 .. MaxFaults
  BY SaveOutcome
<1>2. mem' \in Journal /\ disk' \in Journal
  BY <1>1 DEF Successor
<1>3. wire' \in [Lines -> Nat] /\ copies' \in [Lines -> Nat]
  BY DEF IInv, TypeOK
<1>4. TypeOK'
  BY <1>1, <1>2, <1>3, DaemonTypes DEF IInv
<1> QED
  BY <1>1, <1>4, JournalStep

LEMMA NotFenced ==
    ASSUME IInv, PassRuns \/ pc # "idle"
    PROVE  fenced = FALSE
  BY DEF IInv, TypeOK, FenceHolds, InDeliver, PassRuns, Disconnected

LEMMA DetachIInv == IInv /\ Detach => IInv' /\ Near(mem, mem')
<1> SUFFICES ASSUME IInv, Detach PROVE IInv' /\ Near(mem, mem')
  OBVIOUS
<1>1. Successor(mem') /\ mem'.offset = mem.offset /\ mem'.abandoned = mem.abandoned
  BY RestateOK DEF Detach, States
<1>2. disk' \in {disk, mem'} /\ faults' \in 0 .. MaxFaults /\ tickError' \in BOOLEAN
  <2>1. disk' \in {disk, mem'}
    BY DEF Detach
  <2>2. tickError' \in BOOLEAN
    BY DEF Detach, IInv, TypeOK
  <2>3. faults' = faults \/ Fault
    BY DEF Detach
  <2>4. faults' \in 0 .. MaxFaults
    BY <2>3, BoundsAssumption DEF Fault, IInv, TypeOK
  <2> QED
    BY <2>1, <2>2, <2>4
<1>3. Successor(disk')
  BY <1>1, <1>2, RecordsAreSuccessors
<1>4. Near(mem', disk')
  BY <1>1, <1>3, NearSame DEF Successor
<1>5. TypeOK'
  <2>1. mem' \in Journal /\ disk' \in Journal
    BY <1>1, <1>3 DEF Successor
  <2>2. pc' = pc /\ UNCHANGED world
    BY DEF Detach
  <2> QED
    BY <1>2, <2>1, <2>2, DaemonTypes DEF IInv, TypeOK, world
<1>6. InDeliver' /\ FenceHolds'
  <2>1. PassRuns /\ pc' = pc /\ fenced' = fenced
    BY DEF Detach, world
  <2> QED
    BY <2>1, NotFenced DEF InDeliver, FenceHolds, PassRuns
<1> QED
  BY <1>1, <1>3, <1>4, <1>5, <1>6, JournalStep DEF Detach, world

LEMMA JournalAttemptIInv == IInv /\ JournalAttempt => IInv' /\ Near(mem, mem')
<1> SUFFICES ASSUME IInv, JournalAttempt PROVE IInv' /\ Near(mem, mem')
  OBVIOUS
<1> DEFINE rec == [mem EXCEPT !.state = "submitting", !.pending = "journaled"]
<1>1. /\ PassRuns /\ Owned /\ mem.pending = "none" /\ mem.offset < inbox
      /\ UNCHANGED world
      /\ \/ Saved(rec) /\ pc' = "submit" /\ UNCHANGED tickError
         \/ PassSaveFails(rec, mem) /\ UNCHANGED pc
  BY DEF JournalAttempt
<1>2. Successor(rec)
  BY <1>1, RestageOK DEF States, Attempts
<1>3. mem \in Journal /\ RecordOK(mem, inbox, wire, copies)
  BY DEF IInv, TypeOK
<1>4. rec.state = "submitting" /\ rec.pending = "journaled" /\ rec.offset = mem.offset
  BY <1>3 DEF Journal
<1> HIDE DEF rec
<1>5. mem.offset + 1 \in Lines
  <2>1. inbox \in 0 .. MaxLines /\ mem.offset \in 0 .. MaxLines
    BY <1>3 DEF Journal, IInv, TypeOK
  <2> QED
    BY <1>1, <2>1, BoundsAssumption DEF Lines
<1>6. wire[mem.offset + 1] = 0 /\ copies[mem.offset + 1] = 0
  <2>1. mem.offset + 1 > mem.offset
    BY <1>3, BoundsAssumption DEF Journal
  <2> QED
    BY <1>1, <1>3, <1>5, <2>1 DEF RecordOK
<1>7. FenceHolds'
  BY <1>1, NotFenced DEF FenceHolds, world
<1>8. InDeliver'
  <2>1. CASE Saved(rec) /\ pc' = "submit"
    <3>1. mem' = rec /\ disk' = rec
      BY <2>1 DEF Saved
    <3> QED
      BY <1>1, <1>4, <1>6, <2>1, <3>1 DEF InDeliver, Owned, Head, world
  <2>2. CASE pc' = pc
    BY <1>1, <2>2 DEF InDeliver, PassRuns
  <2> QED
    BY <1>1, <2>1, <2>2
<1>9. /\ pc' \in {"idle", "submit", "acked", "written"}
      /\ tickError' \in BOOLEAN
  <2>1. \/ pc' = "submit" /\ tickError' = tickError
        \/ pc' = pc /\ tickError' = TRUE
    BY <1>1 DEF PassSaveFails
  <2> QED
    BY <2>1 DEF IInv, TypeOK
<1>10. expired' \in BOOLEAN /\ fenced' \in BOOLEAN
  BY <1>1 DEF world, IInv, TypeOK
<1> QED
  BY <1>1, <1>2, <1>7, <1>8, <1>9, <1>10, MemIsSuccessor, SavingStep DEF world

\* The four outcomes that end in a save with deliver leaving the lane.
LEMMA LeaveSavingStep ==
    ASSUME IInv, NEW rec, NEW kept, Successor(rec), Successor(kept),
           kept.offset = mem.offset, kept.abandoned = mem.abandoned,
           Saved(rec) \/ PassSaveFails(rec, kept),
           tickError' \in BOOLEAN,
           UNCHANGED <<kind, inbox, reg, up, wire, copies, epoch, engaged, fenced>>,
           expired' \in BOOLEAN,
           PassRuns \/ pc # "idle", pc' = "idle"
    PROVE  IInv' /\ Near(mem, mem')
<1>1. fenced = FALSE /\ fenced' = FALSE
  BY NotFenced
<1>2. InDeliver' /\ FenceHolds'
  BY <1>1 DEF InDeliver, FenceHolds
<1> QED
  BY <1>1, <1>2, SavingStep

LEMMA EnqueueRefusedIInv == IInv /\ EnqueueRefused => IInv' /\ Near(mem, mem')
<1> SUFFICES ASSUME IInv, EnqueueRefused PROVE IInv' /\ Near(mem, mem')
  OBVIOUS
<1> DEFINE rec == [mem EXCEPT !.pending = "none", !.state = "error"]
<1>1. /\ pc = "submit" /\ pc' = "idle" /\ UNCHANGED world
      /\ \/ Saved(rec) /\ tickError' = TRUE
         \/ PassSaveFails(rec, mem)
  BY DEF EnqueueRefused
<1>2. mem \in Journal /\ RecordOK(mem, inbox, wire, copies)
  BY DEF IInv, TypeOK
<1>3. rec \in Journal
  BY <1>2 DEF Journal, States, Attempts
<1>4. /\ rec.offset = mem.offset /\ rec.accepted = mem.accepted
      /\ rec.abandoned = mem.abandoned /\ rec.pending = "none"
  <2>1. rec.offset = mem.offset
    BY <1>2 DEF Journal
  <2>2. rec.accepted = mem.accepted
    BY <1>2 DEF Journal
  <2>3. rec.abandoned = mem.abandoned
    BY <1>2 DEF Journal
  <2>4. rec.pending = "none"
    BY <1>2 DEF Journal
  <2> QED
    BY <2>1, <2>2, <2>3, <2>4
<1>5. \A l \in Lines : l > mem.offset => wire[l] = 0 /\ copies[l] = 0
  <2> SUFFICES ASSUME NEW l \in Lines, l > mem.offset
               PROVE  wire[l] = 0 /\ copies[l] = 0
    OBVIOUS
  <2>1. wire[mem.offset + 1] = 0 /\ copies[mem.offset + 1] = 0
    BY <1>1 DEF IInv, InDeliver, Head
  <2>2. l \in Nat /\ mem.offset \in Nat
    BY <1>2, BoundsAssumption DEF Lines, Journal
  <2>3. CASE l = mem.offset + 1
    BY <2>1, <2>3
  <2>4. CASE l > mem.offset + 1
    BY <1>2, <2>4 DEF RecordOK
  <2> QED
    BY <2>2, <2>3, <2>4
<1> HIDE DEF rec
<1>6. Successor(rec)
  BY <1>3, <1>4, <1>5, RestatedOK
<1>7. tickError' \in BOOLEAN /\ expired' \in BOOLEAN
  BY <1>1 DEF PassSaveFails, world, IInv, TypeOK
<1> QED
  BY <1>1, <1>6, <1>7, MemIsSuccessor, LeaveSavingStep DEF world

LEMMA AcceptAckIInv == IInv /\ AcceptAck => IInv' /\ Near(mem, mem')
<1> SUFFICES ASSUME IInv, AcceptAck PROVE IInv' /\ Near(mem, mem')
  OBVIOUS
<1>1. /\ pc = "acked" /\ pc' = "idle" /\ UNCHANGED world
      /\ \/ Saved(Settled(mem)) /\ tickError' = FALSE
         \/ PassSaveFails(Settled(mem), mem)
  BY DEF AcceptAck
<1>2. mem.pending = "acked"
  BY <1>1 DEF IInv, InDeliver
<1>3. Successor(Settled(mem))
  BY <1>2, SettledSuccessor DEF IInv, RecordOK, Head
<1>4. tickError' \in BOOLEAN /\ expired' \in BOOLEAN
  BY <1>1 DEF PassSaveFails, world, IInv, TypeOK
<1> QED
  BY <1>1, <1>3, <1>4, MemIsSuccessor, LeaveSavingStep DEF world

LEMMA RecordWriteIInv == IInv /\ RecordWrite => IInv' /\ Near(mem, mem')
<1> SUFFICES ASSUME IInv, RecordWrite PROVE IInv' /\ Near(mem, mem')
  OBVIOUS
<1> DEFINE rec == [mem EXCEPT !.pending = "written", !.state = "awaiting-receipt"]
<1>1. /\ pc = "written" /\ pc' = "idle" /\ expired' = FALSE
      /\ UNCHANGED <<kind, inbox, reg, up, wire, copies, epoch, engaged, fenced>>
      /\ \/ Saved(rec) /\ tickError' = FALSE
         \/ PassSaveFails(rec, mem)
  BY DEF RecordWrite
<1>2. mem.offset < inbox
  BY <1>1 DEF IInv, InDeliver, RecordOK
<1>3. Successor(rec)
  BY <1>2, RestageOK DEF States, Attempts
<1>4. tickError' \in BOOLEAN
  BY <1>1 DEF PassSaveFails
<1> HIDE DEF rec
<1> QED
  BY <1>1, <1>3, <1>4, MemIsSuccessor, LeaveSavingStep

\* A step that lets one copy of the pending line, and no other, out.
LEMMA SubmissionStep ==
    ASSUME IInv, pc = "submit", TypeOK', InDeliver', FenceHolds',
           inbox' = inbox,
           \A l \in Lines \ {Head(mem)} : wire'[l] = wire[l] /\ copies'[l] = copies[l],
           wire'[Head(mem)] + copies'[Head(mem)] <= 1,
           mem'.offset = mem.offset, mem'.accepted = mem.accepted,
           mem'.abandoned = mem.abandoned, mem'.pending # "none",
           mem'.pending = "acked" => copies'[Head(mem)] > 0,
           disk' \in {mem, mem'}
    PROVE  IInv' /\ Near(mem, mem')
<1> DEFINE h == mem.offset + 1
<1>1. /\ mem \in Journal /\ RecordOK(mem, inbox, wire, copies)
      /\ inbox \in 0 .. MaxLines /\ mem.pending # "none"
      /\ wire[h] = 0 /\ copies[h] = 0
  BY DEF IInv, TypeOK, InDeliver, Head
<1>2. mem.offset \in Nat /\ h \in Lines
  BY <1>1, BoundsAssumption DEF RecordOK, Journal, Lines
<1>3. Lines \subseteq Nat
  BY BoundsAssumption DEF Lines
<1>4. wire' \in [Lines -> Nat] /\ copies' \in [Lines -> Nat]
  BY DEF TypeOK
<1>5. \A l \in Lines : /\ l # h => wire'[l] = wire[l] /\ copies'[l] = copies[l]
                       /\ copies[l] > 0 => copies'[l] > 0
  BY <1>1, <1>2 DEF Head
<1>6. ASSUME NEW r, r.offset = mem.offset, r.accepted = mem.accepted,
             r.abandoned = mem.abandoned, r.pending # "none",
             r.pending = "acked" => copies'[h] > 0
      PROVE  RecordOK(r, inbox, wire', copies')
  <2>1. \A l \in Lines : l <= mem.offset => copies'[l] > 0 \/ l \in mem.abandoned
    BY <1>1, <1>5 DEF RecordOK
  <2>2. \A l \in Lines : l > mem.offset + 1 => wire'[l] = 0 /\ copies'[l] = 0
    <3> SUFFICES ASSUME NEW l \in Lines, l > mem.offset + 1
                 PROVE  wire'[l] = 0 /\ copies'[l] = 0
      OBVIOUS
    <3>1. l # h
      BY <1>2, <1>3
    <3> QED
      BY <1>1, <1>5, <3>1 DEF RecordOK
  <2> QED
    BY <1>1, <1>6, <2>1, <2>2 DEF RecordOK, Accounts
<1>7. RecordOK(mem', inbox, wire', copies')
  BY <1>6 DEF Head
<1>8. RecordOK(disk', inbox, wire', copies')
  <2>1. CASE disk' = mem'
    BY <1>7, <2>1
  <2>2. CASE disk' = mem
    <3>1. mem.pending # "acked" \/ copies[h] > 0
      BY <1>1 DEF RecordOK
    <3> QED
      BY <1>1, <1>2, <1>5, <1>6, <2>2, <3>1
  <2> QED
    BY <2>1, <2>2
<1>9. AtMostOnce'
  <2> SUFFICES ASSUME NEW l \in Lines PROVE wire'[l] + copies'[l] <= 1
    BY DEF AtMostOnce
  <2>1. CASE l = h
    BY <2>1 DEF Head
  <2>2. CASE l # h
    BY <1>5, <2>2 DEF IInv, AtMostOnce
  <2> QED
    BY <2>1, <2>2
<1>10. NoOvertaking'
  <2> SUFFICES ASSUME NEW l \in Lines, wire'[l] + copies'[l] > 0,
                      NEW k \in 1 .. (l - 1)
               PROVE  copies'[k] > 0 \/ k \in mem'.abandoned
    BY DEF NoOvertaking
  <2>1. k \in Lines /\ k < l
    BY BoundsAssumption DEF Lines
  <2>2. copies[k] > 0 \/ k \in mem.abandoned
    <3>1. CASE l = h
      <4>1. k <= mem.offset
        BY <1>2, <2>1, <3>1, BoundsAssumption DEF Lines
      <4> QED
        BY <1>1, <2>1, <4>1 DEF RecordOK
    <3>2. CASE l # h
      <4>1. wire[l] + copies[l] > 0
        BY <1>5, <3>2
      <4> QED
        BY <4>1 DEF IInv, NoOvertaking
    <3> QED
      BY <3>1, <3>2
  <2> QED
    BY <1>5, <2>1, <2>2
<1>11. Near(mem', disk') /\ Near(mem, mem')
  BY NearSame
<1> QED
  BY <1>7, <1>8, <1>9, <1>10, <1>11 DEF IInv

LEMMA EnqueueAckedIInv == IInv /\ EnqueueAcked => IInv' /\ Near(mem, mem')
<1> SUFFICES ASSUME IInv, EnqueueAcked PROVE IInv' /\ Near(mem, mem')
  OBVIOUS
<1>1. /\ pc = "submit" /\ pc' = "acked"
      /\ copies' = [copies EXCEPT ![Head(mem)] = @ + 1]
      /\ mem' = [mem EXCEPT !.pending = "acked"]
      /\ UNCHANGED <<kind, inbox, reg, up, disk, wire, epoch, engaged, expired, fenced,
                     tickError, faults>>
  BY DEF EnqueueAcked
<1>2. /\ mem \in Journal /\ wire \in [Lines -> Nat] /\ copies \in [Lines -> Nat]
      /\ Owned /\ mem.state = "submitting" /\ disk = mem
      /\ wire[Head(mem)] = 0 /\ copies[Head(mem)] = 0
  BY <1>1 DEF IInv, TypeOK, InDeliver
<1>3. Head(mem) \in Lines
  BY <1>1, BoundsAssumption DEF IInv, TypeOK, InDeliver, RecordOK, Journal, Lines, Head
<1>4. /\ copies' \in [Lines -> Nat] /\ copies'[Head(mem)] = 1
      /\ \A l \in Lines \ {Head(mem)} : copies'[l] = copies[l]
  BY <1>1, <1>2, <1>3
<1>5. /\ mem'.offset = mem.offset /\ mem'.accepted = mem.accepted
      /\ mem'.abandoned = mem.abandoned /\ mem'.pending = "acked"
      /\ mem'.state = mem.state
  BY <1>1, <1>2 DEF Journal
<1>6. mem' \in Journal
  BY <1>1, <1>2 DEF Journal, Attempts
<1>7. TypeOK'
  BY <1>1, <1>2, <1>4, <1>6 DEF IInv, TypeOK
<1>8. InDeliver'
  BY <1>1, <1>2, <1>5 DEF InDeliver, Owned
<1>9. FenceHolds'
  BY <1>1, NotFenced DEF FenceHolds
<1>10. disk' \in {mem, mem'} /\ wire'[Head(mem)] + copies'[Head(mem)] <= 1
  BY <1>1, <1>2, <1>4
<1>11. \A l \in Lines \ {Head(mem)} : wire'[l] = wire[l] /\ copies'[l] = copies[l]
  BY <1>1, <1>4
<1> QED
  BY <1>1, <1>4, <1>5, <1>7, <1>8, <1>9, <1>10, <1>11, SubmissionStep

LEMMA EnqueueWrittenIInv == IInv /\ EnqueueWritten => IInv' /\ Near(mem, mem')
<1> SUFFICES ASSUME IInv, EnqueueWritten PROVE IInv' /\ Near(mem, mem')
  OBVIOUS
<1>1. /\ pc = "submit" /\ pc' = "written"
      /\ wire' = [wire EXCEPT ![Head(mem)] = @ + 1]
      /\ UNCHANGED <<kind, inbox, reg, up, mem, disk, copies, epoch, engaged, expired,
                     fenced, tickError, faults>>
  BY DEF EnqueueWritten
<1>2. /\ mem \in Journal /\ wire \in [Lines -> Nat] /\ copies \in [Lines -> Nat]
      /\ Owned /\ mem.state = "submitting" /\ mem.pending # "none" /\ disk = mem
      /\ wire[Head(mem)] = 0 /\ copies[Head(mem)] = 0
  BY <1>1 DEF IInv, TypeOK, InDeliver
<1>3. Head(mem) \in Lines
  BY <1>1, BoundsAssumption DEF IInv, TypeOK, InDeliver, RecordOK, Journal, Lines, Head
<1>4. /\ wire' \in [Lines -> Nat] /\ wire'[Head(mem)] = 1
      /\ \A l \in Lines \ {Head(mem)} : wire'[l] = wire[l]
  BY <1>1, <1>2, <1>3
<1>5. TypeOK'
  BY <1>1, <1>2, <1>4 DEF IInv, TypeOK
<1>6. InDeliver'
  BY <1>1, <1>2 DEF InDeliver, Owned
<1>7. FenceHolds'
  BY <1>1, NotFenced DEF FenceHolds
<1>8. mem.pending # "acked"
  BY <1>2, <1>3 DEF IInv, RecordOK, Head
<1>9. disk' \in {mem, mem'} /\ wire'[Head(mem)] + copies'[Head(mem)] <= 1
  BY <1>1, <1>2, <1>4
<1>10. /\ mem'.offset = mem.offset /\ mem'.accepted = mem.accepted
       /\ mem'.abandoned = mem.abandoned /\ mem'.pending = mem.pending
  BY <1>1
<1>11. \A l \in Lines \ {Head(mem)} : wire'[l] = wire[l] /\ copies'[l] = copies[l]
  BY <1>1, <1>4
<1> QED
  BY <1>1, <1>2, <1>5, <1>6, <1>7, <1>8, <1>9, <1>10, <1>11, SubmissionStep

LEMMA EnqueueUnconfirmedIInv == IInv /\ EnqueueUnconfirmed => IInv' /\ Near(mem, mem')
<1> SUFFICES ASSUME IInv, EnqueueUnconfirmed PROVE IInv' /\ Near(mem, mem')
  OBVIOUS
<1>1. /\ pc = "submit" /\ pc' = "idle" /\ PassFails
      /\ wire' \in {wire, [wire EXCEPT ![Head(mem)] = @ + 1]}
      /\ UNCHANGED <<kind, inbox, reg, up, copies, epoch, engaged, expired, fenced>>
  BY DEF EnqueueUnconfirmed
<1>2. /\ mem \in Journal /\ wire \in [Lines -> Nat] /\ copies \in [Lines -> Nat]
      /\ mem.pending # "none" /\ disk = mem
      /\ wire[Head(mem)] = 0 /\ copies[Head(mem)] = 0
  BY <1>1 DEF IInv, TypeOK, InDeliver
<1>3. Head(mem) \in Lines
  BY <1>1, BoundsAssumption DEF IInv, TypeOK, InDeliver, RecordOK, Journal, Lines, Head
<1>4. /\ wire' \in [Lines -> Nat] /\ wire'[Head(mem)] <= 1
      /\ \A l \in Lines \ {Head(mem)} : wire'[l] = wire[l]
  BY <1>1, <1>2, <1>3
<1>5. /\ mem' \in Journal /\ disk' \in Journal
      /\ mem'.offset = mem.offset /\ mem'.abandoned = mem.abandoned
      /\ mem'.pending = mem.pending /\ mem'.accepted = mem.accepted
      /\ disk' \in {mem, mem'}
      /\ faults' \in 0 .. MaxFaults /\ tickError' = TRUE
  <2>1. Failed(mem).accepted = mem.accepted
    BY <1>2 DEF Failed, Journal
  <2> QED
    BY <1>1, <1>2, <2>1, FailOutcome
<1>6. TypeOK'
  BY <1>1, <1>2, <1>4, <1>5 DEF IInv, TypeOK
<1>7. InDeliver'
  BY <1>1 DEF InDeliver
<1>8. FenceHolds'
  BY <1>1, NotFenced DEF FenceHolds
<1>9. mem.pending # "acked"
  BY <1>2, <1>3 DEF IInv, RecordOK, Head
<1>10. wire'[Head(mem)] + copies'[Head(mem)] <= 1
  BY <1>1, <1>2, <1>3, <1>4
<1>11. \A l \in Lines \ {Head(mem)} : wire'[l] = wire[l] /\ copies'[l] = copies[l]
  BY <1>1, <1>4
<1> QED
  BY <1>1, <1>2, <1>5, <1>6, <1>7, <1>8, <1>9, <1>10, <1>11, SubmissionStep

LEMMA SettlePendingIInv == IInv /\ SettlePending => IInv' /\ Near(mem, mem')
<1> SUFFICES ASSUME IInv, SettlePending PROVE IInv' /\ Near(mem, mem')
  OBVIOUS
<1> DEFINE kept == [mem EXCEPT !.pending = "acked"]
<1>1. /\ PassRuns /\ UNCHANGED <<world, pc>>
      /\ mem.pending = "acked" \/ FoundInHarness
      /\ \/ Saved(Settled(mem)) /\ tickError' = FALSE
         \/ PassSaveFails(Settled(mem), kept)
  BY DEF SettlePending
<1>2. mem.pending # "none" /\ copies[Head(mem)] > 0
  BY <1>1 DEF FoundInHarness, Unresolved, IInv, RecordOK, Head
<1>3. Successor(Settled(mem))
  BY <1>2, SettledSuccessor
<1>4. mem \in Journal /\ mem.offset < inbox
  BY <1>2 DEF IInv, TypeOK, RecordOK
<1>5. kept.offset = mem.offset /\ kept.abandoned = mem.abandoned
  BY <1>4 DEF Journal
<1>6. Successor(kept)
  BY <1>2, <1>4, RestageOK DEF Attempts, States, Head
<1> HIDE DEF kept
<1>7. tickError' \in BOOLEAN /\ expired' \in BOOLEAN
  BY <1>1 DEF PassSaveFails, world, IInv, TypeOK
<1> QED
  BY <1>1, <1>3, <1>5, <1>6, <1>7, LeaveSavingStep DEF world, PassRuns

LEMMA AwaitReceiptIInv == IInv /\ AwaitReceipt => IInv' /\ Near(mem, mem')
<1> SUFFICES ASSUME IInv, AwaitReceipt PROVE IInv' /\ Near(mem, mem')
  OBVIOUS
<1> DEFINE rec == [mem EXCEPT !.state = "awaiting-receipt"]
<1>1. /\ PassRuns /\ UNCHANGED <<world, pc>>
      /\ \/ mem = rec /\ UNCHANGED <<journal, faults>> /\ tickError' = FALSE
         \/ mem # rec /\ Saved(rec) /\ tickError' = FALSE
         \/ mem # rec /\ PassSaveFails(rec, mem)
  BY DEF AwaitReceipt
<1>2. Successor(rec)
  BY RestateOK DEF States
<1> HIDE DEF rec
<1>3. tickError' \in BOOLEAN /\ expired' \in BOOLEAN
  BY <1>1 DEF PassSaveFails, world, IInv, TypeOK
<1>4. CASE UNCHANGED <<journal, faults>>
  <2>1. TypeOK' /\ InDeliver' /\ FenceHolds'
    BY <1>1, <1>3, <1>4, NotFenced
       DEF IInv, TypeOK, InDeliver, FenceHolds, PassRuns, world, journal
  <2>2. inbox \in Nat /\ wire \in [Lines -> Nat] /\ copies \in [Lines -> Nat]
    BY BoundsAssumption DEF IInv, TypeOK
  <2>3. UNCHANGED <<mem, disk, inbox, wire, copies>>
    BY <1>1, <1>4 DEF journal, world
  <2> QED
    BY <2>1, <2>2, <2>3, WorldStep
<1>5. CASE Saved(rec) \/ PassSaveFails(rec, mem)
  BY <1>1, <1>2, <1>3, <1>5, MemIsSuccessor, LeaveSavingStep DEF world, PassRuns
<1> QED
  BY <1>1, <1>4, <1>5

\* A pass that fails and leaves everything but the records' states alone.
LEMMA FailingPass ==
    ASSUME IInv, PassRuns, UNCHANGED <<world, pc>>,
           mem' = Failed(mem), disk' \in {disk, mem'},
           faults' \in 0 .. MaxFaults, tickError' = TRUE
    PROVE  IInv' /\ Near(mem, mem')
<1>1. mem \in Journal /\ disk \in Journal /\ RecordOK(mem, inbox, wire, copies)
  BY DEF IInv, TypeOK
<1>2. /\ mem' \in Journal /\ RecordOK(mem', inbox, wire, copies)
      /\ mem'.offset = mem.offset /\ mem'.abandoned = mem.abandoned
  BY <1>1, FailedOK
<1>3. Successor(mem')
  BY <1>2, NearSame DEF Successor
<1>4. Successor(disk')
  BY <1>3, RecordsAreSuccessors
<1>5. Near(mem', disk')
  BY <1>2, <1>4, NearSame DEF Successor
<1>6. TypeOK'
  <2>1. disk' \in Journal
    BY <1>4 DEF Successor
  <2> QED
    BY <1>2, <2>1 DEF IInv, TypeOK, world
<1>7. InDeliver' /\ FenceHolds'
  BY NotFenced DEF InDeliver, FenceHolds, PassRuns, world
<1> QED
  BY <1>3, <1>4, <1>5, <1>6, <1>7, JournalStep DEF world

LEMMA FailingIInv == IInv /\ (LeaveUncertain \/ PassError) => IInv' /\ Near(mem, mem')
<1> SUFFICES ASSUME IInv, LeaveUncertain \/ PassError PROVE IInv' /\ Near(mem, mem')
  OBVIOUS
<1>1. CASE LeaveUncertain
  BY <1>1, FailOutcome, FailingPass DEF LeaveUncertain
<1>2. CASE PassError
  <2>1. faults' \in 0 .. MaxFaults
    BY <1>2, BoundsAssumption DEF PassError, Fault, IInv, TypeOK
  <2> QED
    BY <1>2, <2>1, FailingPass DEF PassError
<1> QED
  BY <1>1, <1>2

LEMMA ClearTickErrorIInv == IInv /\ ClearTickError => IInv' /\ Near(mem, mem')
<1> SUFFICES ASSUME IInv, ClearTickError PROVE IInv' /\ Near(mem, mem')
  OBVIOUS
<1> DEFINE st == IF mem.state = "error" THEN "ready" ELSE mem.state
           rec == [mem EXCEPT !.state = st]
<1>1. /\ PassRuns /\ UNCHANGED <<world, pc>> /\ tickError' = FALSE
      /\ mem' = rec /\ disk' \in {disk, rec}
      /\ faults' = faults \/ Fault
  BY DEF ClearTickError
<1>2. st \in States /\ disk \in Journal
  BY DEF IInv, TypeOK, Journal, States
<1> HIDE DEF st
<1>3. Successor(rec) /\ rec.offset = mem.offset /\ rec.abandoned = mem.abandoned
  BY <1>2, RestateOK
<1> HIDE DEF rec
<1>4. Successor(mem') /\ Successor(disk')
  BY <1>1, <1>3, RecordsAreSuccessors
<1>5. Near(mem', disk')
  BY <1>1, <1>3, <1>4, NearSame DEF Successor
<1>6. TypeOK'
  <2>1. mem' \in Journal /\ disk' \in Journal
    BY <1>4 DEF Successor
  <2>2. faults' \in 0 .. MaxFaults
    BY <1>1, BoundsAssumption DEF Fault, IInv, TypeOK
  <2> QED
    BY <1>1, <2>1, <2>2 DEF IInv, TypeOK, world
<1>7. InDeliver' /\ FenceHolds'
  BY <1>1, NotFenced DEF InDeliver, FenceHolds, PassRuns, world
<1> QED
  BY <1>1, <1>4, <1>5, <1>6, <1>7, JournalStep DEF world

LEMMA PassIInv == IInv /\ Pass => IInv' /\ Near(mem, mem')
  BY DetachIInv, JournalAttemptIInv, EnqueueAckedIInv, EnqueueWrittenIInv,
     EnqueueUnconfirmedIInv, EnqueueRefusedIInv, AcceptAckIInv, RecordWriteIInv,
     SettlePendingIInv, AwaitReceiptIInv, FailingIInv, ClearTickErrorIInv
  DEF Pass, Submit

-----------------------------------------------------------------------------
(* The operator's verbs. *)

\* A verb's save, with the fence it leaves.
LEMMA VerbStep ==
    ASSUME IInv, VerbRuns, NEW rec, NEW kept, Successor(rec), Successor(kept),
           kept.offset = mem.offset, kept.abandoned = mem.abandoned,
           Saved(rec) \/ SaveFails(rec, kept),
           UNCHANGED <<kind, inbox, reg, up, pc, wire, copies, epoch, engaged, expired, tickError>>,
           fenced' \in BOOLEAN, FenceHolds'
    PROVE  IInv' /\ Near(mem, mem')
<1>1. InDeliver'
  BY DEF InDeliver, VerbRuns
<1>2. /\ pc' \in {"idle", "submit", "acked", "written"}
      /\ expired' \in BOOLEAN /\ tickError' \in BOOLEAN
  BY DEF IInv, TypeOK
<1> QED
  BY <1>1, <1>2, SavingStep

\* A verb that keeps a disconnected record disconnected keeps the fence.
LEMMA FenceKept ==
    ASSUME IInv, fenced' = fenced, NEW rec, NEW kept,
           Disconnected => rec.state = "disconnected" /\ kept.state = "disconnected",
           Saved(rec) \/ SaveFails(rec, kept)
    PROVE  FenceHolds'
  BY DEF IInv, FenceHolds, Disconnected, Saved, SaveFails

LEMMA ReconcileIInv == IInv /\ Reconcile => IInv' /\ Near(mem, mem')
<1> SUFFICES ASSUME IInv, Reconcile PROVE IInv' /\ Near(mem, mem')
  OBVIOUS
<1> DEFINE st == IF Disconnected THEN mem.state ELSE PendingState(mem)
           missing == [mem EXCEPT !.state = st]
           kept == [mem EXCEPT !.pending = "acked"]
<1>1. /\ VerbRuns /\ UNCHANGED <<world, pc, tickError>>
      /\ \/ /\ mem.pending = "acked" \/ FoundInHarness
            /\ Saved(Settled(mem)) \/ SaveFails(Settled(mem), kept)
         \/ Saved(missing) \/ SaveFails(missing, mem)
  BY DEF Reconcile
<1>2. mem \in Journal
  BY DEF IInv, TypeOK
<1>3. st \in States
  BY <1>2 DEF PendingState, Journal, States
<1>4. Successor(missing) /\ missing.state = st
  BY <1>3, RestateOK
<1>5. Disconnected => missing.state = "disconnected"
  BY <1>4 DEF Disconnected
<1>6. UNCHANGED <<kind, inbox, reg, up, pc, wire, copies, epoch, engaged, expired, tickError>>
      /\ fenced' = fenced /\ fenced' \in BOOLEAN
  BY <1>1 DEF world, IInv, TypeOK
<1> HIDE DEF missing, st
<1>7. CASE Saved(missing) \/ SaveFails(missing, mem)
  <2>1. FenceHolds'
    BY <1>5, <1>6, <1>7, FenceKept DEF Disconnected
  <2> QED
    BY <1>1, <1>4, <1>6, <1>7, <2>1, MemIsSuccessor, VerbStep
<1>8. CASE /\ mem.pending = "acked" \/ FoundInHarness
           /\ Saved(Settled(mem)) \/ SaveFails(Settled(mem), kept)
  <2>1. mem.pending # "none" /\ copies[Head(mem)] > 0
    BY <1>8 DEF FoundInHarness, Unresolved, IInv, RecordOK, Head
  <2>2. Successor(Settled(mem))
    BY <2>1, SettledSuccessor
  <2>3. mem.offset < inbox
    BY <2>1 DEF IInv, RecordOK
  <2>4. Successor(kept)
    BY <2>1, <2>3, RestageOK DEF Attempts, States, Head
  <2>5. kept.offset = mem.offset /\ kept.abandoned = mem.abandoned /\ kept.state = mem.state
    BY <1>2 DEF Journal
  <2>6. Disconnected => Settled(mem).state = "disconnected"
    BY <1>2 DEF Settled, Disconnected, Journal
  <2> HIDE DEF kept
  <2>7. FenceHolds'
    BY <1>6, <1>8, <2>5, <2>6, FenceKept DEF Disconnected
  <2> QED
    BY <1>1, <1>6, <1>8, <2>2, <2>4, <2>5, <2>7, VerbStep
<1> QED
  BY <1>1, <1>7, <1>8

LEMMA AbandonIInv == IInv /\ Abandon => IInv' /\ Near(mem, mem')
<1> SUFFICES ASSUME IInv, Abandon PROVE IInv' /\ Near(mem, mem')
  OBVIOUS
<1>1. /\ VerbRuns /\ Unresolved /\ UNCHANGED <<world, pc, tickError>>
      /\ Saved(GivenUp(mem)) \/ SaveFails(GivenUp(mem), mem)
  BY DEF Abandon
<1>2. /\ mem \in Journal /\ mem.pending # "none" /\ inbox \in 0 .. MaxLines
      /\ wire \in [Lines -> Nat] /\ copies \in [Lines -> Nat]
      /\ RecordOK(mem, inbox, wire, copies)
  BY <1>1 DEF Unresolved, IInv, TypeOK
<1>3. Successor(GivenUp(mem))
  <2>1. /\ GivenUp(mem) \in Journal /\ RecordOK(GivenUp(mem), inbox, wire, copies)
        /\ GivenUp(mem).offset = mem.offset + 1
        /\ GivenUp(mem).abandoned = mem.abandoned \cup {mem.offset + 1}
    BY <1>2, GivenUpOK
  <2> QED
    BY <2>1 DEF Successor, Near
<1>4. Disconnected => GivenUp(mem).state = "disconnected"
  BY <1>2 DEF GivenUp, Disconnected, Journal
<1>5. UNCHANGED <<kind, inbox, reg, up, pc, wire, copies, epoch, engaged, expired, tickError>>
      /\ fenced' = fenced /\ fenced' \in BOOLEAN
  BY <1>1 DEF world, IInv, TypeOK
<1>6. FenceHolds'
  BY <1>1, <1>4, <1>5, FenceKept DEF Disconnected
<1> QED
  BY <1>1, <1>3, <1>5, <1>6, MemIsSuccessor, VerbStep

LEMMA DisconnectIInv == IInv /\ Disconnect => IInv' /\ Near(mem, mem')
<1> SUFFICES ASSUME IInv, Disconnect PROVE IInv' /\ Near(mem, mem')
  OBVIOUS
<1> DEFINE rec == [mem EXCEPT !.state = "disconnected"]
<1>1. /\ VerbRuns
      /\ \/ Saved(rec) /\ fenced' = TRUE
         \/ SaveFails(rec, mem) /\ UNCHANGED fenced
      /\ UNCHANGED <<kind, inbox, reg, up, pc, wire, copies, epoch, engaged, expired, tickError>>
  BY DEF Disconnect
<1>2. Successor(rec) /\ rec.state = "disconnected"
  BY RestateOK DEF States
<1> HIDE DEF rec
<1>3. fenced' \in BOOLEAN
  BY <1>1 DEF IInv, TypeOK
<1>4. FenceHolds'
  <2>1. CASE Saved(rec)
    BY <1>2, <2>1 DEF Saved, FenceHolds, Disconnected
  <2>2. CASE SaveFails(rec, mem) /\ UNCHANGED fenced
    BY <1>2, <2>2, FenceKept DEF Disconnected
  <2> QED
    BY <1>1, <2>1, <2>2
<1> QED
  BY <1>1, <1>2, <1>3, <1>4, MemIsSuccessor, VerbStep

LEMMA ReconnectIInv == IInv /\ Reconnect => IInv' /\ Near(mem, mem')
<1> SUFFICES ASSUME IInv, Reconnect PROVE IInv' /\ Near(mem, mem')
  OBVIOUS
<1> DEFINE state == IF mem.pending = "none" THEN "ready"
                    ELSE IF kind = "codex" THEN "uncertain" ELSE PendingState(mem)
           st == IF kind = "codex" /\ ~Disconnected THEN mem.state ELSE state
           rec == [mem EXCEPT !.binding = epoch, !.state = st]
<1>1. /\ VerbRuns /\ fenced' = FALSE
      /\ Saved(rec) \/ SaveFails(rec, mem)
      /\ UNCHANGED <<kind, inbox, reg, up, pc, wire, copies, epoch, engaged, expired, tickError>>
  BY DEF Reconnect
<1>2. /\ mem \in Journal /\ epoch \in 0 .. MaxEpochs
      /\ RecordOK(mem, inbox, wire, copies)
  BY DEF IInv, TypeOK
<1>3. st \in States
  BY <1>2 DEF PendingState, Journal, States
<1> HIDE DEF st
<1>4. rec \in Journal
  BY <1>2, <1>3 DEF Journal
<1>5. /\ rec.offset = mem.offset /\ rec.accepted = mem.accepted
      /\ rec.abandoned = mem.abandoned /\ rec.pending = mem.pending
  BY <1>2 DEF Journal
<1> HIDE DEF rec
<1>6. Successor(rec)
  BY <1>2, <1>4, <1>5, RestatedOK DEF RecordOK
<1>7. FenceHolds'
  BY <1>1 DEF FenceHolds
<1> QED
  BY <1>1, <1>6, <1>7, MemIsSuccessor, VerbStep

LEMMA VerbIInv == IInv /\ Verb => IInv' /\ Near(mem, mem')
  BY ReconcileIInv, AbandonIInv, DisconnectIInv, ReconnectIInv DEF Verb

LEMMA StutterIInv == IInv /\ UNCHANGED vars => IInv' /\ Near(mem, mem')
<1> SUFFICES ASSUME IInv, UNCHANGED vars PROVE IInv' /\ Near(mem, mem')
  OBVIOUS
<1>1. TypeOK'
  BY DEF vars, IInv, TypeOK
<1>2. InDeliver' /\ FenceHolds'
  BY DEF vars, IInv, InDeliver, FenceHolds, Owned, Disconnected, Head
<1>3. inbox \in Nat /\ wire \in [Lines -> Nat] /\ copies \in [Lines -> Nat]
  BY BoundsAssumption DEF IInv, TypeOK
<1>4. UNCHANGED <<mem, disk, inbox, wire, copies>>
  BY DEF vars
<1> QED
  BY <1>1, <1>2, <1>3, <1>4, WorldStep

\* IInv is inductive: the journal discipline of deliver, accept, abandon and
\* scheduledFailure keeps both copies of the record true.
THEOREM Invariance == Spec => []IInv
<1>1. IInv /\ [Next]_vars => IInv'
  BY WorldIInv, PassIInv, VerbIInv, StutterIInv DEF Next
<1> QED
  BY <1>1, InitIInv, PTL DEF Spec

-----------------------------------------------------------------------------
(* What follows. *)

\* Every variable keeps its type.
THEOREM TypeCorrect == Spec => []TypeOK
  BY Invariance, PTL DEF IInv

\* The harness never has a line twice (deliver never resubmits).
THEOREM NoDuplicates == Spec => []AtMostOnce
  BY Invariance, PTL DEF IInv

\* The cursor passes a line only when the harness has it or the record names
\* it as abandoned (accept, abandon), also after a crash.
THEOREM NothingLost == Spec => []NoLoss
<1>1. IInv => NoLoss
  BY DEF IInv, NoLoss, SettledBy, RecordOK
<1> QED
  BY <1>1, Invariance, PTL

\* An unresolved attempt fences every later line (deliver's pending branch).
THEOREM OrderKept == Spec => []NoOvertaking
  BY Invariance, PTL DEF IInv

\* Accepted and abandoned lines add up to the cursor.
THEOREM CountsAddUp == Spec => []StatusAddsUp
<1>1. IInv => StatusAddsUp
  BY DEF IInv, StatusAddsUp, RecordOK, Accounts
<1> QED
  BY <1>1, Invariance, PTL

LEMMA StepIInv == IInv /\ [Next]_vars => IInv' /\ Near(mem, mem')
  BY WorldIInv, PassIInv, VerbIInv, StutterIInv DEF Next

\* Memory's cursor only moves forward: a crash loads a file that is never
\* behind it (durableJSON, load).
THEOREM CursorAdvances == Spec => CursorNeverRetreats
<1>1. IInv /\ [Next]_vars => [mem'.offset >= mem.offset]_vars
  <2> SUFFICES ASSUME IInv, [Next]_vars PROVE mem'.offset >= mem.offset
    OBVIOUS
  <2>1. mem.offset \in Nat
    BY BoundsAssumption DEF IInv, TypeOK, Journal
  <2> QED
    BY <2>1, StepIInv DEF Near
<1> QED
  BY <1>1, Invariance, PTL DEF Spec, CursorNeverRetreats

\* The three steps that can hand a line over, all inside deliver.
LEMMA OnlySubmitSubmits ==
    ASSUME IInv, [Next]_vars, Submission
    PROVE  pc = "submit"
<1>1. CASE pc # "submit"
  <2>1. UNCHANGED <<wire, copies>> \/ HarnessRestart
          \/ \E l \in Lines : HarnessTake(l) \/ HarnessLose(l)
    BY <1>1 DEF Next, World, Pass, Submit, Verb, vars, world, Append, Unregister,
       Reclaim, HarnessTurns, ReceiptDeadline, Crash, Restart, Detach, JournalAttempt,
       EnqueueAcked, EnqueueWritten, EnqueueUnconfirmed, EnqueueRefused, AcceptAck,
       RecordWrite, SettlePending, AwaitReceipt, LeaveUncertain, PassError,
       ClearTickError, Reconcile, Abandon, Disconnect, Reconnect
  <2>2. \A l \in Lines : wire[l] \in Nat /\ copies[l] \in Nat
    BY DEF IInv, TypeOK
  <2>3. ~ HarnessRestart
    BY <2>2 DEF HarnessRestart, Submission
  <2>4. ASSUME NEW l \in Lines, HarnessTake(l) \/ HarnessLose(l)
        PROVE  FALSE
    <3>1. PICK k \in Lines : wire'[k] + copies'[k] > wire[k] + copies[k]
      BY DEF Submission
    <3>2. CASE k = l
      BY <2>2, <2>4, <3>1, <3>2 DEF HarnessTake, HarnessLose, IInv, TypeOK
    <3>3. CASE k # l
      BY <2>2, <2>4, <3>1, <3>3 DEF HarnessTake, HarnessLose, IInv, TypeOK
    <3> QED
      BY <3>2, <3>3
  <2>5. ~ UNCHANGED <<wire, copies>>
    BY <2>2 DEF Submission
  <2> QED
    BY <2>1, <2>3, <2>4, <2>5
<1> QED
  BY <1>1

\* Nothing is submitted for a lost registration or past a confirmed disconnect
\* (deliver and disconnectExact under one lane and one peer lock).
THEOREM SubmissionsBound == Spec => SubmitsOnlyWhileBound
<1>1. IInv /\ [Next]_vars => [Submission => Owned /\ ~fenced]_vars
  <2> SUFFICES ASSUME IInv, [Next]_vars, Submission PROVE Owned /\ ~fenced
    OBVIOUS
  <2>1. pc = "submit"
    BY OnlySubmitSubmits
  <2> QED
    BY <2>1, NotFenced DEF IInv, InDeliver
<1> QED
  BY <1>1, Invariance, PTL DEF Spec, SubmitsOnlyWhileBound

-----------------------------------------------------------------------------
(* Delivery implements Mailbox. *)

LEMMA ResolvingStep ==
    ASSUME IInv, IInv', Near(mem, mem'), UNCHANGED <<inbox, copies>>
    PROVE  [Promise!Next]_Promise!vars
<1>0. /\ mem.offset \in Nat /\ inbox \in Nat /\ inbox <= MaxLines
      /\ RecordOK(mem, inbox, wire, copies) /\ RecordOK(mem', inbox, wire', copies)
      /\ mem.abandoned \subseteq Lines
      /\ wire' \in [Lines -> Nat] /\ copies \in [Lines -> Nat]
  BY BoundsAssumption DEF IInv, TypeOK, Journal
<1>1. CASE mem'.offset = mem.offset /\ mem'.abandoned = mem.abandoned
  BY <1>1 DEF Promise!vars
<1>2. CASE /\ mem'.offset = mem.offset + 1
           /\ mem'.abandoned = mem.abandoned \cup {mem.offset + 1}
  <2>1. mem.offset < inbox
    BY <1>0, <1>2 DEF RecordOK
  <2> QED
    BY <1>2, <2>1 DEF Promise!Next, Promise!GiveUp
<1>3. CASE /\ mem'.offset = mem.offset + 1
           /\ mem'.abandoned = mem.abandoned
  <2>1. mem.offset < inbox /\ mem.offset + 1 \in Lines
    <3>1. mem.offset + 1 <= inbox
      BY <1>0, <1>3 DEF RecordOK
    <3> QED
      BY <1>0, <3>1, BoundsAssumption DEF Lines
  <2>2. mem.offset + 1 \notin mem.abandoned
    <3>1. ~ (mem.offset + 1 <= mem.offset)
      BY <1>0
    <3> QED
      BY <1>0, <3>1 DEF RecordOK
  <2>3. copies[mem.offset + 1] > 0
    <3>1. mem.offset + 1 <= mem'.offset
      BY <1>0, <1>3
    <3> QED
      BY <1>0, <1>3, <2>1, <2>2, <3>1 DEF RecordOK
  <2>4. copies[mem.offset + 1] = 1
    <3> DEFINE h == mem.offset + 1
    <3>1. h \in Lines /\ copies[h] > 0 /\ copies[h] \in Nat /\ wire[h] \in Nat
      BY <1>0, <2>1, <2>3 DEF IInv, TypeOK
    <3>2. wire[h] + copies[h] <= 1
      BY <3>1 DEF IInv, AtMostOnce
    <3> HIDE DEF h
    <3>3. copies[h] = 1
      BY <3>1, <3>2
    <3> QED
      BY <3>3 DEF h
  <2> QED
    BY <1>3, <2>1, <2>4 DEF Promise!Next, Promise!Settle
<1> QED
  BY <1>1, <1>2, <1>3 DEF Near

\* The harness gets its first copy of a line it may get.
LEMMA HandingStep ==
    ASSUME IInv, NEW l \in Lines,
           l <= inbox, l = mem.offset + 1 \/ l \in mem.abandoned,
           copies[l] = 0, copies' = [copies EXCEPT ![l] = @ + 1],
           UNCHANGED inbox, mem'.offset = mem.offset,
           mem'.abandoned = mem.abandoned
    PROVE  [Promise!Next]_Promise!vars
<1>1. copies' = [copies EXCEPT ![l] = 1]
  BY DEF IInv, TypeOK
<1>2. Promise!HandOver(l)
  BY <1>1 DEF Promise!HandOver
<1> QED
  BY <1>2 DEF Promise!Next, Promise!Lines, Lines

LEMMA TakeHandsOver ==
    ASSUME IInv, NEW l \in Lines, HarnessTake(l)
    PROVE  [Promise!Next]_Promise!vars
<1>1. /\ wire[l] \in Nat /\ wire[l] > 0 /\ copies[l] \in Nat
      /\ wire[l] + copies[l] <= 1
      /\ mem \in Journal /\ RecordOK(mem, inbox, wire, copies)
      /\ inbox \in 0 .. MaxLines
  BY DEF HarnessTake, IInv, TypeOK, AtMostOnce
<1>2. copies[l] = 0 /\ l \in Nat /\ mem.offset \in Nat /\ inbox \in Nat
  BY <1>1, BoundsAssumption DEF Lines, Journal
<1>3. l <= mem.offset => l \in mem.abandoned
  BY <1>1, <1>2 DEF RecordOK
<1>4. ~ (l > mem.offset + 1)
  BY <1>1 DEF RecordOK
<1>5. l > mem.offset => mem.pending # "none"
  BY <1>1 DEF RecordOK
<1>6. l = mem.offset + 1 \/ l \in mem.abandoned
  BY <1>2, <1>3, <1>4
<1>7. l <= inbox
  BY <1>1, <1>2, <1>4, <1>5 DEF RecordOK
<1> QED
  BY <1>2, <1>6, <1>7, HandingStep DEF HarnessTake

\* Each step of the connection is a step of the mailbox, or none.
LEMMA StepRefines ==
    ASSUME IInv, [Next]_vars
    PROVE  [Promise!Next]_Promise!vars
<1>1. IInv' /\ Near(mem, mem')
  BY StepIInv
<1>2. CASE UNCHANGED <<inbox, copies>>
  BY <1>1, <1>2, ResolvingStep
<1>3. CASE Append
  BY <1>3 DEF Append, Promise!Next, Promise!Arrive
<1>4. CASE \E l \in Lines : HarnessTake(l)
  BY <1>4, TakeHandsOver
<1>5. CASE EnqueueAcked
  <2>1. /\ mem \in Journal /\ mem.offset < inbox /\ copies[Head(mem)] = 0
        /\ inbox \in 0 .. MaxLines
    BY <1>5 DEF EnqueueAcked, IInv, InDeliver, TypeOK, RecordOK
  <2>2. Head(mem) \in Lines /\ Head(mem) <= inbox
    BY <2>1, BoundsAssumption DEF Head, Lines, Journal
  <2>3. mem'.offset = mem.offset /\ mem'.abandoned = mem.abandoned
    BY <1>5, <2>1 DEF EnqueueAcked, Journal
  <2> QED
    BY <1>5, <2>1, <2>2, <2>3, HandingStep DEF EnqueueAcked, Head
<1>6. \/ UNCHANGED <<inbox, copies>> \/ Append \/ EnqueueAcked
      \/ \E l \in Lines : HarnessTake(l)
  BY DEF Next, World, Pass, Submit, Verb, vars, world, Unregister,
     Reclaim, HarnessLose, HarnessRestart, HarnessTurns, ReceiptDeadline, Crash, Restart, Detach,
     JournalAttempt, EnqueueWritten, EnqueueUnconfirmed, EnqueueRefused, AcceptAck,
     RecordWrite, SettlePending, AwaitReceipt, LeaveUncertain, PassError,
     ClearTickError, Reconcile, Abandon, Disconnect, Reconnect
<1> QED
  BY <1>2, <1>3, <1>4, <1>5, <1>6

\* The connection keeps the mailbox's promise: at most once, in order, and
\* resolved only by receipt or by name.
THEOREM Refinement == Spec => ImplementsMailbox
<1>1. Init => Promise!Init
  BY DEF Init, FreshJournal, Promise!Init, Promise!Lines, Lines
<1>2. IInv /\ [Next]_vars => [Promise!Next]_Promise!vars
  BY StepRefines
<1> QED
  BY <1>1, <1>2, Invariance, PTL DEF Spec, ImplementsMailbox, Promise!Spec
=============================================================================
