---------------------------- MODULE MCScheduler ----------------------------
(* Instances of Scheduler for TLC. *)
EXTENDS Scheduler

CONSTANT s1

MCConns == 1 .. 2
MCSlots == {s1}
MCBoth  == {TRUE, FALSE}
MCTicks == {TRUE}

\* Two lines by wakes alone; a line nobody wakes for and the ticker; or a verb,
\* perhaps the connect of the other connection.
MCInit ==
    \/ Start(0, MaxControls) /\ live = Conns /\ ~ticker /\ unread = <<0, 0>>
    \/ Start(2, MaxControls) /\ live = Conns /\ ticker /\ unread = <<1, 0>>
    \/ Start(2, 0) /\ live = {1} /\ unread[1] # 2 /\ unread[2] = 0 /\ (ticker <=> unread[1] = 0)

MCSpec == MCInit /\ [][SchedulerNext]_schedulerVars /\ SchedulerFairness
=============================================================================
