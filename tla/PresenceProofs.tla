---------------------------- MODULE PresenceProofs ----------------------------
(***************************************************************************)
(* The safety of Presence for any number of aliases and sources and any    *)
(* bounds: no circle of processes waits for peer locks, every notice is    *)
(* placed once, in order, with the registration it was recorded for, and   *)
(* joins alternate with leaves and departures.                             *)
(*                                                                         *)
(* The locks: a process holds no lock but the smaller one of its pair, and *)
(* only while it waits for the greater one.                                *)
(*                                                                         *)
(* The notices: a journal numbers its transitions without a gap, so what a *)
(* source has already placed anywhere is not newer than the head of its    *)
(* journal; the scan for the event id then decides between an append that  *)
(* is new and one that is replayed.                                        *)
(***************************************************************************)
EXTENDS Presence, FiniteSetTheorems, SequenceTheorems, WellFoundedInduction, TLAPS

\* The lock p takes first, and p between its two locks.
First(p) ==
    IF p = Cli THEN LockOrder(rename.from, rename.to)[1] ELSE LockOrder(p, Target(p).alias)[1]
Between(p) == IF p = Cli THEN rename.pc = "second" ELSE pc[p] = "second"

LocksInOrder ==
    \A p \in Procs, a \in Aliases : lock[a] = p => Between(p) /\ a = First(p)

\* Who is past its first lock knows whom it locks.
Paired ==
    /\ \A c \in Sources : pc[c] \in {"second", "save"} => Unfinished(c)
    /\ rename.pc # "idle" => rename.from \in Aliases /\ rename.to \in Aliases /\ rename.from # rename.to

\* The transitions of a journal are numbered without a gap, up to its own
\* number, and are for others, for whom they were recorded.
Numbered ==
    \A c \in Sources : \A k \in 1 .. Len(rec[c].outbox) :
        rec[c].outbox[k].seq = rec[c].seq - Len(rec[c].outbox) + k

ForOthers ==
    \A c \in Sources : \A k \in 1 .. Len(rec[c].outbox) : \A t \in rec[c].outbox[k].to :
        t.alias # c /\ <<<<c, rec[c].outbox[k].seq>>, t.epoch>> \in aimed

\* What a source placed is no newer than the head of its journal.
UpToHead(n, r) == n <= r.seq /\ (r.outbox # <<>> => n <= r.outbox[1].seq)
PlacedUpToHead ==
    \A a \in Aliases : \A i \in 1 .. Len(inbox[a]) : UpToHead(inbox[a][i][2], rec[inbox[a][i][1]])

\* The journal remembers what was announced last.
OnlineAsSaid ==
    \A c \in Sources :
        rec[c].online <=> \E i \in 1 .. Len(said[c]) :
            said[c][i] = "join" /\ \A k \in i + 1 .. Len(said[c]) : said[c][k] = "compact"

IInv ==
    /\ TypeOK /\ LocksInOrder /\ Paired /\ Numbered /\ ForOthers /\ PlacedUpToHead
    /\ OnlineAsSaid /\ NoticesWellPlaced /\ JoinsAlternate

-----------------------------------------------------------------------------
(* Numbers, and the pair a process locks. *)

LEMMA NumberedAliases ==
    /\ Cardinality(Aliases) \in Nat /\ Aliases = 1 .. Cardinality(Aliases)
    /\ \A a \in Aliases : a \in 0 .. Cardinality(Aliases)
<1>1. Cardinality(Aliases) \in Nat /\ Aliases = 1 .. Cardinality(Aliases)
  BY PresenceAssumption, FS_CardinalityType
<1>2. \A n \in Nat : \A a \in 1 .. n : a \in 0 .. n
  OBVIOUS
<1> QED
  BY <1>1, <1>2

LEMMA Aliased ==
    /\ Aliases \subseteq Nat /\ Sources \subseteq Aliases /\ 0 \notin Aliases
    /\ Cli \notin Nat /\ Cli # Free /\ Free \notin Sources /\ Cardinality(Aliases) \in Nat
<1>1. Cardinality(Aliases) \in Nat /\ Aliases = 1 .. Cardinality(Aliases)
  BY PresenceAssumption, FS_CardinalityType
<1>2. Aliases \subseteq Nat /\ 0 \notin Aliases
  BY <1>1
<1>3. Sources \subseteq Aliases /\ Cli \notin Nat
  BY PresenceAssumption
<1> QED
  BY <1>1, <1>2, <1>3 DEF Free

Below == {p \in Nat \X Nat : p[1] < p[2]}

LEMMA LeastExists ==
    ASSUME NEW S, S \subseteq Nat, S # {}
    PROVE  \E x \in S : \A y \in S : x <= y
<1>1. OpToRel(<, Nat) = Below
  BY DEF OpToRel, Below
<1>2. IsWellFoundedOn(Below, Nat)
  BY <1>1, NatLessThanWellFounded, Zenon
<1>3. \A x, y \in Nat : <<x, y>> \in Below <=> x < y
  BY DEF Below
<1>4. PICK x \in S : \A y \in S : ~(<<y, x>> \in Below)
  BY <1>2, WFMin
<1>5. \A y \in S : ~(y < x)
  BY <1>3, <1>4
<1> QED
  BY <1>5

LEMMA GreatestExists ==
    ASSUME NEW n \in Nat, NEW S, S \subseteq 0 .. n, S # {}
    PROVE  \E x \in S : \A y \in S : y <= x
<1> DEFINE T == {n - x : x \in S}
<1>0. \A x \in S : x \in Nat /\ n - x \in Nat
  OBVIOUS
<1>1. T \subseteq Nat /\ T # {}
  BY <1>0
<1>2. PICK t \in T : \A u \in T : t <= u
  BY <1>1, LeastExists
<1>3. PICK x \in S : t = n - x
  OBVIOUS
<1>4. \A y \in S : n - x <= n - y
  BY <1>2, <1>3
<1>5. \A y \in S : y <= x
  BY <1>0, <1>4
<1> QED
  BY <1>5

LEMMA TargetIsPending ==
    ASSUME TypeOK, NEW c \in Sources, Unfinished(c)
    PROVE  /\ rec[c].outbox \in Seq(Transition) /\ Len(rec[c].outbox) \in Nat /\ Len(rec[c].outbox) >= 1
           /\ HeadNotice(c) = rec[c].outbox[1] /\ HeadNotice(c) \in Transition
           /\ Target(c) \in HeadNotice(c).to /\ Target(c) \in Recipient
<1>1. rec[c].outbox \in Seq(Transition) /\ rec[c].outbox # <<>>
  BY DEF TypeOK, Journal, Unfinished, Pending
<1>2. Len(rec[c].outbox) \in Nat /\ Len(rec[c].outbox) >= 1 /\ HeadNotice(c) = rec[c].outbox[1]
  BY <1>1 DEF HeadNotice
<1>3. HeadNotice(c) \in Transition
  BY <1>1, <1>2
<1> DEFINE T == HeadNotice(c).to
<1>4. T \subseteq Recipient /\ T # {}
  BY <1>3 DEF Transition, Unfinished
<1>5. \A t \in T : t.alias \in Nat
  BY <1>4, Aliased DEF Recipient
<1>6. \E t \in T : \A u \in T : t.alias <= u.alias
  <2> DEFINE S == {t.alias : t \in T}
  <2>1. S \subseteq Nat /\ S # {}
    BY <1>4, <1>5
  <2>2. PICK x \in S : \A y \in S : x <= y
    BY <2>1, LeastExists
  <2> QED
    BY <2>2
<1>7. Target(c) \in T
  BY <1>6 DEF Target
<1> QED
  BY <1>1, <1>2, <1>3, <1>4, <1>7

LEMMA PairInOrder ==
    ASSUME NEW a \in Aliases, NEW b \in Aliases, a # b
    PROVE  /\ LockOrder(a, b)[1] < LockOrder(a, b)[2]
           /\ LockOrder(a, b)[1] \in Aliases /\ LockOrder(a, b)[2] \in Aliases
<1>1. a \in Nat /\ b \in Nat
  BY Aliased
<1> QED
  BY <1>1 DEF LockOrder

\* A process that waits for a lock waits for one of its pair, and, past the
\* first, for the greater one.
LEMMA WaitsForItsPair ==
    ASSUME TypeOK, Paired, ForOthers, NEW p \in Procs
    PROVE  /\ Wants(p) # 0 => Wants(p) \in Aliases
           /\ Between(p) => Wants(p) # 0 /\ First(p) < Wants(p)
<1>1. CASE p = Cli
  <2>1. rename.pc # "idle" => /\ LockOrder(rename.from, rename.to)[1] < LockOrder(rename.from, rename.to)[2]
                              /\ LockOrder(rename.from, rename.to)[1] \in Aliases
                              /\ LockOrder(rename.from, rename.to)[2] \in Aliases
    BY PairInOrder DEF Paired
  <2>2. rename.pc \in {"idle", "first", "second"}
    BY DEF TypeOK
  <2> QED
    BY <1>1, <2>1, <2>2, Aliased DEF Wants, Between, First
<1>2. CASE p \in Sources /\ p # Cli
  <2>1. ASSUME Unfinished(p)
        PROVE  /\ LockOrder(p, Target(p).alias)[1] < LockOrder(p, Target(p).alias)[2]
               /\ LockOrder(p, Target(p).alias)[1] \in Aliases /\ LockOrder(p, Target(p).alias)[2] \in Aliases
    <3>1. /\ Target(p) \in HeadNotice(p).to /\ Target(p) \in Recipient
          /\ HeadNotice(p) = rec[p].outbox[1]
          /\ Len(rec[p].outbox) \in Nat /\ Len(rec[p].outbox) >= 1
      BY <1>2, <2>1, TargetIsPending
    <3>4. 1 \in 1 .. Len(rec[p].outbox)
      BY <3>1
    <3>2. Target(p).alias # p
      BY <1>2, <3>1, <3>4 DEF ForOthers
    <3>3. p \in Aliases /\ Target(p).alias \in Aliases
      BY <1>2, <3>1, Aliased DEF Recipient
    <3> QED
      BY <3>2, <3>3, PairInOrder
  <2>2. pc[p] = "second" => Unfinished(p)
    BY <1>2 DEF Paired
  <2> QED
    BY <1>2, <2>1, <2>2, Aliased DEF Wants, Between, First
<1> QED
  BY <1>1, <1>2 DEF Procs

\* Of any set of processes, one that waits for the greatest lock does not wait
\* for another of the set: who holds that lock waits for a greater one.
LEMMA NoCircle ==
    ASSUME TypeOK, Paired, ForOthers, LocksInOrder
    PROVE  NoCircularWait
<1> SUFFICES ASSUME NEW S \in SUBSET Procs, S # {},
                    \A p \in S : Wants(p) # 0 /\ lock[Wants(p)] \in S
             PROVE  FALSE
  BY DEF NoCircularWait
<1> DEFINE W == {Wants(p) : p \in S}
<1>1. W \subseteq Aliases
  BY WaitsForItsPair
<1>2. W \subseteq 0 .. Cardinality(Aliases) /\ W # {}
  <2>1. \A a \in Aliases : a \in 0 .. Cardinality(Aliases)
    BY NumberedAliases
  <2>2. W # {}
    OBVIOUS
  <2> HIDE DEF W
  <2> QED
    BY <1>1, <2>1, <2>2
<1>3. PICK w \in W : \A v \in W : v <= w
  BY <1>2, Aliased, GreatestExists
<1>4. lock[w] \in S /\ w \in Aliases /\ lock[w] \in Procs
  BY <1>1
<1>6. Between(lock[w]) /\ w = First(lock[w])
  BY <1>4 DEF LocksInOrder
<1>7. w < Wants(lock[w]) /\ Wants(lock[w]) \in W
  BY <1>4, <1>6, WaitsForItsPair
<1>8. w \in Nat /\ Wants(lock[w]) \in Nat
  BY <1>1, <1>4, <1>7, Aliased
<1> QED
  BY <1>3, <1>7, <1>8

-----------------------------------------------------------------------------
(* What a step does to a journal. *)

Outboxes == Seq(Transition)

LEMMA JournalIs ==
    Journal = [state : States, online : BOOLEAN, overdue : BOOLEAN,
               seq : Nat, outbox : Outboxes, cursor : Nat]
BY DEF Journal, Outboxes

\* The transition the journal r of c would record now.
Fresh(c, r) ==
    [seq |-> r.seq + 1, to |-> {[alias |-> a, epoch |-> reg[a].epoch] : a \in Recipients(c)}]

LEMMA FreshType ==
    ASSUME TypeOK, NEW c \in Sources, NEW r \in Journal
    PROVE  Fresh(c, r) \in Transition
<1>1. r.seq + 1 \in Nat
  BY JournalIs
<1>2. \A a \in Recipients(c) : [alias |-> a, epoch |-> reg[a].epoch] \in Recipient
  BY DEF Recipients, Recipient, TypeOK
<1>3. {[alias |-> a, epoch |-> reg[a].epoch] : a \in Recipients(c)} \in SUBSET Recipient
  BY <1>2
<1> QED
  BY <1>1, <1>3 DEF Fresh, Transition

LEMMA RecordedShape ==
    ASSUME TypeOK, NEW c \in Sources, NEW r \in Journal
    PROVE  /\ Recorded(c, r) \in Journal
           /\ Recorded(c, r).seq = r.seq + 1
           /\ Recorded(c, r).outbox = Append(r.outbox, Fresh(c, r))
           /\ Recorded(c, r).online = r.online /\ Recorded(c, r).state = r.state
           /\ Recorded(c, r).cursor = r.cursor
<1>1. r.outbox \in Seq(Transition) /\ r.seq + 1 \in Nat
  BY JournalIs DEF Outboxes
<1>2. Append(r.outbox, Fresh(c, r)) \in Outboxes
  BY <1>1, FreshType DEF Outboxes
<1>3. Recorded(c, r) = [r EXCEPT !.seq = r.seq + 1, !.outbox = Append(r.outbox, Fresh(c, r))]
  BY DEF Recorded, Fresh
<1> QED
  BY <1>1, <1>2, <1>3, JournalIs

\* The event e changes what the journal says of c accordingly.
Turns(e, before, after) ==
    \/ e = "join" /\ ~before /\ after
    \/ e \in {"departed", "leave"} /\ before /\ ~after
    \/ e = "compact" /\ after = before

\* r became q with the event e recorded, or with none.
Notes(c, e, r, q) ==
    /\ q \in Journal /\ q.seq = r.seq + 1 /\ q.outbox = Append(r.outbox, Fresh(c, r))
    /\ Turns(e, r.online, q.online)
Same(r, q) ==
    q \in Journal /\ q.seq = r.seq /\ q.outbox = r.outbox /\ q.online = r.online

LEMMA ObservedShape ==
    ASSUME TypeOK, NEW c \in Sources, NEW r \in Journal, NEW p \in Answers
    PROVE  /\ EventOf(r, p) = "" => Same(r, Observed(c, r, p))
           /\ EventOf(r, p) # "" => /\ EventOf(r, p) \in Events
                                    /\ Notes(c, EventOf(r, p), r, Observed(c, r, p))
<1>0. r.online \in BOOLEAN
  BY JournalIs
<1>1. CASE EventOf(r, p) = ""
  <2>1. Observed(c, r, p) = [r EXCEPT !.online = IF p = "unknown" THEN @ ELSE p = "online", !.overdue = FALSE]
    BY <1>1 DEF Observed
  <2>2. (IF p = "unknown" THEN r.online ELSE p = "online") = r.online
    BY <1>0, <1>1 DEF EventOf, Answers
  <2>3. Observed(c, r, p) = [r EXCEPT !.online = r.online, !.overdue = FALSE]
    BY <2>1, <2>2
  <2>4. Same(r, Observed(c, r, p))
    BY <1>0, <2>3, JournalIs DEF Same
  <2> QED
    BY <1>1, <2>4
<1>2. CASE EventOf(r, p) # ""
  <2> DEFINE q == Recorded(c, r)
  <2>1. /\ q \in Journal /\ q.seq = r.seq + 1 /\ q.outbox = Append(r.outbox, Fresh(c, r))
        /\ q.online = r.online
    BY RecordedShape
  <2>2. Observed(c, r, p) = [q EXCEPT !.online = IF p = "unknown" THEN @ ELSE p = "online", !.overdue = FALSE]
    BY <1>2 DEF Observed
  <2>3. /\ EventOf(r, p) \in {"join", "departed"} /\ p # "unknown"
        /\ Turns(EventOf(r, p), r.online, p = "online")
    BY <1>0, <1>2 DEF EventOf, Answers, Turns
  <2> HIDE DEF q
  <2>4. Observed(c, r, p) = [q EXCEPT !.online = (p = "online"), !.overdue = FALSE]
    BY <2>2, <2>3
  <2>5. /\ Observed(c, r, p) \in Journal /\ Observed(c, r, p).seq = q.seq
        /\ Observed(c, r, p).outbox = q.outbox /\ Observed(c, r, p).online = (p = "online")
    BY <2>1, <2>4, JournalIs
  <2> QED
    BY <1>2, <2>1, <2>3, <2>5 DEF Notes, Events
<1> QED
  BY <1>1, <1>2

\* The journal of c, and only it, changes: one event recorded, or none.
Noted(c, e) ==
    /\ rec' = [rec EXCEPT ![c] = rec'[c]] /\ e \in Events /\ ~Full(rec[c])
    /\ Notes(c, e, rec[c], rec'[c]) /\ Says(c, e)
Unnoted(c) ==
    /\ rec' = [rec EXCEPT ![c] = rec'[c]] /\ Same(rec[c], rec'[c]) /\ SaysNothing

LEMMA Journalled ==
    ASSUME TypeOK, NEW c \in Sources,
           Detach(c) \/ Tick(c) \/ ObserveCompaction(c) \/ Disconnect(c) \/ Reconnect(c)
    PROVE  /\ (\E e \in Events : Noted(c, e)) \/ Unnoted(c)
           /\ pc[c] = "idle" /\ UNCHANGED <<reg, inbox, torn, lock, rollout, rename, epochs>>
<1>0. /\ rec \in [Sources -> Journal] /\ rec[c] \in Journal
      /\ rec[c].online \in BOOLEAN /\ rec[c].cursor \in Nat /\ rollout[c] \in Nat
  BY JournalIs DEF TypeOK
<1>1. pc[c] = "idle" /\ UNCHANGED <<reg, inbox, torn, lock, rollout, rename, epochs>>
  BY DEF Detach, Tick, ObserveCompaction, Disconnect, Reconnect
<1>2. CASE Detach(c)
  <2>1. rec' = [rec EXCEPT ![c].state = "detached"] /\ SaysNothing
    BY <1>2 DEF Detach, SaysNothing
  <2>2. [rec[c] EXCEPT !.state = "detached"] \in Journal
    BY <1>0, JournalIs DEF States
  <2>3. Same(rec[c], [rec[c] EXCEPT !.state = "detached"])
    BY <1>0, <2>2, JournalIs DEF Same
  <2> QED
    BY <1>0, <1>1, <2>1, <2>3 DEF Unnoted
\* A journal replaced by r or by one with an event more.
<1>3. ASSUME NEW r, rec' = [rec EXCEPT ![c] = r]
      PROVE  rec'[c] = r /\ rec' = [rec EXCEPT ![c] = rec'[c]]
  BY <1>0, <1>3
<1>4. CASE Tick(c)
  <2>1. ASSUME NEW p \in Answers, ProbeSaved(c, p)
        PROVE  (\E e \in Events : Noted(c, e)) \/ Unnoted(c)
    <3>1. rec' = [rec EXCEPT ![c] = Observed(c, rec[c], p)]
      BY <2>1 DEF ProbeSaved
    <3>2. rec'[c] = Observed(c, rec[c], p) /\ rec' = [rec EXCEPT ![c] = rec'[c]]
      BY <1>3, <3>1
    <3>3. CASE EventOf(rec[c], p) = ""
      <4>1. Same(rec[c], rec'[c]) /\ SaysNothing
        BY <1>0, <2>1, <3>2, <3>3, ObservedShape DEF ProbeSaved
      <4> QED
        BY <3>2, <4>1 DEF Unnoted
    <3>4. CASE EventOf(rec[c], p) # ""
      <4>1. Notes(c, EventOf(rec[c], p), rec[c], rec'[c]) /\ EventOf(rec[c], p) \in Events
        BY <1>0, <3>2, <3>4, ObservedShape
      <4>2. ~Full(rec[c]) /\ Says(c, EventOf(rec[c], p))
        BY <2>1, <3>4 DEF ProbeSaved
      <4> QED
        BY <3>2, <4>1, <4>2 DEF Noted
    <3> QED
      BY <3>3, <3>4
  <2>2. ASSUME NEW p \in Answers, ProbeRefused(c, p)
        PROVE  Unnoted(c)
    <3>1. rec' = [rec EXCEPT ![c].overdue = TRUE] /\ SaysNothing
      BY <2>2 DEF ProbeRefused
    <3>2. Same(rec[c], [rec[c] EXCEPT !.overdue = TRUE])
      BY <1>0, JournalIs DEF Same
    <3> QED
      BY <1>0, <3>1, <3>2 DEF Unnoted
  <2>3. ASSUME UNCHANGED <<rec, said, aimed>>
        PROVE  Unnoted(c)
    BY <1>0, <2>3 DEF Unnoted, Same, SaysNothing
  <2> QED
    BY <1>1, <1>4, <2>1, <2>2, <2>3 DEF Tick
<1>5. CASE ObserveCompaction(c)
  <2>1. CASE rec' = [rec EXCEPT ![c].cursor = rollout[c]] /\ UNCHANGED <<said, aimed>>
    <3>1. Same(rec[c], [rec[c] EXCEPT !.cursor = rollout[c]])
      BY <1>0, JournalIs DEF Same
    <3> QED
      BY <1>0, <1>1, <2>1, <3>1 DEF Unnoted, SaysNothing
  <2>2. CASE /\ ~Full(rec[c]) /\ Says(c, "compact")
             /\ rec' = [rec EXCEPT ![c] = [Recorded(c, rec[c]) EXCEPT !.cursor = @ + 1]]
    <3> DEFINE q == Recorded(c, rec[c])
               s == [q EXCEPT !.cursor = q.cursor + 1]
    <3>1. /\ q \in Journal /\ q.seq = rec[c].seq + 1 /\ q.outbox = Append(rec[c].outbox, Fresh(c, rec[c]))
          /\ q.online = rec[c].online /\ q.cursor \in Nat
      BY <1>0, RecordedShape
    <3> HIDE DEF q
    <3>2. s \in Journal /\ s.seq = q.seq /\ s.outbox = q.outbox /\ s.online = q.online
      <4>1. PICK n \in Nat : n = q.cursor + 1
        BY <3>1
      <4>2. s = [q EXCEPT !.cursor = n]
        BY <4>1
      <4> HIDE DEF s
      <4>3. s \in Journal
        BY <3>1, <4>2, JournalIs
      <4>4. s.seq = q.seq /\ s.outbox = q.outbox /\ s.online = q.online
        BY <3>1, <4>2, JournalIs
      <4> QED
        BY <4>3, <4>4
    <3>3. rec' = [rec EXCEPT ![c] = s]
      BY <1>0, <2>2 DEF q
    <3> HIDE DEF s
    <3>4. rec'[c] = s /\ rec' = [rec EXCEPT ![c] = rec'[c]]
      BY <1>3, <3>3
    <3>5. Notes(c, "compact", rec[c], rec'[c])
      BY <3>1, <3>2, <3>4 DEF Notes, Turns
    <3> QED
      BY <1>1, <2>2, <3>4, <3>5 DEF Noted, Events
  <2> QED
    BY <1>5, <2>1, <2>2 DEF ObserveCompaction
<1>6. CASE Disconnect(c)
  <2>1. CASE /\ rec[c].online /\ ~Full(rec[c]) /\ Says(c, "leave")
             /\ rec' = [rec EXCEPT ![c] = [Recorded(c, rec[c]) EXCEPT !.online = FALSE, !.state = "disconnected"]]
    <3> DEFINE q == Recorded(c, rec[c])
               s == [q EXCEPT !.online = FALSE, !.state = "disconnected"]
    <3>1. q \in Journal /\ q.seq = rec[c].seq + 1 /\ q.outbox = Append(rec[c].outbox, Fresh(c, rec[c]))
      BY <1>0, RecordedShape
    <3> HIDE DEF q
    <3>2. s \in Journal /\ s.seq = q.seq /\ s.outbox = q.outbox /\ s.online = FALSE
      BY <3>1, JournalIs DEF States
    <3>3. rec' = [rec EXCEPT ![c] = s]
      BY <1>0, <2>1 DEF q
    <3> HIDE DEF s
    <3>4. rec'[c] = s /\ rec' = [rec EXCEPT ![c] = rec'[c]]
      BY <1>3, <3>3
    <3>5. Notes(c, "leave", rec[c], rec'[c])
      BY <2>1, <3>1, <3>2, <3>4 DEF Notes, Turns
    <3> QED
      BY <1>1, <2>1, <3>4, <3>5 DEF Noted, Events
  <2>2. CASE rec' = [rec EXCEPT ![c].state = "disconnected"] /\ SaysNothing
    <3>1. Same(rec[c], [rec[c] EXCEPT !.state = "disconnected"])
      BY <1>0, JournalIs DEF Same, States
    <3> QED
      BY <1>0, <1>1, <2>2, <3>1 DEF Unnoted
  <2> QED
    BY <1>6, <2>1, <2>2 DEF Disconnect
<1>7. CASE Reconnect(c)
  <2> DEFINE r == [rec[c] EXCEPT !.state = "ready", !.cursor = rollout[c]]
  <2>1. r \in Journal /\ Same(rec[c], r) /\ Len(r.outbox) = Len(rec[c].outbox)
    BY <1>0, JournalIs DEF Same, States
  <2>2. PICK p \in Answers :
            IF EventOf(r, p) # "" /\ Full(r)
            THEN rec' = [rec EXCEPT ![c] = r] /\ SaysNothing
            ELSE /\ rec' = [rec EXCEPT ![c] = Observed(c, r, p)]
                 /\ IF EventOf(r, p) = "" THEN SaysNothing ELSE Says(c, EventOf(r, p))
    BY <1>7 DEF Reconnect
  <2> HIDE DEF r
  <2>3. CASE rec' = [rec EXCEPT ![c] = r] /\ SaysNothing
    BY <1>1, <1>3, <2>1, <2>3 DEF Unnoted
  <2>4. CASE rec' = [rec EXCEPT ![c] = Observed(c, r, p)] /\ EventOf(r, p) = "" /\ SaysNothing
    <3>1. Same(r, Observed(c, r, p))
      BY <2>1, <2>4, ObservedShape
    <3>2. Same(rec[c], Observed(c, r, p))
      BY <2>1, <3>1 DEF Same
    <3> QED
      BY <1>1, <1>3, <2>4, <3>2 DEF Unnoted
  <2>5. CASE /\ rec' = [rec EXCEPT ![c] = Observed(c, r, p)] /\ EventOf(r, p) # ""
             /\ ~Full(r) /\ Says(c, EventOf(r, p))
    <3>1. EventOf(r, p) \in Events /\ Notes(c, EventOf(r, p), r, Observed(c, r, p))
      BY <2>1, <2>5, ObservedShape
    <3>2. Notes(c, EventOf(r, p), rec[c], Observed(c, r, p))
      BY <2>1, <3>1 DEF Notes, Same, Fresh
    <3>3. ~Full(rec[c])
      BY <2>1, <2>5 DEF Full
    <3> QED
      BY <1>1, <1>3, <2>5, <3>1, <3>2, <3>3 DEF Noted
  <2> QED
    BY <2>2, <2>3, <2>4, <2>5
<1> QED
  BY <1>2, <1>4, <1>5, <1>6, <1>7

\* A transition leaves the journal of c, or one recipient of its first.
Popped(c) ==
    /\ rec' = [rec EXCEPT ![c] = rec'[c]] /\ rec'[c] \in Journal
    /\ rec[c].outbox # <<>> /\ rec'[c].outbox = Tail(rec[c].outbox)
    /\ rec'[c].seq = rec[c].seq /\ rec'[c].online = rec[c].online
Ticked(c) ==
    /\ rec' = [rec EXCEPT ![c] = rec'[c]] /\ rec'[c] \in Journal
    /\ Len(rec'[c].outbox) = Len(rec[c].outbox)
    /\ \A k \in 1 .. Len(rec[c].outbox) :
          /\ rec'[c].outbox[k].seq = rec[c].outbox[k].seq
          /\ rec'[c].outbox[k].to \subseteq rec[c].outbox[k].to
    /\ rec'[c].seq = rec[c].seq /\ rec'[c].online = rec[c].online

LEMMA FlushPopsShape ==
    ASSUME TypeOK, NEW c \in Sources, FlushPops(c)
    PROVE  Popped(c)
<1>0. /\ rec \in [Sources -> Journal] /\ rec[c] \in Journal /\ rec[c].outbox \in Seq(Transition)
  BY JournalIs DEF TypeOK, Outboxes
<1>1. rec[c].outbox # <<>> /\ rec' = [rec EXCEPT ![c].outbox = Tail(@)]
  BY DEF FlushPops, Pending
<1>2. Tail(rec[c].outbox) \in Outboxes
  BY <1>0, <1>1 DEF Outboxes
<1> DEFINE q == [rec[c] EXCEPT !.outbox = Tail(rec[c].outbox)]
<1>3. /\ q \in Journal /\ q.outbox = Tail(rec[c].outbox) /\ q.seq = rec[c].seq /\ q.online = rec[c].online
  BY <1>0, <1>2, JournalIs
<1>4. rec'[c] = q /\ rec' = [rec EXCEPT ![c] = rec'[c]]
  BY <1>0, <1>1
<1> QED
  BY <1>1, <1>3, <1>4 DEF Popped

LEMMA FlushSavesShape ==
    ASSUME TypeOK, NEW c \in Sources, Unfinished(c), rec' = [rec EXCEPT ![c].outbox[1].to = @ \ {Target(c)}]
    PROVE  Ticked(c)
<1> DEFINE o == rec[c].outbox
           h == [o[1] EXCEPT !.to = @ \ {Target(c)}]
           n == [o EXCEPT ![1] = h]
           q == [rec[c] EXCEPT !.outbox = n]
<1>0. /\ rec \in [Sources -> Journal] /\ rec[c] \in Journal
      /\ o \in Seq(Transition) /\ Len(o) \in Nat /\ Len(o) >= 1
  BY JournalIs, TargetIsPending DEF TypeOK, Outboxes
<1>1. rec'[c] = q /\ rec' = [rec EXCEPT ![c] = rec'[c]]
  BY <1>0
<1> HIDE DEF o
<1>2. o[1] \in Transition
  BY <1>0
<1>3. h \in Transition /\ h.seq = o[1].seq /\ h.to \subseteq o[1].to
  BY <1>2 DEF Transition
<1> HIDE DEF h
<1>4. /\ n \in Seq(Transition) /\ Len(n) = Len(o)
      /\ \A k \in 1 .. Len(o) : n[k] = IF k = 1 THEN h ELSE o[k]
  BY <1>0, <1>3
<1> HIDE DEF n
<1>5. /\ q \in Journal /\ q.outbox = n /\ q.seq = rec[c].seq /\ q.online = rec[c].online
  BY <1>0, <1>4, JournalIs DEF Outboxes
<1> HIDE DEF q
<1>6. \A k \in 1 .. Len(o) : n[k].seq = o[k].seq /\ n[k].to \subseteq o[k].to
  BY <1>3, <1>4
<1>7. /\ Len(rec'[c].outbox) = Len(rec[c].outbox)
      /\ \A k \in 1 .. Len(rec[c].outbox) :
            /\ rec'[c].outbox[k].seq = rec[c].outbox[k].seq
            /\ rec'[c].outbox[k].to \subseteq rec[c].outbox[k].to
  BY <1>1, <1>4, <1>5, <1>6 DEF o
<1> QED
  BY <1>1, <1>5, <1>7 DEF Ticked

\* Every step changes at most one journal, in one of these ways.
LEMMA JournalStep ==
    ASSUME TypeOK, Paired, [Next]_vars
    PROVE  \/ UNCHANGED <<rec, said, aimed>>
           \/ \E c \in Sources :
                 /\ UNCHANGED <<reg, inbox, lock, rename>>
                 /\ \/ pc[c] = "idle" /\ ((\E e \in Events : Noted(c, e)) \/ Unnoted(c))
                    \/ pc[c] \in {"flush", "save"} /\ (Popped(c) \/ Ticked(c)) /\ UNCHANGED <<said, aimed>>
<1> DEFINE Goal ==
           \/ UNCHANGED <<rec, said, aimed>>
           \/ \E c \in Sources :
                 /\ UNCHANGED <<reg, inbox, lock, rename>>
                 /\ \/ pc[c] = "idle" /\ ((\E e \in Events : Noted(c, e)) \/ Unnoted(c))
                    \/ pc[c] \in {"flush", "save"} /\ (Popped(c) \/ Ticked(c)) /\ UNCHANGED <<said, aimed>>
<1>1. ASSUME NEW c \in Sources,
             Detach(c) \/ Tick(c) \/ ObserveCompaction(c) \/ Disconnect(c) \/ Reconnect(c)
      PROVE  Goal
  BY <1>1, Journalled
<1>2. ASSUME NEW c \in Sources, FlushPops(c)
      PROVE  Goal
  <2>1. pc[c] = "flush" /\ UNCHANGED <<reg, inbox, lock, rename, said, aimed>>
    BY <1>2 DEF FlushPops
  <2> QED
    BY <1>2, <2>1, FlushPopsShape
<1>3. ASSUME NEW c \in Sources, FlushSaves(c)
      PROVE  Goal
  <2>1. pc[c] = "save" /\ UNCHANGED <<reg, inbox, lock, rename, said, aimed>> /\ Unfinished(c)
    BY <1>3 DEF FlushSaves, Paired
  <2> QED
    BY <1>3, <2>1, FlushSavesShape DEF FlushSaves
<1>4. ASSUME NEW c \in Sources,
             Compact(c) \/ FlushLocks(c) \/ FlushTimesOut(c) \/ FlushAppends(c)
                \/ FlushAppendFails(c) \/ FlushDisowned(c)
      PROVE  UNCHANGED <<rec, said, aimed>>
  BY <1>4 DEF Compact, FlushLocks, FlushTimesOut, FlushAppends, FlushAppendFails, FlushDisowned
<1>5. ASSUME NEW a \in Aliases, NEW b \in Aliases,
             \/ Remove(a) \/ Register(a) \/ ListenerDies(a) \/ ListenerArms(a) \/ RenameStarts(a, b)
      PROVE  UNCHANGED <<rec, said, aimed>>
  BY <1>5 DEF Remove, Register, ListenerDies, ListenerArms, RenameStarts
<1>6. Crash \/ Renaming \/ UNCHANGED vars => UNCHANGED <<rec, said, aimed>>
  BY DEF Crash, Renaming, RenameLocks, RenameTimesOut, vars
<1> QED
  BY <1>1, <1>2, <1>3, <1>4, <1>5, <1>6 DEF Next, Flush

\* What an outbox is, and what appending to it or shortening it gives.
LEMMA OutboxOf ==
    ASSUME TypeOK, NEW c \in Sources
    PROVE  /\ rec[c] \in Journal /\ rec[c].outbox \in Seq(Transition) /\ Len(rec[c].outbox) \in Nat
           /\ rec[c].seq \in Nat
           /\ \A k \in 1 .. Len(rec[c].outbox) : rec[c].outbox[k] \in Transition
           /\ rec[c].outbox = <<>> <=> Len(rec[c].outbox) = 0
<1>1. rec[c] \in Journal /\ rec[c].outbox \in Seq(Transition) /\ rec[c].seq \in Nat
  BY JournalIs DEF TypeOK, Outboxes
<1> QED
  BY <1>1

LEMMA NotedOutbox ==
    ASSUME TypeOK, NEW c \in Sources, NEW e, Noted(c, e)
    PROVE  LET o == rec[c].outbox  q == rec'[c].outbox IN
           /\ Len(q) = Len(o) + 1 /\ \A k \in 1 .. Len(o) : q[k] = o[k]
           /\ q[Len(o) + 1] = Fresh(c, rec[c]) /\ Fresh(c, rec[c]).seq = rec[c].seq + 1
           /\ rec'[c].seq = rec[c].seq + 1
           /\ \A d \in Sources : d # c => rec'[d] = rec[d]
<1>1. rec[c].outbox \in Seq(Transition) /\ Fresh(c, rec[c]) \in Transition
  BY OutboxOf, FreshType
<1>2. rec'[c].outbox = Append(rec[c].outbox, Fresh(c, rec[c])) /\ rec'[c].seq = rec[c].seq + 1
  BY DEF Noted, Notes
<1>3. \A d \in Sources : d # c => rec'[d] = rec[d]
  BY DEF Noted, TypeOK
<1>4. Fresh(c, rec[c]).seq = rec[c].seq + 1
  BY DEF Fresh
<1> QED
  BY <1>1, <1>2, <1>3, <1>4

LEMMA PoppedOutbox ==
    ASSUME TypeOK, NEW c \in Sources, Popped(c)
    PROVE  LET o == rec[c].outbox  q == rec'[c].outbox IN
           /\ Len(o) >= 1 /\ Len(q) = Len(o) - 1 /\ \A k \in 1 .. Len(q) : q[k] = o[k + 1]
           /\ rec'[c].seq = rec[c].seq
           /\ \A d \in Sources : d # c => rec'[d] = rec[d]
<1>1. rec[c].outbox \in Seq(Transition) /\ rec[c].outbox # <<>>
  BY OutboxOf DEF Popped
<1>2. rec'[c].outbox = Tail(rec[c].outbox) /\ rec'[c].seq = rec[c].seq
  BY DEF Popped
<1>3. \A d \in Sources : d # c => rec'[d] = rec[d]
  BY DEF Popped, TypeOK
<1> QED
  BY <1>1, <1>2, <1>3, HeadTailProperties

-----------------------------------------------------------------------------
(* The numbers and recipients of a journal. *)

LEMMA NumberedStep == IInv /\ [Next]_vars => Numbered'
<1> SUFFICES ASSUME IInv, [Next]_vars
             PROVE  Numbered'
  OBVIOUS
<1>0. TypeOK /\ Paired /\ Numbered
  BY DEF IInv
<1>1. CASE UNCHANGED rec
  BY <1>0, <1>1 DEF Numbered
<1>2. ASSUME NEW c \in Sources, NEW e \in Events, Noted(c, e)
      PROVE  Numbered'
  <2>1. ASSUME NEW k \in 1 .. Len(rec'[c].outbox)
        PROVE  rec'[c].outbox[k].seq = rec'[c].seq - Len(rec'[c].outbox) + k
    <3>0. /\ Len(rec[c].outbox) \in Nat /\ Len(rec'[c].outbox) = Len(rec[c].outbox) + 1
          /\ rec[c].seq \in Nat /\ rec'[c].seq = rec[c].seq + 1
      BY <1>0, <1>2, OutboxOf, NotedOutbox
    <3>1. CASE k \in 1 .. Len(rec[c].outbox)
      <4>1. rec'[c].outbox[k] = rec[c].outbox[k]
        BY <1>0, <1>2, <3>1, NotedOutbox
      <4>2. rec[c].outbox[k].seq = rec[c].seq - Len(rec[c].outbox) + k
        BY <1>0, <3>1 DEF Numbered
      <4> DEFINE n == rec[c].seq
                 l == Len(rec[c].outbox)
      <4>3. k \in Nat
        BY <3>0, <3>1
      <4>4. n - l + k = (n + 1) - (l + 1) + k
        <5>1. n \in Nat /\ l \in Nat
          BY <3>0
        <5> HIDE DEF n, l
        <5> QED
          BY <4>3, <5>1
      <4>5. rec'[c].outbox[k].seq = (n + 1) - (l + 1) + k
        BY <4>1, <4>2, <4>4
      <4>6. rec'[c].seq = n + 1 /\ Len(rec'[c].outbox) = l + 1
        BY <3>0
      <4> HIDE DEF n, l
      <4> QED
        BY <4>5, <4>6
    <3>2. CASE k = Len(rec[c].outbox) + 1
      <4>1. rec'[c].outbox[k].seq = rec[c].seq + 1
        BY <1>0, <1>2, <3>2, NotedOutbox
      <4> QED
        BY <3>0, <3>2, <4>1
    <3> QED
      BY <3>0, <3>1, <3>2
  <2> QED
    BY <1>0, <1>2, <2>1, NotedOutbox DEF Numbered
<1>3. ASSUME NEW c \in Sources, Unnoted(c)
      PROVE  Numbered'
  <2>1. /\ \A d \in Sources : d # c => rec'[d] = rec[d]
        /\ rec'[c].seq = rec[c].seq /\ rec'[c].outbox = rec[c].outbox
    BY <1>0, <1>3 DEF Unnoted, Same, TypeOK
  <2> QED
    BY <1>0, <2>1 DEF Numbered
<1>4. ASSUME NEW c \in Sources, Popped(c)
      PROVE  Numbered'
  <2>1. ASSUME NEW k \in 1 .. Len(rec'[c].outbox)
        PROVE  rec'[c].outbox[k].seq = rec'[c].seq - Len(rec'[c].outbox) + k
    <3>1. k + 1 \in 1 .. Len(rec[c].outbox) /\ rec'[c].outbox[k] = rec[c].outbox[k + 1]
      BY <1>0, <1>4, OutboxOf, PoppedOutbox
    <3>2. rec[c].outbox[k + 1].seq = rec[c].seq - Len(rec[c].outbox) + (k + 1)
      BY <1>0, <3>1 DEF Numbered
    <3> QED
      BY <1>0, <1>4, <3>1, <3>2, OutboxOf, PoppedOutbox
  <2> QED
    BY <1>0, <1>4, <2>1, PoppedOutbox DEF Numbered
<1>5. ASSUME NEW c \in Sources, Ticked(c)
      PROVE  Numbered'
  <2>1. \A d \in Sources : d # c => rec'[d] = rec[d]
    BY <1>0, <1>5 DEF Ticked, TypeOK
  <2> QED
    BY <1>0, <1>5, <2>1 DEF Numbered, Ticked
<1> QED
  BY <1>0, <1>1, <1>2, <1>3, <1>4, <1>5, JournalStep

LEMMA AimedGrows == IInv /\ [Next]_vars => aimed \subseteq aimed'
BY JournalStep DEF IInv, Noted, Unnoted, Says, SaysNothing

LEMMA ForOthersStep == IInv /\ [Next]_vars => ForOthers'
<1> SUFFICES ASSUME IInv, [Next]_vars
             PROVE  ForOthers'
  OBVIOUS
<1>0. TypeOK /\ Paired /\ ForOthers /\ aimed \subseteq aimed'
  BY AimedGrows DEF IInv
<1>1. CASE UNCHANGED rec
  BY <1>0, <1>1 DEF ForOthers
<1>2. ASSUME NEW c \in Sources, NEW e \in Events, Noted(c, e)
      PROVE  ForOthers'
  <2>1. ASSUME NEW t \in Fresh(c, rec[c]).to
        PROVE  t.alias # c /\ <<<<c, rec[c].seq + 1>>, t.epoch>> \in aimed'
    <3>1. PICK a \in Recipients(c) : t = [alias |-> a, epoch |-> reg[a].epoch]
      BY DEF Fresh
    <3>2. t.alias = a /\ t.epoch = reg[a].epoch /\ a # c
      BY <3>1 DEF Recipients
    <3>3. <<<<c, rec[c].seq + 1>>, reg[a].epoch>> \in aimed'
      BY <1>2, <3>1 DEF Noted, Says
    <3> QED
      BY <3>2, <3>3
  <2>2. ASSUME NEW k \in 1 .. Len(rec'[c].outbox), NEW t \in rec'[c].outbox[k].to
        PROVE  t.alias # c /\ <<<<c, rec'[c].outbox[k].seq>>, t.epoch>> \in aimed'
    <3>1. CASE k \in 1 .. Len(rec[c].outbox)
      BY <1>0, <1>2, <2>2, <3>1, NotedOutbox DEF ForOthers
    <3>2. CASE k = Len(rec[c].outbox) + 1
      BY <1>0, <1>2, <2>1, <2>2, <3>2, NotedOutbox
    <3> QED
      BY <1>0, <1>2, <2>2, <3>1, <3>2, OutboxOf, NotedOutbox
  <2>3. \A d \in Sources : d # c => rec'[d] = rec[d]
    BY <1>0, <1>2, NotedOutbox
  <2>4. ASSUME NEW d \in Sources, NEW k \in 1 .. Len(rec'[d].outbox), NEW t \in rec'[d].outbox[k].to
        PROVE  t.alias # d /\ <<<<d, rec'[d].outbox[k].seq>>, t.epoch>> \in aimed'
    <3>1. CASE d = c
      BY <2>2, <2>4, <3>1
    <3>2. CASE d # c
      BY <1>0, <2>3, <2>4, <3>2 DEF ForOthers
    <3> QED
      BY <3>1, <3>2
  <2> QED
    BY <2>4 DEF ForOthers
<1>3. ASSUME NEW c \in Sources, Unnoted(c)
      PROVE  ForOthers'
  <2>1. /\ \A d \in Sources : d # c => rec'[d] = rec[d]
        /\ rec'[c].outbox = rec[c].outbox
    BY <1>0, <1>3 DEF Unnoted, Same, TypeOK
  <2> QED
    BY <1>0, <2>1 DEF ForOthers
<1>4. ASSUME NEW c \in Sources, Popped(c)
      PROVE  ForOthers'
  <2>1. ASSUME NEW k \in 1 .. Len(rec'[c].outbox)
        PROVE  k + 1 \in 1 .. Len(rec[c].outbox) /\ rec'[c].outbox[k] = rec[c].outbox[k + 1]
    BY <1>0, <1>4, OutboxOf, PoppedOutbox
  <2>2. ASSUME NEW k \in 1 .. Len(rec'[c].outbox), NEW t \in rec'[c].outbox[k].to
        PROVE  t.alias # c /\ <<<<c, rec'[c].outbox[k].seq>>, t.epoch>> \in aimed'
    BY <1>0, <2>1, <2>2 DEF ForOthers
  <2>3. \A d \in Sources : d # c => rec'[d] = rec[d]
    BY <1>0, <1>4, PoppedOutbox
  <2> QED
    BY <1>0, <2>2, <2>3 DEF ForOthers
<1>5. ASSUME NEW c \in Sources, Ticked(c)
      PROVE  ForOthers'
  <2>1. \A d \in Sources : d # c => rec'[d] = rec[d]
    BY <1>0, <1>5 DEF Ticked, TypeOK
  <2>2. ASSUME NEW k \in 1 .. Len(rec'[c].outbox), NEW t \in rec'[c].outbox[k].to
        PROVE  t.alias # c /\ <<<<c, rec'[c].outbox[k].seq>>, t.epoch>> \in aimed'
    BY <1>0, <1>5, <2>2 DEF ForOthers, Ticked
  <2> QED
    BY <1>0, <2>1, <2>2 DEF ForOthers
<1> QED
  BY <1>0, <1>1, <1>2, <1>3, <1>4, <1>5, JournalStep

-----------------------------------------------------------------------------
(* What is announced. *)

\* The last event of s that is not a compaction is a join.
JoinedLast(s) ==
    \E i \in 1 .. Len(s) : s[i] = "join" /\ \A k \in i + 1 .. Len(s) : s[k] = "compact"

Alternating(s) ==
    \A i, j \in 1 .. Len(s) :
        /\ i < j /\ s[i] # "compact" /\ s[j] # "compact"
        /\ \A k \in i + 1 .. j - 1 : s[k] = "compact"
        => (s[i] = "join") # (s[j] = "join")

LEMMA SaidNext ==
    ASSUME NEW s \in Seq(Events), NEW e \in Events, Alternating(s),
           e = "join" => ~JoinedLast(s), e \in {"departed", "leave"} => JoinedLast(s)
    PROVE  /\ Alternating(Append(s, e))
           /\ JoinedLast(Append(s, e)) <=> IF e = "compact" THEN JoinedLast(s) ELSE e = "join"
<1> DEFINE t == Append(s, e)
           n == Len(s)
<1>1. n \in Nat /\ Len(t) = n + 1 /\ t[n + 1] = e /\ \A i \in 1 .. n : t[i] = s[i]
  OBVIOUS
<1> HIDE DEF t, n
<1>2. n = Len(s)
  BY DEF n
<1>3. JoinedLast(t) <=> IF e = "compact" THEN JoinedLast(s) ELSE e = "join"
  <2>1. CASE e = "compact"
    <3>1. ASSUME JoinedLast(s)
          PROVE  JoinedLast(t)
      <4>1. PICK i \in 1 .. n : s[i] = "join" /\ \A k \in i + 1 .. n : s[k] = "compact"
        BY <3>1, <1>2 DEF JoinedLast
      <4>2. \A k \in i + 1 .. n + 1 : k \in i + 1 .. n \/ k = n + 1
        BY <1>1
      <4>3. \A k \in i + 1 .. n + 1 : t[k] = "compact"
        BY <1>1, <2>1, <4>1, <4>2
      <4> QED
        BY <1>1, <4>1, <4>3 DEF JoinedLast
    <3>2. ASSUME JoinedLast(t)
          PROVE  JoinedLast(s)
      <4>1. PICK i \in 1 .. n + 1 : t[i] = "join" /\ \A k \in i + 1 .. n + 1 : t[k] = "compact"
        BY <1>1, <3>2 DEF JoinedLast
      <4>2. i \in 1 .. n
        BY <1>1, <2>1, <4>1
      <4> QED
        BY <1>1, <1>2, <4>1, <4>2 DEF JoinedLast
    <3> QED
      BY <2>1, <3>1, <3>2
  <2>2. CASE e = "join"
    BY <1>1, <2>2 DEF JoinedLast
  <2>3. CASE e \notin {"compact", "join"}
    BY <1>1, <2>3 DEF JoinedLast
  <2> QED
    BY <2>1, <2>2, <2>3
<1>4. Alternating(t)
  <2> SUFFICES ASSUME NEW i \in 1 .. n + 1, NEW j \in 1 .. n + 1, i < j, t[i] # "compact", t[j] # "compact",
                      \A k \in i + 1 .. j - 1 : t[k] = "compact"
               PROVE  (t[i] = "join") # (t[j] = "join")
    BY <1>1 DEF Alternating
  <2>1. i \in 1 .. n /\ t[i] = s[i]
    BY <1>1
  <2>2. CASE j \in 1 .. n
    BY <1>1, <1>2, <2>1, <2>2 DEF Alternating
  <2>3. CASE j = n + 1
    <3>1. t[j] = e /\ e # "compact" /\ \A k \in i + 1 .. n : s[k] = "compact"
      BY <1>1, <2>1, <2>3
    <3>2. JoinedLast(s) <=> s[i] = "join"
      <4>1. s[i] = "join" => JoinedLast(s)
        BY <1>2, <2>1, <3>1 DEF JoinedLast
      <4>2. ASSUME JoinedLast(s)
            PROVE  s[i] = "join"
        <5>1. PICK l \in 1 .. n : s[l] = "join" /\ \A k \in l + 1 .. n : s[k] = "compact"
          BY <1>2, <4>2 DEF JoinedLast
        <5>2. ~(i < l) /\ ~(l < i)
          BY <1>1, <2>1, <3>1, <5>1
        <5> QED
          BY <1>1, <2>1, <5>1, <5>2
      <4> QED
        BY <4>1, <4>2
    <3> QED
      BY <2>1, <3>1, <3>2 DEF Events
  <2> QED
    BY <1>1, <2>2, <2>3
<1> QED
  BY <1>3, <1>4 DEF t

LEMMA SaidStep == IInv /\ [Next]_vars => OnlineAsSaid' /\ JoinsAlternate'
<1> SUFFICES ASSUME IInv, [Next]_vars
             PROVE  OnlineAsSaid' /\ JoinsAlternate'
  OBVIOUS
<1> DEFINE Fine(c) == (rec[c].online <=> JoinedLast(said[c])) /\ Alternating(said[c])
<1>0. /\ TypeOK /\ Paired /\ \A c \in Sources : Fine(c)
      /\ said \in [Sources -> Seq(Events)]
  BY DEF IInv, TypeOK, OnlineAsSaid, JoinsAlternate, JoinedLast, Alternating
<1>1. CASE UNCHANGED said /\ \A c \in Sources : rec'[c].online = rec[c].online
  BY <1>0, <1>1 DEF OnlineAsSaid, JoinsAlternate, JoinedLast, Alternating
<1>2. ASSUME NEW c \in Sources, NEW e \in Events, Noted(c, e)
      PROVE  OnlineAsSaid' /\ JoinsAlternate'
  <2>1. /\ said' = [said EXCEPT ![c] = Append(@, e)] /\ Turns(e, rec[c].online, rec'[c].online)
        /\ \A d \in Sources : d # c => rec'[d] = rec[d]
    BY <1>0, <1>2 DEF Noted, Notes, Says, TypeOK
  <2>2. said'[c] = Append(said[c], e) /\ \A d \in Sources : d # c => said'[d] = said[d]
    BY <1>0, <2>1
  <2>3. rec[c].online \in BOOLEAN /\ rec'[c].online \in BOOLEAN
    BY <1>0, <1>2, JournalIs DEF TypeOK, Noted, Notes
  <2>4. /\ e = "join" => ~JoinedLast(said[c])
        /\ e \in {"departed", "leave"} => JoinedLast(said[c])
    BY <1>0, <2>1, <2>3 DEF Turns
  <2>5. /\ Alternating(said'[c])
        /\ JoinedLast(said'[c]) <=> IF e = "compact" THEN JoinedLast(said[c]) ELSE e = "join"
    BY <1>0, <2>2, <2>4, SaidNext
  <2>6. rec'[c].online <=> JoinedLast(said'[c])
    BY <1>0, <2>1, <2>3, <2>5 DEF Turns
  <2>7. \A d \in Sources : (rec'[d].online <=> JoinedLast(said'[d])) /\ Alternating(said'[d])
    BY <1>0, <2>1, <2>2, <2>5, <2>6
  <2> QED
    BY <2>7 DEF OnlineAsSaid, JoinsAlternate, JoinedLast, Alternating
<1>3. ASSUME NEW c \in Sources, Unnoted(c) \/ ((Popped(c) \/ Ticked(c)) /\ UNCHANGED <<said, aimed>>)
      PROVE  UNCHANGED said /\ \A d \in Sources : rec'[d].online = rec[d].online
  BY <1>0, <1>3 DEF Unnoted, Same, SaysNothing, Popped, Ticked, TypeOK
<1> QED
  BY <1>0, <1>1, <1>2, <1>3, JournalStep

-----------------------------------------------------------------------------
(* Where the notices are. *)

\* The head of a journal only gets newer.
LEMMA HeadMoves ==
    ASSUME IInv, [Next]_vars, NEW c \in Sources, NEW n \in Nat, UpToHead(n, rec[c])
    PROVE  UpToHead(n, rec'[c])
<1>0. TypeOK /\ Paired /\ Numbered
  BY DEF IInv
<1>1. CASE rec'[c] = rec[c]
  BY <1>1
<1>2. CASE \E e \in Events : Noted(c, e)
  <2>1. PICK e \in Events : Noted(c, e)
    BY <1>2
  <2>2. /\ Len(rec'[c].outbox) = Len(rec[c].outbox) + 1 /\ Len(rec[c].outbox) \in Nat
        /\ rec'[c].seq = rec[c].seq + 1 /\ rec[c].seq \in Nat /\ n <= rec[c].seq
    BY <1>0, <2>1, NotedOutbox, OutboxOf DEF UpToHead
  <2>3. CASE rec[c].outbox = <<>>
    <3>1. rec'[c].outbox[1] = Fresh(c, rec[c]) /\ Fresh(c, rec[c]).seq = rec[c].seq + 1
      BY <1>0, <2>1, <2>3, NotedOutbox
    <3> QED
      BY <2>2, <3>1 DEF UpToHead
  <2>4. CASE rec[c].outbox # <<>>
    <3>1. 1 \in 1 .. Len(rec[c].outbox)
      BY <1>0, <2>2, <2>4, OutboxOf
    <3>2. rec'[c].outbox[1] = rec[c].outbox[1]
      BY <1>0, <2>1, <3>1, NotedOutbox
    <3> QED
      BY <2>2, <2>4, <3>2 DEF UpToHead
  <2> QED
    BY <2>3, <2>4
<1>3. CASE Unnoted(c)
  BY <1>3 DEF Unnoted, Same, UpToHead
<1>4. CASE Popped(c)
  <2>1. /\ Len(rec[c].outbox) >= 1 /\ Len(rec'[c].outbox) = Len(rec[c].outbox) - 1
        /\ Len(rec[c].outbox) \in Nat /\ rec'[c].seq = rec[c].seq /\ rec[c].seq \in Nat
        /\ rec[c].outbox # <<>>
    BY <1>0, <1>4, PoppedOutbox, OutboxOf
  <2>2. ASSUME rec'[c].outbox # <<>>
        PROVE  n <= rec'[c].outbox[1].seq
    <3>1. rec'[c].outbox \in Seq(Transition)
      BY <1>4, JournalIs DEF Popped, Outboxes
    <3>2. Len(rec'[c].outbox) >= 1
      BY <2>2, <3>1
    <3>3. rec'[c].outbox[1] = rec[c].outbox[1 + 1] /\ 1 \in 1 .. Len(rec[c].outbox) /\ 1 + 1 \in 1 .. Len(rec[c].outbox)
      BY <1>0, <1>4, <2>1, <3>2, PoppedOutbox
    <3>4. /\ rec[c].outbox[1].seq = rec[c].seq - Len(rec[c].outbox) + 1
          /\ rec[c].outbox[1 + 1].seq = rec[c].seq - Len(rec[c].outbox) + (1 + 1)
      BY <1>0, <3>3 DEF Numbered
    <3>5. n <= rec[c].outbox[1].seq
      BY <2>1 DEF UpToHead
    <3> QED
      BY <2>1, <3>3, <3>4, <3>5
  <2> QED
    BY <2>1, <2>2 DEF UpToHead
<1>5. CASE Ticked(c)
  <2>1. /\ rec[c].outbox \in Seq(Transition) /\ rec'[c].outbox \in Seq(Transition)
        /\ Len(rec'[c].outbox) = Len(rec[c].outbox) /\ rec'[c].seq = rec[c].seq
    BY <1>0, <1>5, OutboxOf, JournalIs DEF Ticked, Outboxes
  <2>2. rec'[c].outbox # <<>> => rec[c].outbox # <<>> /\ rec'[c].outbox[1].seq = rec[c].outbox[1].seq
    BY <1>5, <2>1 DEF Ticked
  <2> QED
    BY <2>1, <2>2 DEF UpToHead
<1>6. ASSUME NEW d \in Sources, d # c,
             (\E e \in Events : Noted(d, e)) \/ Unnoted(d) \/ Popped(d) \/ Ticked(d)
      PROVE  rec'[c] = rec[c]
  BY <1>0, <1>6 DEF Noted, Unnoted, Popped, Ticked, TypeOK
<1> QED
  BY <1>0, <1>1, <1>2, <1>3, <1>4, <1>5, <1>6, JournalStep

\* A notice is appended, under the locks, where it was not found.
Appended(c) ==
    /\ Locked(c) /\ StillThere(Target(c))
    /\ \A i \in 1 .. Len(inbox[Target(c).alias]) :
          inbox[Target(c).alias][i] # <<c, HeadNotice(c).seq>>
    /\ inbox' = [inbox EXCEPT ![Target(c).alias] = Append(@, <<c, HeadNotice(c).seq>>)]
    /\ UNCHANGED <<reg, rec, aimed>>

\* Otherwise an inbox is emptied, or stays with its registration, renamed
\* perhaps.
Moved ==
    \A a \in Aliases :
        inbox'[a] = <<>> \/ \E b \in Aliases : inbox'[a] = inbox[b] /\ reg'[a].epoch = reg[b].epoch

LEMMA InboxStep ==
    ASSUME TypeOK, Paired, [Next]_vars
    PROVE  Moved \/ \E c \in Sources : Appended(c)
<1>0. inbox \in [Aliases -> Seq(Sources \X Nat)] /\ reg \in [Aliases -> [epoch : Nat, kind : Kinds]]
  BY DEF TypeOK
<1>1. UNCHANGED <<inbox, reg>> => Moved
  BY DEF Moved
<1>2. ASSUME NEW c \in Sources,
             \/ Detach(c) \/ Tick(c) \/ ObserveCompaction(c) \/ Disconnect(c) \/ Reconnect(c)
             \/ Compact(c) \/ FlushPops(c) \/ FlushLocks(c) \/ FlushTimesOut(c)
             \/ FlushDisowned(c) \/ FlushSaves(c)
      PROVE  Moved
  BY <1>1, <1>2 DEF Detach, Tick, ObserveCompaction, Disconnect, Reconnect, Compact, FlushPops,
     FlushLocks, FlushTimesOut, FlushDisowned, FlushSaves
<1>3. ASSUME NEW c \in Sources, FlushAppends(c)
      PROVE  Moved \/ Appended(c)
  BY <1>1, <1>3 DEF FlushAppends, Appended
<1>4. ASSUME NEW c \in Sources, FlushAppendFails(c)
      PROVE  Moved \/ Appended(c)
  BY <1>1, <1>4 DEF FlushAppendFails, Appended
<1>5. ASSUME NEW a \in Aliases, Remove(a) \/ Register(a)
      PROVE  Moved
  <2>1. inbox' = [inbox EXCEPT ![a] = <<>>] /\ \A b \in Aliases : b # a => reg'[b] = reg[b]
    BY <1>0, <1>5 DEF Remove, Register
  <2> QED
    BY <1>0, <2>1 DEF Moved
<1>6. ASSUME NEW a \in Aliases, ListenerDies(a) \/ ListenerArms(a)
      PROVE  Moved
  <2>1. inbox' = inbox /\ \E k \in Kinds : reg' = [reg EXCEPT ![a].kind = k]
    BY <1>6 DEF ListenerDies, ListenerArms, Kinds
  <2>2. \A b \in Aliases : reg'[b].epoch = reg[b].epoch
    BY <1>0, <2>1
  <2> QED
    BY <2>1, <2>2 DEF Moved
<1>7. ASSUME NEW a \in Aliases, NEW b \in Aliases, RenameStarts(a, b)
      PROVE  Moved
  BY <1>1, <1>7 DEF RenameStarts
<1>8. CASE RenameLocks
  <2>1. CASE UNCHANGED <<inbox, reg>>
    BY <1>1, <2>1
  <2>2. CASE /\ rename.pc = "second"
             /\ reg' = [reg EXCEPT ![rename.to] = [reg[rename.from] EXCEPT !.kind = "dead"],
                                   ![rename.from] = Nobody]
             /\ inbox' = [inbox EXCEPT ![rename.to] = inbox[rename.from], ![rename.from] = <<>>]
    <3> DEFINE to == rename.to
               from == rename.from
    <3>1. to \in Aliases /\ from \in Aliases /\ from # to
      BY <2>2 DEF Paired
    <3>2. /\ inbox'[from] = <<>> /\ inbox'[to] = inbox[from] /\ reg'[to].epoch = reg[from].epoch
          /\ \A a \in Aliases : a # from /\ a # to => inbox'[a] = inbox[a] /\ reg'[a] = reg[a]
      BY <1>0, <2>2, <3>1
    <3> HIDE DEF to, from
    <3> QED
      BY <3>1, <3>2 DEF Moved
  <2> QED
    BY <1>8, <2>1, <2>2 DEF RenameLocks
<1>9. Crash \/ RenameTimesOut \/ UNCHANGED vars => Moved
  BY <1>1 DEF Crash, RenameTimesOut, vars
<1> QED
  BY <1>2, <1>3, <1>4, <1>5, <1>6, <1>7, <1>8, <1>9 DEF Next, Flush, Renaming
\* What is appended is newer than what its source has placed, and no older
\* than what it had recorded.
LEMMA AppendedIsNew ==
    ASSUME IInv, NEW c \in Sources, Appended(c)
    PROVE  LET a == Target(c).alias  n == HeadNotice(c).seq IN
           /\ a \in Aliases /\ n \in Nat /\ n <= rec[c].seq
           /\ rec[c].outbox # <<>> /\ rec[c].outbox[1].seq = n
           /\ <<<<c, n>>, reg[a].epoch>> \in aimed
           /\ \A i \in 1 .. Len(inbox[a]) : inbox[a][i][1] = c => inbox[a][i][2] < n
<1> DEFINE a == Target(c).alias
           n == HeadNotice(c).seq
<1>0. TypeOK /\ Paired /\ Numbered /\ ForOthers /\ PlacedUpToHead
  BY DEF IInv
<1>1. Unfinished(c) /\ pc[c] = "second"
  BY <1>0 DEF Appended, Locked, Paired
<1>2. /\ Len(rec[c].outbox) \in Nat /\ Len(rec[c].outbox) >= 1 /\ rec[c].outbox # <<>>
      /\ HeadNotice(c) = rec[c].outbox[1] /\ HeadNotice(c) \in Transition
      /\ Target(c) \in HeadNotice(c).to /\ Target(c) \in Recipient
  BY <1>0, <1>1, TargetIsPending DEF Unfinished, Pending
<1>3. a \in Aliases /\ n \in Nat /\ rec[c].outbox[1].seq = n
  BY <1>2 DEF Transition, Recipient
<1>4. 1 \in 1 .. Len(rec[c].outbox) /\ rec[c].seq \in Nat
  BY <1>0, <1>2, OutboxOf
<1>5. n = rec[c].seq - Len(rec[c].outbox) + 1
  BY <1>0, <1>3, <1>4 DEF Numbered
<1>6. n <= rec[c].seq
  BY <1>2, <1>3, <1>4, <1>5
<1>7. <<<<c, n>>, reg[a].epoch>> \in aimed
  <2>1. <<<<c, n>>, Target(c).epoch>> \in aimed
    BY <1>0, <1>2, <1>3, <1>4 DEF ForOthers
  <2>2. reg[a].epoch = Target(c).epoch
    BY DEF Appended, StillThere
  <2> QED
    BY <2>1, <2>2
<1>8. ASSUME NEW i \in 1 .. Len(inbox[a]), inbox[a][i][1] = c
      PROVE  inbox[a][i][2] < n
  <2>1. inbox[a] \in Seq(Sources \X Nat)
    BY <1>0, <1>3 DEF TypeOK
  <2>2. inbox[a][i] \in Sources \X Nat
    BY <2>1
  <2>3. UpToHead(inbox[a][i][2], rec[c])
    BY <1>0, <1>3, <1>8 DEF PlacedUpToHead
  <2>4. inbox[a][i][2] <= n
    BY <1>2, <1>3, <2>3 DEF UpToHead
  <2>5. inbox[a][i] # <<c, n>>
    BY DEF Appended
  <2>6. inbox[a][i][2] # n /\ inbox[a][i][2] \in Nat
    BY <1>8, <2>2, <2>5
  <2> QED
    BY <1>3, <2>4, <2>6
<1> HIDE DEF a, n
<1>9. /\ a \in Aliases /\ n \in Nat /\ n <= rec[c].seq
      /\ rec[c].outbox # <<>> /\ rec[c].outbox[1].seq = n
      /\ <<<<c, n>>, reg[a].epoch>> \in aimed
      /\ \A i \in 1 .. Len(inbox[a]) : inbox[a][i][1] = c => inbox[a][i][2] < n
  BY <1>2, <1>3, <1>6, <1>7, <1>8
<1> QED
  BY <1>9 DEF a, n

\* The inbox of the target gains the notice, every other stays as it is.
LEMMA AppendedShape ==
    ASSUME TypeOK, NEW c \in Sources, NEW a \in Aliases, Appended(c), a = Target(c).alias
    PROVE  /\ Len(inbox[a]) \in Nat /\ Len(inbox'[a]) = Len(inbox[a]) + 1
           /\ \A i \in 1 .. Len(inbox[a]) : inbox'[a][i] = inbox[a][i]
           /\ inbox'[a][Len(inbox[a]) + 1] = <<c, HeadNotice(c).seq>>
           /\ \A b \in Aliases : b # a => inbox'[b] = inbox[b]
<1>1. inbox \in [Aliases -> Seq(Sources \X Nat)] /\ inbox[a] \in Seq(Sources \X Nat)
  BY DEF TypeOK
<1>2. inbox'[a] = Append(inbox[a], <<c, HeadNotice(c).seq>>) /\ \A b \in Aliases : b # a => inbox'[b] = inbox[b]
  BY <1>1 DEF Appended
<1> QED
  BY <1>1, <1>2

LEMMA InboxOf ==
    ASSUME TypeOK, NEW a \in Aliases, NEW i \in 1 .. Len(inbox[a])
    PROVE  inbox[a][i] \in Sources \X Nat /\ inbox[a][i][1] \in Sources /\ inbox[a][i][2] \in Nat
<1>1. inbox[a] \in Seq(Sources \X Nat)
  BY DEF TypeOK
<1>2. inbox[a][i] \in Sources \X Nat
  BY <1>1
<1> QED
  BY <1>2

LEMMA PlacedStep == IInv /\ [Next]_vars => PlacedUpToHead'
<1> SUFFICES ASSUME IInv, [Next]_vars
             PROVE  PlacedUpToHead'
  OBVIOUS
<1>0. TypeOK /\ Paired /\ PlacedUpToHead
  BY DEF IInv
<1>1. ASSUME NEW b \in Aliases, NEW i \in 1 .. Len(inbox[b])
      PROVE  UpToHead(inbox[b][i][2], rec'[inbox[b][i][1]])
  <2>1. inbox[b][i][1] \in Sources /\ inbox[b][i][2] \in Nat
    BY <1>0, InboxOf
  <2>2. UpToHead(inbox[b][i][2], rec[inbox[b][i][1]])
    BY <1>0 DEF PlacedUpToHead
  <2> QED
    BY <2>1, <2>2, HeadMoves
<1>2. CASE Moved
  <2>1. ASSUME NEW a \in Aliases, NEW i \in 1 .. Len(inbox'[a])
        PROVE  UpToHead(inbox'[a][i][2], rec'[inbox'[a][i][1]])
    <3>1. inbox'[a] # <<>>
      BY <2>1
    <3>2. PICK b \in Aliases : inbox'[a] = inbox[b]
      BY <1>2, <3>1 DEF Moved
    <3> QED
      BY <1>1, <3>2
  <2> QED
    BY <2>1 DEF PlacedUpToHead, UpToHead
<1>3. ASSUME NEW c \in Sources, Appended(c)
      PROVE  PlacedUpToHead'
  <2> DEFINE a == Target(c).alias
             n == HeadNotice(c).seq
  <2>1. a \in Aliases /\ UpToHead(n, rec[c])
    <3>1. a \in Aliases /\ n \in Nat /\ n <= rec[c].seq /\ rec[c].outbox[1].seq = n
      BY <1>3, AppendedIsNew
    <3> HIDE DEF a, n
    <3> QED
      BY <3>1 DEF UpToHead
  <2>2. rec' = rec
    BY <1>3 DEF Appended
  <2>3. ASSUME NEW b \in Aliases, NEW i \in 1 .. Len(inbox'[b])
        PROVE  UpToHead(inbox'[b][i][2], rec'[inbox'[b][i][1]])
    <3>1. CASE b # a
      BY <1>0, <1>1, <1>3, <2>1, <2>3, <3>1, AppendedShape
    <3>2. CASE b = a /\ i \in 1 .. Len(inbox[a])
      BY <1>0, <1>1, <1>3, <2>1, <2>3, <3>2, AppendedShape
    <3>3. CASE b = a /\ i = Len(inbox[a]) + 1
      <4>1. inbox'[b][i] = <<c, n>>
        BY <1>0, <1>3, <2>1, <3>3, AppendedShape
      <4> QED
        BY <2>1, <2>2, <4>1
    <3> HIDE DEF a
    <3>4. b = a => i \in 1 .. Len(inbox[a]) \/ i = Len(inbox[a]) + 1
      <4>1. Len(inbox[a]) \in Nat /\ Len(inbox'[a]) = Len(inbox[a]) + 1
        BY <1>0, <1>3, <2>1, AppendedShape DEF a
      <4> QED
        BY <2>3, <4>1
    <3> QED
      BY <3>1, <3>2, <3>3, <3>4
  <2> QED
    BY <2>3 DEF PlacedUpToHead, UpToHead
<1> QED
  BY <1>0, <1>2, <1>3, InboxStep

LEMMA WellPlacedStep == IInv /\ [Next]_vars => NoticesWellPlaced'
<1> SUFFICES ASSUME IInv, [Next]_vars
             PROVE  NoticesWellPlaced'
  OBVIOUS
<1>0. TypeOK /\ Paired /\ NoticesWellPlaced /\ aimed \subseteq aimed'
  BY AimedGrows DEF IInv
\* Said of one inbox, so that it can move.
<1> DEFINE Placed(q, e) ==
               \A i, j \in 1 .. Len(q) :
                   /\ <<q[i], e>> \in aimed'
                   /\ i < j /\ q[i][1] = q[j][1] => q[i][2] < q[j][2]
<1>1. \A b \in Aliases : Placed(inbox[b], reg[b].epoch)
  BY <1>0 DEF NoticesWellPlaced
<1>2. CASE Moved
  <2>1. ASSUME NEW a \in Aliases
        PROVE  Placed(inbox'[a], reg'[a].epoch)
    <3>1. CASE inbox'[a] = <<>>
      <4>1. Len(inbox'[a]) = 0
        BY <3>1
      <4> QED
        BY <4>1
    <3>2. CASE \E b \in Aliases : inbox'[a] = inbox[b] /\ reg'[a].epoch = reg[b].epoch
      BY <1>1, <3>2
    <3> QED
      BY <1>2, <3>1, <3>2 DEF Moved
  <2> QED
    BY <2>1 DEF NoticesWellPlaced
<1>3. ASSUME NEW c \in Sources, Appended(c)
      PROVE  NoticesWellPlaced'
  <2> DEFINE a == Target(c).alias
             n == HeadNotice(c).seq
  <2>1. /\ a \in Aliases /\ <<<<c, n>>, reg[a].epoch>> \in aimed
        /\ \A i \in 1 .. Len(inbox[a]) : inbox[a][i][1] = c => inbox[a][i][2] < n
    BY <1>3, AppendedIsNew
  <2>2. reg' = reg
    BY <1>3 DEF Appended
  <2>3. /\ Len(inbox[a]) \in Nat /\ Len(inbox'[a]) = Len(inbox[a]) + 1
        /\ \A i \in 1 .. Len(inbox[a]) : inbox'[a][i] = inbox[a][i]
        /\ inbox'[a][Len(inbox[a]) + 1] = <<c, n>>
        /\ \A b \in Aliases : b # a => inbox'[b] = inbox[b]
    BY <1>0, <1>3, <2>1, AppendedShape
  <2> HIDE DEF a, n
  <2>4. ASSUME NEW i \in 1 .. Len(inbox'[a]), NEW j \in 1 .. Len(inbox'[a])
        PROVE  /\ <<inbox'[a][i], reg'[a].epoch>> \in aimed'
               /\ i < j /\ inbox'[a][i][1] = inbox'[a][j][1] => inbox'[a][i][2] < inbox'[a][j][2]
    <3>1. /\ i \in 1 .. Len(inbox[a]) \/ i = Len(inbox[a]) + 1
          /\ j \in 1 .. Len(inbox[a]) \/ j = Len(inbox[a]) + 1
      BY <2>3
    <3>2. <<inbox'[a][i], reg'[a].epoch>> \in aimed'
      BY <1>0, <1>1, <2>1, <2>2, <2>3, <3>1
    <3>3. ASSUME i < j, inbox'[a][i][1] = inbox'[a][j][1]
          PROVE  inbox'[a][i][2] < inbox'[a][j][2]
      <4>1. i \in 1 .. Len(inbox[a])
        BY <2>3, <3>1, <3>3
      <4>2. CASE j \in 1 .. Len(inbox[a])
        BY <1>1, <2>1, <2>3, <3>3, <4>1, <4>2
      <4>3. CASE j = Len(inbox[a]) + 1
        BY <2>1, <2>3, <3>3, <4>1, <4>3
      <4> QED
        BY <3>1, <4>2, <4>3
    <3> QED
      BY <3>2, <3>3
  <2>5. \A b \in Aliases : Placed(inbox'[b], reg'[b].epoch)
    <3>1. Placed(inbox'[a], reg'[a].epoch)
      BY <2>4
    <3>2. ASSUME NEW b \in Aliases, b # a
          PROVE  Placed(inbox'[b], reg'[b].epoch)
      <4>1. inbox'[b] = inbox[b] /\ reg'[b] = reg[b]
        BY <2>2, <2>3, <3>2
      <4> QED
        BY <1>1, <4>1
    <3> HIDE DEF Placed
    <3> QED
      BY <3>1, <3>2
  <2> QED
    BY <2>5 DEF NoticesWellPlaced
<1> QED
  BY <1>0, <1>2, <1>3, InboxStep

-----------------------------------------------------------------------------
(* The locks. *)

\* The next recipient, as a function of the outbox alone.
TargetOf(o) == CHOOSE t \in Head(o).to : \A u \in Head(o).to : t.alias <= u.alias

\* Nothing that p's locks depend on changes.
Alike(p) ==
    /\ p = Cli => rename' = rename
    /\ p \in Sources => rec'[p] = rec[p] /\ pc'[p] = pc[p]

LEMMA LocksAlike ==
    ASSUME NEW p \in Procs
    PROVE  /\ (p \in Sources => rec'[p] = rec[p]) /\ (p = Cli => rename.from' = rename.from /\ rename.to' = rename.to)
              => First(p)' = First(p)
           /\ Alike(p) => Between(p)' = Between(p)
<1>1. Target(p) = TargetOf(rec[p].outbox)
  BY DEF Target, TargetOf, HeadNotice
<1>2. Target(p)' = TargetOf(rec'[p].outbox)
  BY DEF Target, TargetOf, HeadNotice
<1>3. Cli \notin Sources
  BY Aliased
<1>4. First(p)' = IF p = Cli THEN LockOrder(rename'.from, rename'.to)[1] ELSE LockOrder(p, Target(p)'.alias)[1]
  BY DEF First
<1>5. First(p) = IF p = Cli THEN LockOrder(rename.from, rename.to)[1] ELSE LockOrder(p, Target(p).alias)[1]
  BY DEF First
<1>6. ASSUME (p \in Sources => rec'[p] = rec[p]) /\ (p = Cli => rename.from' = rename.from /\ rename.to' = rename.to)
      PROVE  First(p)' = First(p)
  <2>1. CASE p = Cli
    BY <1>4, <1>5, <1>6, <2>1
  <2>2. CASE p \in Sources /\ p # Cli
    <3>1. Target(p)' = Target(p)
      BY <1>1, <1>2, <1>6, <2>2
    <3> QED
      BY <1>4, <1>5, <2>2, <3>1
  <2> QED
    BY <2>1, <2>2 DEF Procs
<1>7. Alike(p) => Between(p)' = Between(p)
  BY <1>3 DEF Alike, Between, Procs
<1> QED
  BY <1>6, <1>7

\* The locks keep their order when those that p holds after the step it held
\* before, and what they depend on stays.
LEMMA LocksStay ==
    ASSUME LocksInOrder,
           \A p \in Procs, a \in Aliases : lock'[a] = p =>
              \/ lock[a] = p /\ (Between(p) => Alike(p))
              \/ Between(p)' /\ a = First(p)'
    PROVE  LocksInOrder'
<1> SUFFICES ASSUME NEW p \in Procs, NEW a \in Aliases, lock'[a] = p
             PROVE  Between(p)' /\ a = First(p)'
  BY DEF LocksInOrder
<1>1. CASE lock[a] = p /\ (Between(p) => Alike(p))
  <2>1. Between(p) /\ a = First(p) /\ Alike(p)
    BY <1>1 DEF LocksInOrder
  <2>2. (p \in Sources => rec'[p] = rec[p]) /\ (p = Cli => rename.from' = rename.from /\ rename.to' = rename.to)
    BY <2>1 DEF Alike
  <2> QED
    BY <2>1, <2>2, LocksAlike
<1> QED
  BY <1>1

\* An operation of c leaves the others alone.
LEMMA OnlyC ==
    ASSUME TypeOK, Paired, NEW c \in Sources,
           \/ Detach(c) \/ Tick(c) \/ ObserveCompaction(c) \/ Disconnect(c) \/ Reconnect(c)
           \/ Compact(c) \/ Flush(c)
    PROVE  /\ rename' = rename
           /\ \A d \in Sources : d # c => rec'[d] = rec[d] /\ pc'[d] = pc[d]
<1>0. rec \in [Sources -> Journal] /\ pc \in [Sources -> {"idle", "flush", "second", "save"}]
  BY DEF TypeOK
<1>1. rename' = rename
  BY DEF Detach, Tick, ObserveCompaction, Disconnect, Reconnect, Compact, Flush, FlushPops,
     FlushLocks, FlushTimesOut, FlushAppends, FlushAppendFails, FlushDisowned, FlushSaves
<1>2. \A d \in Sources : d # c => pc'[d] = pc[d]
  BY <1>0 DEF Detach, Tick, ObserveCompaction, Disconnect, Reconnect, Compact, Flush, FlushPops,
     FlushLocks, FlushTimesOut, FlushAppends, FlushAppendFails, FlushDisowned, FlushSaves
<1>3. CASE Detach(c) \/ Tick(c) \/ ObserveCompaction(c) \/ Disconnect(c) \/ Reconnect(c)
  BY <1>0, <1>1, <1>2, <1>3, Journalled DEF Noted, Unnoted
<1>4. CASE FlushPops(c)
  BY <1>0, <1>1, <1>2, <1>4, FlushPopsShape DEF Popped
<1>5. CASE FlushSaves(c)
  <2>1. Unfinished(c)
    BY <1>5 DEF Paired, FlushSaves
  <2>2. Ticked(c) \/ rec' = rec
    BY <1>5, <2>1, FlushSavesShape DEF FlushSaves
  <2> QED
    BY <1>0, <1>1, <1>2, <2>2 DEF Ticked
<1>6. CASE Compact(c) \/ FlushLocks(c) \/ FlushTimesOut(c) \/ FlushAppends(c) \/ FlushAppendFails(c) \/ FlushDisowned(c)
  <2>1. rec' = rec
    BY <1>6 DEF Compact, FlushLocks, FlushTimesOut, FlushAppends, FlushAppendFails, FlushDisowned
  <2> QED
    BY <1>1, <1>2, <2>1
<1> QED
  BY <1>3, <1>4, <1>5, <1>6 DEF Flush

LEMMA LocksStep == IInv /\ [Next]_vars => LocksInOrder'
<1> SUFFICES ASSUME IInv, [Next]_vars
             PROVE  LocksInOrder'
  OBVIOUS
<1>0. /\ TypeOK /\ Paired /\ LocksInOrder /\ ForOthers /\ lock \in [Aliases -> Procs \cup {Free}]
      /\ pc \in [Sources -> {"idle", "flush", "second", "save"}]
  BY DEF IInv, TypeOK
<1>1. Cli \notin Sources /\ Free \notin Procs
  BY Aliased DEF Procs
<1>2. ASSUME lock' = lock, \A p \in Procs : Between(p) => Alike(p)
      PROVE  LocksInOrder'
  BY <1>0, <1>2, LocksStay
<1>3. ASSUME NEW q \in Procs, lock' = Released(q), \A p \in Procs : p # q => Alike(p)
      PROVE  LocksInOrder'
  <2>1. \A p \in Procs, a \in Aliases : lock'[a] = p => p # q /\ lock[a] = p
    BY <1>1, <1>3 DEF Released
  <2> QED
    BY <1>0, <1>3, <2>1, LocksStay
<1>4. ASSUME NEW c \in Sources,
             \/ Detach(c) \/ Tick(c) \/ ObserveCompaction(c) \/ Disconnect(c) \/ Reconnect(c)
             \/ Compact(c) \/ FlushPops(c) \/ FlushSaves(c)
      PROVE  LocksInOrder'
  <2>1. lock' = lock /\ (pc[c] # "second" \/ (pc' = pc /\ rec' = rec))
    BY <1>4 DEF Detach, Tick, ObserveCompaction, Disconnect, Reconnect, Compact, FlushPops, FlushSaves
  <2>2. /\ rename' = rename
        /\ \A d \in Sources : d # c => rec'[d] = rec[d] /\ pc'[d] = pc[d]
    BY <1>0, <1>4, OnlyC DEF Flush
  <2>3. \A p \in Procs : Between(p) => Alike(p)
    BY <1>1, <2>1, <2>2 DEF Alike, Between, Procs
  <2> QED
    BY <1>2, <2>1, <2>3
<1>5. ASSUME NEW c \in Sources, FlushLocks(c)
      PROVE  LocksInOrder'
  <2>1. /\ pc[c] = "flush" /\ Unfinished(c) /\ lock' = [lock EXCEPT ![Wants(c)] = c]
        /\ pc' = [pc EXCEPT ![c] = "second"] /\ UNCHANGED <<rec, rename>>
    BY <1>5 DEF FlushLocks
  <2>2. c \in Procs /\ Wants(c) = First(c) /\ First(c)' = First(c) /\ Between(c)'
    <3>1. c \in Procs /\ c # Cli
      BY <1>1 DEF Procs
    <3>2. Wants(c) = First(c)
      BY <2>1, <3>1 DEF Wants, First
    <3>3. Between(c)'
      BY <1>0, <2>1, <3>1 DEF Between
    <3>4. First(c)' = First(c)
      BY <2>1, <3>1, LocksAlike
    <3> QED
      BY <3>1, <3>2, <3>3, <3>4
  <2>3. \A p \in Procs : p # c => Alike(p)
    BY <1>0, <2>1 DEF Alike
  <2>4. \A p \in Procs, a \in Aliases : lock'[a] = p => lock[a] = p \/ (p = c /\ a = First(c))
    BY <1>0, <2>1, <2>2
  <2>5. ~Between(c)
    BY <1>1, <2>1 DEF Between
  <2> QED
    BY <1>0, <2>2, <2>3, <2>4, <2>5, LocksStay
<1>6. ASSUME NEW c \in Sources,
             FlushTimesOut(c) \/ FlushAppends(c) \/ FlushAppendFails(c) \/ FlushDisowned(c)
      PROVE  LocksInOrder'
  <2>1. lock' = Released(c)
    BY <1>6 DEF FlushTimesOut, FlushAppends, FlushAppendFails, FlushDisowned
  <2>2. \A p \in Procs : p # c => Alike(p)
    BY <1>0, <1>6, OnlyC DEF Flush, Alike
  <2> QED
    BY <1>3, <2>1, <2>2 DEF Procs
<1>7. CASE Crash
  <2>1. \A p \in Procs, a \in Aliases : lock'[a] = p => p = Cli /\ lock[a] = p
    BY <1>1, <1>7 DEF Crash, Procs
  <2>2. Alike(Cli)
    BY <1>1, <1>7 DEF Crash, Alike
  <2> QED
    BY <1>0, <2>1, <2>2, LocksStay
<1>8. ASSUME NEW a \in Aliases, NEW b \in Aliases,
             Remove(a) \/ Register(a) \/ ListenerDies(a) \/ ListenerArms(a) \/ RenameStarts(a, b)
      PROVE  LocksInOrder'
  <2>1. lock' = lock /\ rec' = rec /\ pc' = pc /\ (rename' = rename \/ rename.pc = "idle")
    BY <1>8 DEF Remove, Register, ListenerDies, ListenerArms, RenameStarts
  <2>2. \A p \in Procs : Between(p) => Alike(p)
    BY <1>1, <2>1 DEF Alike, Between, Procs
  <2> QED
    BY <1>2, <2>1, <2>2
<1>9. CASE Renaming
  <2>1. rec' = rec /\ pc' = pc
    BY <1>9 DEF Renaming, RenameLocks, RenameTimesOut
  <2>2. \A p \in Procs : p # Cli => Alike(p)
    BY <2>1 DEF Alike
  <2>3. CASE lock' = Released(Cli)
    BY <1>3, <2>2, <2>3 DEF Procs
  <2>4. CASE /\ rename.pc = "first" /\ lock' = [lock EXCEPT ![Wants(Cli)] = Cli]
             /\ rename' = [rename EXCEPT !.pc = "second"]
    <3>1. Cli \in Procs /\ Wants(Cli) = First(Cli) /\ ~Between(Cli)
      BY <2>4 DEF Wants, First, Between, Procs
    <3>2. rename'.pc = "second" /\ rename'.from = rename.from /\ rename'.to = rename.to
      BY <1>0, <2>4 DEF TypeOK
    <3>3. Between(Cli)' /\ First(Cli)' = First(Cli)
      BY <1>1, <3>1, <3>2, LocksAlike DEF Between
    <3>4. \A p \in Procs, a \in Aliases : lock'[a] = p => lock[a] = p \/ (p = Cli /\ a = First(Cli))
      BY <1>0, <2>4, <3>1
    <3> QED
      BY <1>0, <2>2, <3>1, <3>3, <3>4, LocksStay
  <2> QED
    BY <1>9, <2>3, <2>4 DEF Renaming, RenameLocks, RenameTimesOut
<1>10. CASE UNCHANGED vars
  BY <1>2, <1>10 DEF vars, Alike
<1> QED
  BY <1>4, <1>5, <1>6, <1>7, <1>8, <1>9, <1>10 DEF Next, Flush

LEMMA PairedStep == IInv /\ [Next]_vars => Paired'
<1> SUFFICES ASSUME IInv, [Next]_vars
             PROVE  Paired'
  OBVIOUS
<1>0. /\ TypeOK /\ Paired
      /\ pc \in [Sources -> {"idle", "flush", "second", "save"}]
      /\ rename \in [pc : {"idle", "first", "second"}, from : Aliases \cup {0}, to : Aliases \cup {0}]
  BY DEF IInv, TypeOK
<1>1. ASSUME NEW d \in Sources, rec'[d] = rec[d], Unfinished(d)
      PROVE  Unfinished(d)'
  BY <1>1 DEF Unfinished, Pending, HeadNotice
<1>2. ASSUME NEW c \in Sources,
             \/ Detach(c) \/ Tick(c) \/ ObserveCompaction(c) \/ Disconnect(c) \/ Reconnect(c)
             \/ Compact(c) \/ Flush(c)
      PROVE  Paired'
  <2>1. /\ rename' = rename
        /\ \A d \in Sources : d # c => rec'[d] = rec[d] /\ pc'[d] = pc[d]
    BY <1>0, <1>2, OnlyC
  <2>2. \/ pc'[c] \in {"idle", "flush"}
        \/ rec' = rec /\ (pc'[c] = pc[c] \/ Unfinished(c) \/ pc[c] \in {"second", "save"})
    BY <1>0, <1>2 DEF Detach, Tick, ObserveCompaction, Disconnect, Reconnect, Compact, Flush, FlushPops,
       FlushLocks, FlushTimesOut, FlushAppends, FlushAppendFails, FlushDisowned, FlushSaves, After, Locked
  <2>3. pc'[c] \in {"second", "save"} => Unfinished(c)'
    BY <1>0, <1>1, <2>2 DEF Paired
  <2>4. \A d \in Sources : pc'[d] \in {"second", "save"} => Unfinished(d)'
    BY <1>0, <1>1, <2>1, <2>3 DEF Paired
  <2> QED
    BY <1>0, <2>1, <2>4 DEF Paired
<1>3. ASSUME rec' = rec, \A d \in Sources : pc'[d] = pc[d] \/ pc'[d] = "idle",
             \/ rename'.pc = "idle"
             \/ rename.pc # "idle" /\ rename'.from = rename.from /\ rename'.to = rename.to
             \/ rename'.from \in Aliases /\ rename'.to \in Aliases /\ rename'.from # rename'.to
      PROVE  Paired'
  <2>1. \A d \in Sources : pc'[d] \in {"second", "save"} => Unfinished(d)'
    BY <1>0, <1>1, <1>3 DEF Paired
  <2> QED
    BY <1>0, <1>3, <2>1 DEF Paired
<1>4. ASSUME NEW a \in Aliases, NEW b \in Aliases,
             Remove(a) \/ Register(a) \/ ListenerDies(a) \/ ListenerArms(a) \/ RenameStarts(a, b)
      PROVE  Paired'
  BY <1>0, <1>3, <1>4 DEF Remove, Register, ListenerDies, ListenerArms, RenameStarts, Paired
<1>5. CASE Crash \/ UNCHANGED vars
  BY <1>0, <1>3, <1>5 DEF Crash, vars
<1>6. CASE Renaming
  <2>1. rec' = rec /\ pc' = pc
    BY <1>6 DEF Renaming, RenameLocks, RenameTimesOut
  <2>2. \/ rename'.pc = "idle"
        \/ rename.pc # "idle" /\ rename'.from = rename.from /\ rename'.to = rename.to
    BY <1>0, <1>6 DEF Renaming, RenameLocks, RenameTimesOut
  <2> QED
    BY <1>3, <2>1, <2>2
<1> QED
  BY <1>2, <1>4, <1>5, <1>6 DEF Next

-----------------------------------------------------------------------------
(* The types. *)

Registrations == [epoch : Nat, kind : Kinds]
Notices == Sources \X Nat
Inboxes == Seq(Notices)
Renames == [pc : {"idle", "first", "second"}, from : Aliases \cup {0}, to : Aliases \cup {0}]

\* The conjuncts of TypeOK, by what they speak of.
RosterTyped ==
    /\ epochs \in Nat /\ reg \in [Aliases -> Registrations]
    /\ \A a \in Aliases : reg[a].epoch <= epochs
InboxTyped == inbox \in [Aliases -> Inboxes] /\ torn \subseteq Aliases
LocksTyped ==
    /\ lock \in [Aliases -> Procs \cup {Free}] /\ rename \in Renames
    /\ pc \in [Sources -> {"idle", "flush", "second", "save"}]
JournalTyped ==
    /\ rec \in [Sources -> Journal] /\ \A c \in Sources : Len(rec[c].outbox) <= MaxOutbox
    /\ said \in [Sources -> Seq(Events)]
CountersTyped == changes \in Nat /\ faults \in Nat /\ rollout \in [Sources -> Nat]

LEMMA TypeOKIs == TypeOK <=> RosterTyped /\ InboxTyped /\ LocksTyped /\ JournalTyped /\ CountersTyped
BY DEF TypeOK, RosterTyped, InboxTyped, LocksTyped, JournalTyped, CountersTyped, Registrations,
   Notices, Inboxes, Renames

LEMMA RosterStep == IInv /\ [Next]_vars => RosterTyped'
<1> SUFFICES ASSUME IInv, [Next]_vars
             PROVE  RosterTyped'
  OBVIOUS
<1>0. RosterTyped /\ Paired /\ Nobody \in Registrations /\ Nobody.epoch = 0
  BY TypeOKIs DEF IInv, Nobody, Registrations, Kinds
<1>1. CASE UNCHANGED <<reg, epochs>>
  BY <1>0, <1>1 DEF RosterTyped
<1>2. ASSUME NEW a \in Aliases, Remove(a)
      PROVE  RosterTyped'
  <2>1. reg' = [reg EXCEPT ![a] = Nobody] /\ epochs' = epochs
    BY <1>2 DEF Remove
  <2> QED
    BY <1>0, <2>1 DEF RosterTyped
<1>3. ASSUME NEW a \in Aliases, Register(a)
      PROVE  RosterTyped'
  <2>1. PICK k \in {"live", "reserved"} :
            epochs' = epochs + 1 /\ reg' = [reg EXCEPT ![a] = [epoch |-> epochs + 1, kind |-> k]]
    BY <1>3 DEF Register
  <2> DEFINE g == [epoch |-> epochs + 1, kind |-> k]
  <2>2. epochs' \in Nat /\ epochs <= epochs' /\ epochs \in Nat
    BY <1>0, <2>1 DEF RosterTyped
  <2>3. g \in Registrations /\ g.epoch = epochs'
    BY <2>1, <2>2 DEF Registrations, Kinds
  <2>4. reg' = [reg EXCEPT ![a] = g]
    BY <2>1
  <2> HIDE DEF g
  <2>5. reg' \in [Aliases -> Registrations]
    BY <1>0, <2>3, <2>4 DEF RosterTyped
  <2>6. \A b \in Aliases : reg'[b].epoch <= epochs'
    <3> TAKE b \in Aliases
    <3>1. CASE b = a
      BY <1>0, <2>2, <2>3, <2>4, <3>1 DEF RosterTyped
    <3>2. CASE b # a
      <4>1. reg'[b] = reg[b] /\ reg[b].epoch <= epochs /\ reg[b].epoch \in Nat
        BY <1>0, <2>4, <3>2 DEF RosterTyped, Registrations
      <4> QED
        BY <2>2, <4>1
    <3> QED
      BY <3>1, <3>2
  <2> QED
    BY <2>2, <2>5, <2>6 DEF RosterTyped
<1>4. ASSUME NEW a \in Aliases, ListenerDies(a) \/ ListenerArms(a)
      PROVE  RosterTyped'
  <2>1. epochs' = epochs /\ \E k \in Kinds : reg' = [reg EXCEPT ![a].kind = k]
    BY <1>4 DEF ListenerDies, ListenerArms, Kinds
  <2> QED
    BY <1>0, <2>1 DEF RosterTyped, Registrations
<1>5. CASE RenameLocks
  <2>1. CASE UNCHANGED reg
    BY <1>1, <1>5, <2>1 DEF RenameLocks
  <2>2. CASE /\ rename.pc = "second"
             /\ reg' = [reg EXCEPT ![rename.to] = [reg[rename.from] EXCEPT !.kind = "dead"],
                                   ![rename.from] = Nobody]
    <3> DEFINE g == [reg[rename.from] EXCEPT !.kind = "dead"]
    <3>1. rename.to \in Aliases /\ rename.from \in Aliases /\ epochs' = epochs
      BY <1>0, <1>5, <2>2 DEF Paired, RenameLocks
    <3>2. g \in Registrations /\ g.epoch <= epochs
      BY <1>0, <3>1 DEF RosterTyped, Registrations, Kinds
    <3>3. reg' = [[reg EXCEPT ![rename.to] = g] EXCEPT ![rename.from] = Nobody]
      BY <2>2
    <3> HIDE DEF g
    <3> QED
      BY <1>0, <3>1, <3>2, <3>3 DEF RosterTyped
  <2> QED
    BY <1>5, <2>1, <2>2 DEF RenameLocks
<1>6. ASSUME NEW c \in Sources,
             \/ Detach(c) \/ Tick(c) \/ ObserveCompaction(c) \/ Disconnect(c) \/ Reconnect(c)
             \/ Compact(c) \/ Flush(c)
      PROVE  UNCHANGED <<reg, epochs>>
  BY <1>6 DEF Detach, Tick, ObserveCompaction, Disconnect, Reconnect, Compact, Flush, FlushPops,
     FlushLocks, FlushTimesOut, FlushAppends, FlushAppendFails, FlushDisowned, FlushSaves
<1>7. ASSUME NEW a \in Aliases, NEW b \in Aliases, RenameStarts(a, b)
      PROVE  UNCHANGED <<reg, epochs>>
  BY <1>7 DEF RenameStarts
<1>8. Crash \/ RenameTimesOut \/ UNCHANGED vars => UNCHANGED <<reg, epochs>>
  BY DEF Crash, RenameTimesOut, vars
<1> QED
  BY <1>1, <1>2, <1>3, <1>4, <1>5, <1>6, <1>7, <1>8 DEF Next, Renaming

LEMMA InboxTypeStep == IInv /\ [Next]_vars => InboxTyped'
<1> SUFFICES ASSUME IInv, [Next]_vars
             PROVE  InboxTyped'
  OBVIOUS
<1>0. TypeOK /\ InboxTyped /\ Paired /\ <<>> \in Inboxes
  BY TypeOKIs DEF IInv, Inboxes
<1>1. CASE UNCHANGED <<inbox, torn>>
  BY <1>0, <1>1 DEF InboxTyped
<1>2. ASSUME NEW c \in Sources, FlushAppends(c) \/ FlushAppendFails(c)
      PROVE  InboxTyped'
  <2> DEFINE a == Target(c).alias
             id == <<c, HeadNotice(c).seq>>
  <2>1. Unfinished(c)
    BY <1>0, <1>2 DEF Paired, FlushAppends, FlushAppendFails, Locked
  <2>2. a \in Aliases /\ id \in Notices
    BY <1>0, <2>1, TargetIsPending DEF Recipient, Transition, Notices
  <2>3. /\ inbox' = inbox \/ inbox' = [inbox EXCEPT ![a] = Append(@, id)]
        /\ torn' = torn \/ torn' = torn \cup {a}
    BY <1>2 DEF FlushAppends, FlushAppendFails
  <2> HIDE DEF a, id
  <2>4. inbox[a] \in Inboxes
    BY <1>0, <2>2 DEF InboxTyped
  <2>5. Append(inbox[a], id) \in Inboxes
    BY <2>2, <2>4 DEF Inboxes
  <2>6. inbox' \in [Aliases -> Inboxes]
    BY <1>0, <2>3, <2>5 DEF InboxTyped
  <2> QED
    BY <1>0, <2>2, <2>3, <2>6 DEF InboxTyped
<1>3. ASSUME NEW a \in Aliases, Remove(a) \/ Register(a)
      PROVE  InboxTyped'
  <2>1. inbox' = [inbox EXCEPT ![a] = <<>>] /\ torn' = torn \ {a}
    BY <1>3 DEF Remove, Register
  <2> QED
    BY <1>0, <2>1 DEF InboxTyped
<1>4. CASE RenameLocks
  <2>1. CASE UNCHANGED <<inbox, torn>>
    BY <1>1, <2>1
  <2>2. CASE /\ rename.pc = "second"
             /\ inbox' = [inbox EXCEPT ![rename.to] = inbox[rename.from], ![rename.from] = <<>>]
             /\ torn' = (torn \ {rename.from, rename.to}) \cup
                        (IF rename.from \in torn THEN {rename.to} ELSE {})
    <3>1. rename.to \in Aliases /\ rename.from \in Aliases
      BY <2>2 DEF Paired, IInv
    <3>2. inbox' \in [Aliases -> Inboxes]
      BY <1>0, <2>2, <3>1 DEF InboxTyped
    <3>3. torn' \subseteq Aliases
      BY <1>0, <2>2, <3>1 DEF InboxTyped
    <3> QED
      BY <3>2, <3>3 DEF InboxTyped
  <2> QED
    BY <1>4, <2>1, <2>2 DEF RenameLocks
<1>5. ASSUME NEW c \in Sources,
             \/ Detach(c) \/ Tick(c) \/ ObserveCompaction(c) \/ Disconnect(c) \/ Reconnect(c)
             \/ Compact(c) \/ FlushPops(c) \/ FlushLocks(c) \/ FlushTimesOut(c)
             \/ FlushDisowned(c) \/ FlushSaves(c)
      PROVE  UNCHANGED <<inbox, torn>>
  BY <1>5 DEF Detach, Tick, ObserveCompaction, Disconnect, Reconnect, Compact, FlushPops,
     FlushLocks, FlushTimesOut, FlushDisowned, FlushSaves
<1>6. ASSUME NEW a \in Aliases, NEW b \in Aliases, ListenerDies(a) \/ ListenerArms(a) \/ RenameStarts(a, b)
      PROVE  UNCHANGED <<inbox, torn>>
  BY <1>6 DEF ListenerDies, ListenerArms, RenameStarts
<1>7. Crash \/ RenameTimesOut \/ UNCHANGED vars => UNCHANGED <<inbox, torn>>
  BY DEF Crash, RenameTimesOut, vars
<1> QED
  BY <1>1, <1>2, <1>3, <1>4, <1>5, <1>6, <1>7 DEF Next, Flush, Renaming

LEMMA LocksTypeStep == IInv /\ [Next]_vars => LocksTyped'
<1> SUFFICES ASSUME IInv, [Next]_vars
             PROVE  LocksTyped'
  OBVIOUS
<1>0. LocksTyped /\ Cli \in Procs /\ \A c \in Sources : c \in Procs
  BY TypeOKIs DEF IInv, Procs
<1>1. ASSUME NEW p \in Procs, lock' = lock \/ lock' = Released(p) \/ lock' = [lock EXCEPT ![Wants(p)] = p]
      PROVE  lock' \in [Aliases -> Procs \cup {Free}]
  BY <1>0, <1>1 DEF LocksTyped, Released
<1>2. ASSUME NEW c \in Sources,
             \/ Detach(c) \/ Tick(c) \/ ObserveCompaction(c) \/ Disconnect(c) \/ Reconnect(c)
             \/ Compact(c) \/ Flush(c)
      PROVE  LocksTyped'
  <2>1. /\ rename' = rename
        /\ lock' = lock \/ lock' = Released(c) \/ lock' = [lock EXCEPT ![Wants(c)] = c]
    BY <1>2 DEF Detach, Tick, ObserveCompaction, Disconnect, Reconnect, Compact, Flush, FlushPops,
       FlushLocks, FlushTimesOut, FlushAppends, FlushAppendFails, FlushDisowned, FlushSaves
  <2>2. \/ pc' = pc
        \/ \E s \in {"idle", "flush", "second", "save"} : pc' = [pc EXCEPT ![c] = s]
    BY <1>2 DEF Detach, Tick, ObserveCompaction, Disconnect, Reconnect, Compact, Flush, FlushPops,
       FlushLocks, FlushTimesOut, FlushAppends, FlushAppendFails, FlushDisowned, FlushSaves, After
  <2>3. pc' \in [Sources -> {"idle", "flush", "second", "save"}]
    BY <1>0, <2>2 DEF LocksTyped
  <2> QED
    BY <1>0, <1>1, <2>1, <2>3 DEF LocksTyped
<1>3. CASE Crash
  BY <1>0, <1>3 DEF Crash, LocksTyped, Procs
<1>4. ASSUME NEW a \in Aliases, NEW b \in Aliases, RenameStarts(a, b)
      PROVE  LocksTyped'
  <2>1. rename' \in Renames /\ UNCHANGED <<lock, pc>>
    BY <1>4 DEF RenameStarts, Renames
  <2> QED
    BY <1>0, <2>1 DEF LocksTyped
<1>5. CASE Renaming
  <2>1. pc' = pc /\ (lock' = Released(Cli) \/ lock' = [lock EXCEPT ![Wants(Cli)] = Cli])
    BY <1>5 DEF Renaming, RenameLocks, RenameTimesOut
  <2>2. rename' = [rename EXCEPT !.pc = "second"] \/ rename' = [rename EXCEPT !.pc = "idle"]
    BY <1>5 DEF Renaming, RenameLocks, RenameTimesOut
  <2>3. rename' \in Renames
    BY <1>0, <2>2 DEF LocksTyped, Renames
  <2> QED
    BY <1>0, <1>1, <2>1, <2>3 DEF LocksTyped
<1>6. ASSUME NEW a \in Aliases, Remove(a) \/ Register(a) \/ ListenerDies(a) \/ ListenerArms(a)
      PROVE  UNCHANGED <<lock, rename, pc>>
  BY <1>6 DEF Remove, Register, ListenerDies, ListenerArms
<1>7. UNCHANGED vars => UNCHANGED <<lock, rename, pc>>
  BY DEF vars
<1>8. UNCHANGED <<lock, rename, pc>> => LocksTyped'
  BY <1>0 DEF LocksTyped
<1> QED
  BY <1>2, <1>3, <1>4, <1>5, <1>6, <1>7, <1>8 DEF Next

LEMMA JournalTypeStep == IInv /\ [Next]_vars => JournalTyped'
<1> SUFFICES ASSUME IInv, [Next]_vars
             PROVE  JournalTyped'
  OBVIOUS
<1>0. TypeOK /\ Paired /\ JournalTyped /\ MaxOutbox \in Nat
  BY TypeOKIs, PresenceAssumption DEF IInv
<1>1. CASE UNCHANGED <<rec, said>>
  BY <1>0, <1>1 DEF JournalTyped
<1>2. ASSUME NEW c \in Sources, rec' = [rec EXCEPT ![c] = rec'[c]], rec'[c] \in Journal,
             Len(rec'[c].outbox) <= MaxOutbox, said' \in [Sources -> Seq(Events)]
      PROVE  JournalTyped'
  BY <1>0, <1>2 DEF JournalTyped
<1>3. ASSUME NEW c \in Sources, NEW e \in Events, Noted(c, e)
      PROVE  JournalTyped'
  <2>1. rec' = [rec EXCEPT ![c] = rec'[c]] /\ rec'[c] \in Journal
    BY <1>3 DEF Noted, Notes
  <2>2. Len(rec'[c].outbox) <= MaxOutbox
    <3>1. Len(rec[c].outbox) \in Nat /\ Len(rec'[c].outbox) = Len(rec[c].outbox) + 1
      BY <1>0, <1>3, OutboxOf, NotedOutbox
    <3>2. ~(Len(rec[c].outbox) >= MaxOutbox)
      BY <1>3 DEF Noted, Full
    <3> QED
      BY <1>0, <3>1, <3>2
  <2>3. said' \in [Sources -> Seq(Events)]
    <3>1. said[c] \in Seq(Events) /\ said' = [said EXCEPT ![c] = Append(said[c], e)]
      BY <1>0, <1>3 DEF Noted, Says, JournalTyped
    <3>2. Append(said[c], e) \in Seq(Events)
      BY <3>1
    <3> QED
      BY <1>0, <3>1, <3>2 DEF JournalTyped
  <2> QED
    BY <1>2, <2>1, <2>2, <2>3
<1>4. ASSUME NEW c \in Sources, Unnoted(c)
      PROVE  JournalTyped'
  BY <1>0, <1>2, <1>4 DEF Unnoted, Same, SaysNothing, JournalTyped
<1>5. ASSUME NEW c \in Sources, Popped(c), UNCHANGED said
      PROVE  JournalTyped'
  <2>1. Len(rec'[c].outbox) <= MaxOutbox
    <3>1. Len(rec[c].outbox) \in Nat /\ Len(rec'[c].outbox) = Len(rec[c].outbox) - 1 /\ Len(rec[c].outbox) <= MaxOutbox
      BY <1>0, <1>5, OutboxOf, PoppedOutbox DEF JournalTyped
    <3> QED
      BY <1>0, <3>1
  <2> QED
    BY <1>0, <1>2, <1>5, <2>1 DEF Popped, JournalTyped
<1>6. ASSUME NEW c \in Sources, Ticked(c), UNCHANGED said
      PROVE  JournalTyped'
  BY <1>0, <1>2, <1>6 DEF Ticked, JournalTyped
<1> QED
  BY <1>0, <1>1, <1>3, <1>4, <1>5, <1>6, JournalStep

LEMMA CountersStep == IInv /\ [Next]_vars => CountersTyped'
<1> SUFFICES ASSUME IInv, [Next]_vars
             PROVE  CountersTyped'
  OBVIOUS
<1>0. CountersTyped /\ changes \in Nat /\ faults \in Nat
  BY TypeOKIs DEF IInv, CountersTyped
<1>1. Change => changes' \in Nat
  BY <1>0 DEF Change
<1>2. Fault => faults' \in Nat
  BY <1>0 DEF Fault
<1>3. ASSUME NEW c \in Sources, Compact(c)
      PROVE  CountersTyped'
  <2>1. rollout[c] \in Nat /\ rollout' = [rollout EXCEPT ![c] = rollout[c] + 1]
    BY <1>0, <1>3 DEF Compact, CountersTyped
  <2>2. rollout' \in [Sources -> Nat]
    BY <1>0, <2>1 DEF CountersTyped
  <2> QED
    BY <1>0, <1>1, <1>3, <2>2 DEF Compact, CountersTyped
<1>4. ASSUME NEW c \in Sources,
             \/ Detach(c) \/ Tick(c) \/ ObserveCompaction(c) \/ Disconnect(c) \/ Reconnect(c) \/ Flush(c)
      PROVE  UNCHANGED <<changes, rollout>> /\ (faults' = faults \/ Fault)
  BY <1>4 DEF Detach, Tick, ObserveCompaction, Disconnect, Reconnect, Flush, FlushPops,
     FlushLocks, FlushTimesOut, FlushAppends, FlushAppendFails, FlushDisowned, FlushSaves
<1>5. ASSUME NEW a \in Aliases, NEW b \in Aliases,
             Remove(a) \/ Register(a) \/ ListenerDies(a) \/ ListenerArms(a) \/ RenameStarts(a, b)
      PROVE  UNCHANGED <<faults, rollout>> /\ Change
  BY <1>5 DEF Remove, Register, ListenerDies, ListenerArms, RenameStarts
<1>6. Crash \/ Renaming \/ UNCHANGED vars => UNCHANGED <<changes, rollout>> /\ (faults' = faults \/ Fault)
  BY DEF Crash, Renaming, RenameLocks, RenameTimesOut, vars
<1> QED
  BY <1>0, <1>1, <1>2, <1>3, <1>4, <1>5, <1>6 DEF Next, CountersTyped

-----------------------------------------------------------------------------
(* The invariant. *)

LEMMA InitIInv == Init => IInv
<1> SUFFICES ASSUME Init
             PROVE  IInv
  OBVIOUS
<1>1. TypeOK
  <2>1. RosterTyped
    <3>1. Cardinality(Aliases) \in Nat /\ Aliases = 1 .. Cardinality(Aliases)
      BY NumberedAliases
    <3>2. \A n \in Nat : \A a \in 1 .. n : a \in Nat /\ a <= n
      OBVIOUS
    <3>3. \A a \in Aliases : a \in Nat /\ a <= Cardinality(Aliases)
      BY <3>1, <3>2
    <3>4. \A a \in Aliases : [epoch |-> a, kind |-> "live"] \in Registrations
      BY <3>3 DEF Registrations, Kinds
    <3>5. reg = [a \in Aliases |-> [epoch |-> a, kind |-> "live"]] /\ epochs = Cardinality(Aliases)
      BY DEF Init
    <3> QED
      BY <3>1, <3>3, <3>4, <3>5 DEF RosterTyped
  <2>2. InboxTyped
    BY DEF Init, InboxTyped, Inboxes
  <2>3. LocksTyped
    BY DEF Init, LocksTyped, Renames
  <2>4. JournalTyped
    <3> DEFINE r == [state |-> "ready", online |-> FALSE, overdue |-> FALSE, seq |-> 0,
                     outbox |-> <<>>, cursor |-> 0]
    <3>1. r \in Journal /\ r.outbox = <<>>
      BY JournalIs DEF Outboxes, States
    <3>2. rec = [c \in Sources |-> r]
      BY DEF Init
    <3> HIDE DEF r
    <3>3. \A c \in Sources : rec[c].outbox = <<>> /\ rec[c] \in Journal
      BY <3>1, <3>2
    <3>4. said \in [Sources -> Seq(Events)]
      BY DEF Init
    <3> QED
      BY <3>2, <3>3, <3>4, PresenceAssumption DEF JournalTyped
  <2>5. CountersTyped
    BY DEF Init, CountersTyped
  <2> QED
    BY <2>1, <2>2, <2>3, <2>4, <2>5, TypeOKIs
<1>2. LocksInOrder
  BY Aliased DEF Init, LocksInOrder, Procs
<1>3. Paired
  BY DEF Init, Paired
<1>4. Numbered /\ ForOthers /\ OnlineAsSaid
  BY DEF Init, Numbered, ForOthers, OnlineAsSaid
<1>5. PlacedUpToHead /\ NoticesWellPlaced
  BY DEF Init, PlacedUpToHead, NoticesWellPlaced
<1>6. JoinsAlternate
  BY DEF Init, JoinsAlternate
<1> QED
  BY <1>1, <1>2, <1>3, <1>4, <1>5, <1>6 DEF IInv

LEMMA Inductive == Spec => []IInv
<1>1. IInv /\ [Next]_vars => TypeOK'
  <2> SUFFICES ASSUME IInv, [Next]_vars
               PROVE  TypeOK'
    OBVIOUS
  <2>1. (RosterTyped /\ InboxTyped /\ LocksTyped /\ JournalTyped /\ CountersTyped)'
    BY RosterStep, InboxTypeStep, LocksTypeStep, JournalTypeStep, CountersStep
  <2> QED
    BY <2>1 DEF TypeOK, RosterTyped, InboxTyped, LocksTyped, JournalTyped, CountersTyped,
       Registrations, Notices, Inboxes, Renames
<1>2. IInv /\ [Next]_vars => IInv'
  BY <1>1, LocksStep, PairedStep, NumberedStep, ForOthersStep, PlacedStep, SaidStep, WellPlacedStep DEF IInv
<1> QED
  BY <1>2, InitIInv, PTL DEF Spec

\* Every variable keeps its type, and no journal outgrows its cap
\* (presence.go, preparePresence).
THEOREM Types == Spec => []TypeOK
<1>1. IInv => TypeOK
  BY DEF IInv
<1> QED
  BY <1>1, Inductive, PTL

\* Whatever a crash between an append and the save of its progress replays,
\* and whoever takes an alias in between, an inbox holds a notice at most
\* once, in the order of its source, and only for the registration it was
\* recorded for (flushPresence, appendManagedPresence).
THEOREM NoticesArePlacedWell == Spec => []NoticesWellPlaced
<1>1. IInv => NoticesWellPlaced
  BY DEF IInv
<1> QED
  BY <1>1, Inductive, PTL

\* The joins a source announces alternate with its leaves and departures
\* (applyConsumerProbe, disconnectPresence).
THEOREM Alternation == Spec => []JoinsAlternate
<1>1. IInv => JoinsAlternate
  BY DEF IInv
<1> QED
  BY <1>1, Inductive, PTL

\* However many sources fan out to each other, and with a rename of any two
\* names, no set of operations waits in a circle for peer locks
\* (lockPeersContext).
THEOREM LocksAreOrdered == Spec => []NoCircularWait
<1>1. IInv => NoCircularWait
  BY NoCircle DEF IInv
<1> QED
  BY <1>1, Inductive, PTL
=============================================================================
