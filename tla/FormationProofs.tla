--------------------------- MODULE FormationProofs ---------------------------
(***************************************************************************)
(* What holds of Formation for every set of aliases and launchers, every   *)
(* number of sessions and processes and every mix of commands: the types,  *)
(* that one session comes back once under a name, that a fork stays one,   *)
(* and that a failed launch takes nothing from a child that answered.      *)
(***************************************************************************)
EXTENDS Formation, TLAPS

(* ------------------------------------------------ the inductive invariant -- *)

Returns  == {"resume", "anchor"}
Births   == {"fork", "template", "branch", "spawn"}

\* A start that restores a session names it, and so does its process; a child
\* that is no resume has no session before it is up.
Named ==
    /\ \A l \in Launchers, a \in Aliases :
          launch[l].plan[a].how \in Returns => launch[l].plan[a].sid # NoSid
    /\ \A p \in Procs : /\ Coming(p) /\ proc[p].how \in Returns => proc[p].sid # NoSid
                        /\ proc[p].st \in {"running", "joining"} => proc[p].sid # NoSid
                        /\ proc[p].st = "opening" /\ proc[p].how \in Births => proc[p].sid = NoSid

\* A peer that is to be started is one the plan starts.
Chosen ==
    \A l \in Launchers :
       /\ \A a \in launch[l].todo : launch[l].plan[a].how # "skip"
       /\ launch[l].pc \notin {"idle", "next"} => Mine(l).how # "skip"

\* No session is known anywhere that was not handed out.
HandedOut ==
    /\ \A a \in Aliases : file[a].sid <= sids /\ (seat[a].sid = Reserved \/ seat[a].sid <= sids)
    /\ \A l \in Launchers, a \in Aliases : launch[l].plan[a].sid <= sids
    /\ \A p \in Procs : proc[p].sid <= sids

\* The session of a child that is up and has not joined is known nowhere else:
\* no formation, no registration, no plan, no other process.
Newborn ==
    \A p \in Procs : proc[p].st \in {"running", "joining"} /\ proc[p].how \in Births =>
       /\ \A a \in Aliases : file[a].sid # proc[p].sid /\ seat[a].sid # proc[p].sid
       /\ \A l \in Launchers, a \in Aliases : launch[l].plan[a].sid # proc[p].sid
       /\ \A q \in Procs : q # p => proc[q].sid # proc[p].sid

\* Launcher l holds the marker of a; process p is on its way to a behind it.
Holds(l, a) ==
    /\ launch[l].pc \in {"claimed", "recorded"} /\ launch[l].a = a
    /\ launch[l].plan[a].how \in Returns /\ ~launch[l].lost
Carries(p, a) == p \notin late /\ Coming(p) /\ proc[p].how \in Returns /\ proc[p].a = a

\* A marker stands, fresh, for whoever holds it or is on its way behind it, and
\* that is one launcher or one process.
Guarded ==
    /\ \A l \in Launchers, a \in Aliases : Holds(l, a) =>
          /\ marker[a].by = l /\ marker[a].fresh /\ marker[a].sid = launch[l].plan[a].sid
          /\ \A p \in Procs : ~Carries(p, a)
    /\ \A p \in Procs, a \in Aliases : Carries(p, a) =>
          /\ marker[a].fresh /\ marker[a].sid = proc[p].sid
          /\ \A q \in Procs : Carries(q, a) => q = p

\* Who looks at a corpse has its lock, and what is about to be replaced is one.
Locked ==
    \A l \in Launchers : LET a == launch[l].a IN
       /\ launch[l].pc \in {"peek", "swap"} => reclaim[a] = l
       /\ launch[l].pc = "swap" => marker[a] # NoMarker /\ ~marker[a].fresh

\* A peer that is not in the file is not half in it; a placeholder says how its
\* child will be born; a fork-born session's registration says so.
Marked ==
    \A a \in Aliases :
       /\ file[a].mode = "none" => file[a].sid = NoSid /\ file[a].origin = ""
       /\ seat[a].sid = Reserved => seat[a].origin \in {"fork", "fresh"}
       /\ seat[a].sid \in ledger => seat[a].origin = "fork" \/ seat[a].sid \in blurred

\* While a session joins, and no other join of it overlapped, it is registered
\* nowhere, and what was read of its birth still says what the ledger says.
Alone ==
    \A p \in Procs : proc[p].st = "joining" /\ proc[p].sid \notin blurred =>
       /\ \A a \in Aliases : seat[a].sid # proc[p].sid
       /\ \A q \in Procs : q # p /\ proc[q].st = "joining" => proc[q].sid # proc[p].sid
       /\ proc[p].sid \in ledger => proc[p].birth \in {"fork", "fresh"}

\* The record that a failing launch of a child that is no resume would take back
\* is open: it is bound to no session.
OpenRecord ==
    \A l \in Launchers :
       launch[l].pc \in {"recorded", "undo"} /\ Reserves(Mine(l).how) => launch[l].wrote.sid = NoSid

IInv == TypeOK /\ Chosen /\ Named /\ HandedOut /\ Newborn /\ Guarded /\ Locked /\ Marked /\ Alone
        /\ OpenRecord

(* ----------------------------------------------------------------- types -- *)

USE DEF NoSid

\* The sizes are numbers, and the blank records are records.
LEMMA Blanks ==
    /\ MaxSessions \in Nat /\ Reserved \notin Ids /\ NoSid \in Ids /\ Reserved \in 0 .. Reserved
    /\ Ids \subseteq 0 .. Reserved /\ Sessions \subseteq Ids
    /\ Anchor \in Aliases /\ Nobody \in Names /\ Launchers \subseteq Names /\ Nobody \notin Launchers
<1> USE FormationAssumption DEF Reserved, Ids, Sessions, Names
<1>1. MaxSessions \in Nat
  OBVIOUS
<1>2. QED
  BY <1>1

LEMMA BlankRecords ==
    /\ NoSeat \in Seats /\ NoMarker \in Markers /\ NoCoord \in Coords /\ NoProc \in Children
    /\ Skip \in Start /\ Template \in Start /\ Idle \in Launches
<1> USE Blanks
<1>1. NoSeat \in Seats
  BY DEF NoSeat, Seats, Origins
<1>2. NoMarker \in Markers /\ NoCoord \in Coords
  BY DEF NoMarker, Markers, NoCoord, Coords
<1>3. NoProc \in Children
  BY DEF NoProc, Children, Stations, Origins
<1>4. Skip \in Start /\ Template \in Start
  BY DEF Skip, Template, Start, Starts
<1>5. [a \in Aliases |-> Skip] \in Plans
  BY <1>4 DEF Plans
<1>6. Idle \in Launches
  <2> HIDE DEF Plans, Coords, NoCoord, Skip
  <2> QED
    BY <1>2, <1>5 DEF Idle, Launches, Places
<1>7. QED
  BY <1>1, <1>2, <1>3, <1>4, <1>6

\* What a launcher becomes is a launcher's state.
LEMMA BecomesTyped ==
  ASSUME TypeOK, NEW l \in Launchers, NEW f \in Launches, Becomes(l, f)
  PROVE  launch' \in [Launchers -> Launches]
BY DEF TypeOK, Becomes

LEMMA BeginTyped ==
  ASSUME NEW plan \in Plans
  PROVE  Begin(plan) \in Launches
<1>1. {a \in Aliases : plan[a] # Skip} \in SUBSET Aliases
  OBVIOUS
<1>2. Idle \in Launches
  BY BlankRecords
<1>3. QED
  BY <1>1, <1>2 DEF Begin, Launches, Places

LEMMA StepTyped ==
  ASSUME TypeOK, NEW l \in Launchers, NEW pc \in Places
  PROVE  /\ [launch[l] EXCEPT !.pc = pc] \in Launches
         /\ [launch[l] EXCEPT !.pc = pc, !.again = TRUE] \in Launches
         /\ \A a \in Aliases : [launch[l] EXCEPT !.pc = pc, !.a = a] \in Launches
<1>1. launch[l] \in Launches
  BY DEF TypeOK
<1>2. QED
  BY <1>1 DEF Launches

LEMMA DoneTyped ==
  ASSUME TypeOK, NEW l \in Launchers, NEW a, Done(l, a)
  PROVE  launch' \in [Launchers -> Launches]
<1> DEFINE todo == launch[l].todo \ {a}
           f == [Idle EXCEPT !.pc = "next", !.plan = launch[l].plan, !.todo = todo]
<1>1. launch[l] \in Launches /\ Idle \in Launches
  BY BlankRecords DEF TypeOK
<1>2. launch[l].plan \in Plans /\ todo \in SUBSET Aliases
  BY <1>1 DEF Launches
<1>3. f \in Launches
  <2> HIDE DEF todo
  <2> QED
    BY <1>1, <1>2 DEF Launches, Places
<1>4. Becomes(l, IF todo = {} THEN Idle ELSE f)
  BY DEF Done
<1> HIDE DEF todo, f
<1>5. QED
  BY <1>1, <1>3, <1>4, BecomesTyped

\* What a plan decides for a peer: nothing, a fresh start, or what the formation
\* says, with a session.
LEMMA Decided ==
  ASSUME TypeOK, NEW a \in Aliases, NEW m \in Modes \cup {"own"}, NEW gone
  PROVE  /\ Decide(a, m, gone) \in Start
         /\ Decide(a, m, gone) = Skip \/ Decide(a, m, gone).how # "skip"
         /\ \/ Decide(a, m, gone) \in {Skip, Template}
            \/ Decide(a, m, gone).sid = file[a].sid /\ file[a].sid # NoSid
<1> DEFINE mode == IF m = "own" THEN file[a].mode ELSE m
           saved == [how |-> mode, sid |-> file[a].sid]
<1>1. OnStaleFallback \in {Skip, Template} /\ Template.how # "skip"
  BY DEF OnStaleFallback, Template
<1>2. CASE file[a].mode = "none" \/ file[a].sid = NoSid
  <2>1. Decide(a, m, gone) \in {Skip, Template}
    BY <1>1, <1>2 DEF Decide
  <2>2. QED
    BY <1>1, <2>1, BlankRecords
<1>3. CASE file[a].mode # "none" /\ file[a].sid # NoSid
  <2>1. file[a] \in Peers
    BY DEF TypeOK
  <2>2. saved \in Start /\ saved.how # "skip"
    BY <2>1, <1>3 DEF Peers, Modes, Start, Starts
  <2>3. Decide(a, m, gone) \in {Skip, Template, saved}
    BY <1>1 DEF Decide
  <2>4. saved.sid = file[a].sid
    OBVIOUS
  <2> HIDE DEF saved
  <2>5. QED
    BY <1>1, <2>2, <2>3, <2>4, <1>3, BlankRecords
<1>4. QED
  BY <1>2, <1>3

\* The three ways a command becomes a plan.
LEMMA Planned ==
  ASSUME TypeOK, NEW l \in Launchers
  PROVE  /\ \A m, only : Apply(l, m, only) => \E gone :
               Becomes(l, Begin([a \in Aliases |-> IF a \in only THEN Decide(a, m, gone) ELSE Skip]))
         /\ ResumeAnchor(l) => /\ file[Anchor].sid # NoSid
                               /\ Becomes(l, Begin(Only(Anchor, [how |-> "anchor",
                                                                 sid |-> file[Anchor].sid])))
         /\ \A a \in Aliases : \A how \in {"branch", "spawn"} : StartChild(l, a, how) =>
               Becomes(l, Begin(Only(a, [how |-> how, sid |-> NoSid])))
<1>1. ASSUME NEW m, NEW only, Apply(l, m, only)
      PROVE  \E gone :
               Becomes(l, Begin([a \in Aliases |-> IF a \in only THEN Decide(a, m, gone) ELSE Skip]))
  BY <1>1, Zenon DEF Apply
<1>2. ASSUME ResumeAnchor(l)
      PROVE  /\ file[Anchor].sid # NoSid
             /\ Becomes(l, Begin(Only(Anchor, [how |-> "anchor", sid |-> file[Anchor].sid])))
  BY <1>2, Zenon DEF ResumeAnchor
<1>3. ASSUME NEW a \in Aliases, NEW how \in {"branch", "spawn"}, StartChild(l, a, how)
      PROVE  Becomes(l, Begin(Only(a, [how |-> how, sid |-> NoSid])))
  BY <1>3, Zenon DEF StartChild
<1>4. QED
  BY <1>1, <1>2, <1>3

Command(l) == \/ \E m \in Modes \cup {"own"}, only \in SUBSET Aliases : Apply(l, m, only)
              \/ ResumeAnchor(l)
              \/ \E a \in Aliases, how \in {"branch", "spawn"} : StartChild(l, a, how)

\* A command changes one launcher, to the beginning of a plan whose sessions are
\* in the file and whose returning children have one.
LEMMA CommandPlans ==
  ASSUME TypeOK, NEW l \in Launchers, Command(l)
  PROVE  \E plan \in Plans :
            /\ Becomes(l, Begin(plan))
            /\ \A a \in Aliases : /\ plan[a] = Skip \/ plan[a].how # "skip"
                                  /\ plan[a].how \in Returns => plan[a].sid # NoSid
                                  /\ plan[a].sid = NoSid \/ plan[a].sid = file[a].sid
<1>1. ASSUME NEW m \in Modes \cup {"own"}, NEW only \in SUBSET Aliases, Apply(l, m, only)
      PROVE  \E plan \in Plans :
                /\ Becomes(l, Begin(plan))
                /\ \A a \in Aliases : /\ plan[a] = Skip \/ plan[a].how # "skip"
                                      /\ plan[a].how \in Returns => plan[a].sid # NoSid
                                      /\ plan[a].sid = NoSid \/ plan[a].sid = file[a].sid
  <2>1. PICK gone :
           Becomes(l, Begin([a \in Aliases |-> IF a \in only THEN Decide(a, m, gone) ELSE Skip]))
    BY <1>1, Planned
  <2> DEFINE plan == [a \in Aliases |-> IF a \in only THEN Decide(a, m, gone) ELSE Skip]
  <2>2. ASSUME NEW a \in Aliases
        PROVE  /\ plan[a] \in Start /\ (plan[a].how \in Returns => plan[a].sid # NoSid)
               /\ plan[a].sid = NoSid \/ plan[a].sid = file[a].sid
               /\ plan[a] = Skip \/ plan[a].how # "skip"
    <3>1. plan[a] \in {Decide(a, m, gone), Skip}
      OBVIOUS
    <3> HIDE DEF plan
    <3>2. Skip.how \notin Returns /\ Template.how \notin Returns
          /\ Skip.sid = NoSid /\ Template.sid = NoSid
      BY DEF Skip, Template, Returns
    <3>3. QED
      BY <3>1, <3>2, Decided, BlankRecords
  <2>3. plan \in Plans
    BY <2>2 DEF Plans
  <2>4. QED
    BY <2>1, <2>2, <2>3
<1>2. ASSUME NEW a \in Aliases, NEW start \in Start, Becomes(l, Begin(Only(a, start))),
             start.how \in Returns => start.sid # NoSid, start.how # "skip",
             start.sid = NoSid \/ start.sid = file[a].sid
      PROVE  \E plan \in Plans :
                /\ Becomes(l, Begin(plan))
                /\ \A b \in Aliases : /\ plan[b] = Skip \/ plan[b].how # "skip"
                                      /\ plan[b].how \in Returns => plan[b].sid # NoSid
                                      /\ plan[b].sid = NoSid \/ plan[b].sid = file[b].sid
  <2>1. Skip \in Start /\ Skip.how \notin Returns /\ Skip.sid = NoSid
    BY BlankRecords DEF Skip, Returns
  <2>2. ASSUME NEW b \in Aliases
        PROVE  Only(a, start)[b] = IF b = a THEN start ELSE Skip
    BY DEF Only
  <2>3. Only(a, start) \in Plans
    BY <2>1 DEF Only, Plans
  <2>4. QED
    BY <1>2, <2>1, <2>2, <2>3
<1>3. CASE ResumeAnchor(l)
  <2> DEFINE start == [how |-> "anchor", sid |-> file[Anchor].sid]
  <2>1. file[Anchor].sid # NoSid /\ Becomes(l, Begin(Only(Anchor, start)))
    BY <1>3, Planned
  <2>2. Anchor \in Aliases /\ file[Anchor].sid \in Ids
    BY Blanks DEF TypeOK, Peers
  <2>3. start \in Start /\ start.sid = file[Anchor].sid /\ start.how # "skip"
    BY <2>2 DEF Start, Starts
  <2> HIDE DEF start
  <2>4. QED
    BY <2>1, <2>2, <2>3, <1>2
<1>4. CASE \E a \in Aliases, how \in {"branch", "spawn"} : StartChild(l, a, how)
  <2>1. PICK a \in Aliases, how \in {"branch", "spawn"} : StartChild(l, a, how)
    BY <1>4
  <2> DEFINE start == [how |-> how, sid |-> NoSid]
  <2>2. Becomes(l, Begin(Only(a, start)))
    BY <2>1, Planned
  <2>3. start \in Start /\ start.sid = NoSid /\ start.how \notin Returns \cup {"skip"}
    BY Blanks DEF Start, Starts, Returns
  <2> HIDE DEF start
  <2>4. QED
    BY <2>2, <2>3, <1>2
<1>5. QED
  BY <1>1, <1>3, <1>4 DEF Command

LEMMA UseTyped ==
  ASSUME TypeOK, NEW c \in Kinds, Use(c)
  PROVE  left' \in [Kinds -> Nat] /\ left' # left
<1>1. left \in [Kinds -> Nat]
  BY DEF TypeOK
<1> DEFINE n == left[c]
<1>2. n \in Nat /\ n > 0
  BY <1>1 DEF Use
<1>3. left' = [left EXCEPT ![c] = n - 1]
  BY DEF Use
<1>4. n - 1 \in Nat /\ n - 1 # n
  BY <1>2
<1> HIDE DEF n
<1>5. left' \in [Kinds -> Nat] /\ left'[c] = n - 1
  BY <1>1, <1>3, <1>4
<1>6. QED
  BY <1>4, <1>5 DEF n

LEMMA CommandTyped ==
  ASSUME TypeOK, NEW l \in Launchers, Command(l)
  PROVE  TypeOK'
<1>1. PICK plan \in Plans : Becomes(l, Begin(plan))
  BY CommandPlans
<1>2. launch' \in [Launchers -> Launches]
  BY <1>1, BeginTyped, BecomesTyped
<1>3. left' \in [Kinds -> Nat]
  <2>1. Use("apply") \/ Use("choose") \/ Use("anchor") \/ Use("branch") \/ Use("spawn")
    BY Zenon DEF Command, Apply, ResumeAnchor, StartChild
  <2>2. QED
    BY <2>1, UseTyped DEF Kinds
<1>4. OnlyPlans
  BY Zenon DEF Command, Apply, ResumeAnchor, StartChild
<1>5. QED
  BY <1>2, <1>3, <1>4 DEF TypeOK, OnlyPlans

LEMMA PrunedTyped ==
  ASSUME TypeOK
  PROVE  /\ Pruned \in [Aliases -> Seats]
         /\ \A a \in Aliases : Pruned[a] \in {seat[a], NoSeat}
BY BlankRecords DEF TypeOK, Pruned

LEMMA ReserveTyped ==
  ASSUME TypeOK, NEW l \in Launchers, NEW a \in Aliases, ReserveAlias(l, a)
  PROVE  TypeOK'
<1>1. UNCHANGED <<file, marker, reclaim, coord, proc, ledger, blurred, sids, left, late>>
  BY DEF ReserveAlias
<1>2. CASE Listening(a)
  <2>1. seat' = Pruned /\ Done(l, a)
    BY <1>2 DEF ReserveAlias
  <2>2. QED
    BY <1>1, <2>1, DoneTyped, PrunedTyped DEF TypeOK
<1>3. CASE ~Listening(a)
  <2> DEFINE r == [NoSeat EXCEPT !.sid = Reserved, !.origin = BornAs(launch[l].plan[a].how)]
             f == [launch[l] EXCEPT !.pc = "claimed", !.a = a]
  <2>1. seat' = [Pruned EXCEPT ![a] = r] /\ Becomes(l, f)
    BY <1>3 DEF ReserveAlias
  <2>2. r \in Seats
    BY Blanks DEF NoSeat, Seats, BornAs, Origins
  <2>3. f \in Launches
    BY StepTyped DEF Places
  <2> HIDE DEF r, f
  <2>4. seat' \in [Aliases -> Seats] /\ launch' \in [Launchers -> Launches]
    BY <2>1, <2>2, <2>3, PrunedTyped, BecomesTyped
  <2>5. QED
    BY <1>1, <2>4 DEF TypeOK
<1>4. QED
  BY <1>2, <1>3

\* The marker of a launcher at an alias.
LEMMA MyMarkerTyped ==
  ASSUME TypeOK, NEW l \in Launchers, NEW a \in Aliases
  PROVE  /\ MyMarker(l, a) \in Markers /\ MyMarker(l, a) # NoMarker
         /\ MyMarker(l, a).by = l /\ MyMarker(l, a).fresh
         /\ MyMarker(l, a).sid = launch[l].plan[a].sid
<1>1. launch[l].plan \in Plans
  BY DEF TypeOK, Launches
<1>2. launch[l].plan[a].sid \in Ids
  BY <1>1 DEF Plans, Start
<1>3. QED
  BY <1>2, Blanks DEF MyMarker, Markers, NoMarker

LEMMA LauncherAt ==
  ASSUME TypeOK, NEW l \in Launchers
  PROVE  /\ launch[l].a \in Aliases /\ launch[l].plan \in Plans /\ launch[l].pc \in Places
         /\ launch[l].wrote \in Coords /\ launch[l].prev \in Coords
         /\ Mine(l) \in Start /\ launch[l].todo \subseteq Aliases
<1>1. launch[l] \in Launches
  BY DEF TypeOK
<1>2. QED
  BY <1>1 DEF Launches, Mine, Plans

Claim(l) == Link(l) \/ Taken(l) \/ Peek(l) \/ Swap(l)

LEMMA ClaimTyped ==
  ASSUME TypeOK, NEW l \in Launchers, Claim(l)
  PROVE  TypeOK'
<1>1. OnlyMarker
  BY DEF Claim, Link, Taken, Peek, Swap
<1>2. SUFFICES /\ launch' \in [Launchers -> Launches] /\ marker' \in [Aliases -> Markers]
               /\ reclaim' \in [Aliases -> Names]
  BY <1>1, <1>2 DEF TypeOK, OnlyMarker
<1> DEFINE at == launch[l].a
<1>3. at \in Aliases /\ l \in Names /\ Nobody \in Names
  BY LauncherAt, Blanks
<1>4. CASE Link(l)
  <2>1. PICK a \in Aliases :
           /\ \/ Becomes(l, [launch[l] EXCEPT !.pc = "claimed", !.a = a])
              \/ Becomes(l, [launch[l] EXCEPT !.pc = "taken", !.a = a])
           /\ marker' \in {marker, [marker EXCEPT ![a] = MyMarker(l, a)]}
           /\ UNCHANGED reclaim
    BY <1>4, Zenon DEF Link
  <2>2. launch' \in [Launchers -> Launches]
    BY <2>1, StepTyped, BecomesTyped DEF Places
  <2>3. QED
    BY <2>1, <2>2, MyMarkerTyped DEF TypeOK
<1>5. CASE Taken(l)
  <2>1. UNCHANGED marker /\ reclaim' \in {reclaim, [reclaim EXCEPT ![at] = l]}
    BY <1>5 DEF Taken
  <2>2. \/ Done(l, at) \/ Step(l, "peek")
        \/ Becomes(l, [launch[l] EXCEPT !.pc = "link", !.again = TRUE])
    BY <1>5 DEF Taken
  <2>3. launch' \in [Launchers -> Launches]
    BY <2>2, DoneTyped, StepTyped, BecomesTyped DEF Places, Step
  <2>4. QED
    BY <2>1, <2>3, <1>3 DEF TypeOK
<1>6. CASE Peek(l)
  <2>1. UNCHANGED marker /\ reclaim' \in {reclaim, [reclaim EXCEPT ![at] = Nobody]}
    BY <1>6 DEF Peek
  <2>2. Step(l, "swap") \/ Becomes(l, [launch[l] EXCEPT !.pc = "link", !.again = TRUE])
    BY <1>6 DEF Peek
  <2>3. launch' \in [Launchers -> Launches]
    BY <2>2, StepTyped, BecomesTyped DEF Places, Step
  <2>4. QED
    BY <2>1, <2>3, <1>3 DEF TypeOK
<1>7. CASE Swap(l)
  <2>1. marker' = [marker EXCEPT ![at] = MyMarker(l, at)]
        /\ reclaim' = [reclaim EXCEPT ![at] = Nobody] /\ Step(l, "claimed")
    BY <1>7 DEF Swap
  <2>2. launch' \in [Launchers -> Launches]
    BY <2>1, StepTyped, BecomesTyped DEF Places, Step
  <2>3. QED
    BY <2>1, <2>2, <1>3, MyMarkerTyped DEF TypeOK
<1>8. QED
  BY <1>4, <1>5, <1>6, <1>7 DEF Claim

\* What a record names, and that it is open when the child is no resume.
LEMMA Recording ==
  ASSUME TypeOK, NEW l \in Launchers, RecordCoordinator(l)
  PROVE  /\ UNCHANGED <<file, seat, marker, reclaim, proc, ledger, blurred, sids, late>>
         /\ launch[l].pc = "claimed"
         /\ \/ /\ UNCHANGED left
               /\ \E wrote \in Coords :
                     /\ Mine(l).how # "resume" => wrote.sid = NoSid
                     /\ coord' = [coord EXCEPT ![launch[l].a] = wrote]
                     /\ Becomes(l, [launch[l] EXCEPT !.pc = "recorded",
                                       !.prev = coord[launch[l].a], !.wrote = wrote])
            \/ /\ Use("fail") /\ UNCHANGED coord
               /\ Step(l, "unreserve") \/ Done(l, launch[l].a)
<1> DEFINE at == launch[l].a
<1>1. UNCHANGED <<file, seat, marker, reclaim, proc, ledger, blurred, sids, late>>
      /\ launch[l].pc = "claimed"
  BY Zenon DEF RecordCoordinator, At
<1>2. ASSUME NEW c \in Coordinators(l),
             NEW wrote, wrote = IF c = Nobody THEN NoCoord
                                ELSE [by |-> c, fresh |-> TRUE,
                                      sid |-> IF Mine(l).how = "resume" THEN Mine(l).sid ELSE NoSid]
      PROVE  wrote \in Coords /\ (Mine(l).how # "resume" => wrote.sid = NoSid)
  <2>1. Mine(l) \in Start
    BY LauncherAt
  <2>2. Mine(l).sid \in Ids
    BY <2>1 DEF Start
  <2>3. c \in {l, Nobody}
    BY Zenon DEF Coordinators
  <2>4. c \in Names
    BY <2>3, Blanks
  <2>5. NoCoord \in Coords /\ NoCoord.sid = NoSid
    BY BlankRecords DEF NoCoord
  <2>6. QED
    BY <1>2, <2>2, <2>4, <2>5, Blanks DEF Coords
<1>3. CASE Use("fail") /\ UNCHANGED coord
           /\ IF Reserves(Mine(l).how) THEN Step(l, "unreserve") ELSE Done(l, at)
  BY <1>1, <1>3
<1>4. CASE \E c \in Coordinators(l) :
             LET wrote == IF c = Nobody THEN NoCoord
                          ELSE [by |-> c, fresh |-> TRUE,
                                sid |-> IF Mine(l).how = "resume" THEN Mine(l).sid ELSE NoSid] IN
             /\ coord' = [coord EXCEPT ![at] = wrote]
             /\ Becomes(l, [launch[l] EXCEPT !.pc = "recorded", !.prev = coord[at], !.wrote = wrote])
             /\ UNCHANGED left
  <2>1. PICK c \in Coordinators(l) :
             LET wrote == IF c = Nobody THEN NoCoord
                          ELSE [by |-> c, fresh |-> TRUE,
                                sid |-> IF Mine(l).how = "resume" THEN Mine(l).sid ELSE NoSid] IN
             /\ coord' = [coord EXCEPT ![at] = wrote]
             /\ Becomes(l, [launch[l] EXCEPT !.pc = "recorded", !.prev = coord[at], !.wrote = wrote])
             /\ UNCHANGED left
    BY <1>4
  <2> DEFINE w == IF c = Nobody THEN NoCoord
                  ELSE [by |-> c, fresh |-> TRUE,
                        sid |-> IF Mine(l).how = "resume" THEN Mine(l).sid ELSE NoSid]
  <2>2. w \in Coords /\ (Mine(l).how # "resume" => w.sid = NoSid)
    BY <1>2
  <2>3. /\ coord' = [coord EXCEPT ![at] = w] /\ UNCHANGED left
        /\ Becomes(l, [launch[l] EXCEPT !.pc = "recorded", !.prev = coord[at], !.wrote = w])
    BY <2>1
  <2> HIDE DEF w
  <2>4. QED
    BY <1>1, <2>2, <2>3
<1>5. QED
  BY <1>3, <1>4, Zenon DEF RecordCoordinator

\* What a launcher makes of a process, and of itself.
LEMMA Forking ==
  ASSUME TypeOK, NEW l \in Launchers, Fork(l)
  PROVE  /\ UNCHANGED <<file, seat, marker, reclaim, coord, ledger, blurred, sids>>
         /\ launch[l].pc = "recorded" /\ (left' = left \/ Use("fail"))
         /\ Done(l, launch[l].a) \/ Step(l, "undo")
         /\ UNCHANGED <<proc, late>> \/ \E p \in Procs : Opens(l, p)
BY Zenon DEF Fork, At

LEMMA Opened ==
  ASSUME TypeOK, Chosen, NEW l \in Launchers, launch[l].pc = "recorded", NEW p \in Procs, Opens(l, p)
  PROVE  \E c \in Children :
            /\ c.st = "opening" /\ c.a = launch[l].a /\ c.how = Mine(l).how
            /\ c.sid = (IF Reserves(Mine(l).how) THEN NoSid ELSE Mine(l).sid)
            /\ proc[p].st = "none" /\ proc' = [proc EXCEPT ![p] = c]
            /\ late' = IF launch[l].lost THEN late \cup {p} ELSE late
<1> DEFINE c == [st |-> "opening", a |-> launch[l].a, how |-> Mine(l).how,
                 birth |-> "", sid |-> IF Reserves(Mine(l).how) THEN NoSid ELSE Mine(l).sid]
<1>1. Mine(l) \in Start /\ launch[l].a \in Aliases /\ Mine(l).how # "skip"
  BY LauncherAt DEF Chosen
<1>2. c \in Children
  BY <1>1, Blanks DEF Start, Children, Stations, Origins
<1>3. /\ c.st = "opening" /\ c.a = launch[l].a /\ c.how = Mine(l).how
      /\ c.sid = (IF Reserves(Mine(l).how) THEN NoSid ELSE Mine(l).sid)
  OBVIOUS
<1>4. proc[p].st = "none" /\ proc' = [proc EXCEPT ![p] = c]
      /\ late' = IF launch[l].lost THEN late \cup {p} ELSE late
  BY DEF Opens
<1> HIDE DEF c
<1>5. QED
  BY <1>2, <1>3, <1>4

Launch(l) == RecordCoordinator(l) \/ Fork(l) \/ Undo(l) \/ Unreserve(l) \/ Killed(l)

\* The state of a launcher that has written a record.
LEMMA RecordedTyped ==
  ASSUME TypeOK, NEW l \in Launchers, NEW wrote \in Coords
  PROVE  [launch[l] EXCEPT !.pc = "recorded", !.prev = coord[launch[l].a], !.wrote = wrote]
            \in Launches
<1>1. launch[l] \in Launches /\ coord[launch[l].a] \in Coords
  BY LauncherAt DEF TypeOK
<1> HIDE DEF Coords
<1>2. QED
  BY <1>1 DEF Launches, Places

LEMMA LaunchTyped ==
  ASSUME TypeOK, Chosen, NEW l \in Launchers, Launch(l)
  PROVE  TypeOK'
<1> DEFINE at == launch[l].a
<1>1. at \in Aliases /\ l \in Names /\ Nobody \in Names /\ launch[l].prev \in Coords
  BY LauncherAt, Blanks
<1>2. CASE RecordCoordinator(l)
  <2>1. left' \in [Kinds -> Nat] /\ coord' \in [Aliases -> Coords]
    BY <1>2, Recording, UseTyped DEF Kinds, TypeOK
  <2>2. launch' \in [Launchers -> Launches]
    BY <1>2, Recording, RecordedTyped, StepTyped, DoneTyped, BecomesTyped DEF Step, Places
  <2>3. UNCHANGED <<file, seat, marker, reclaim, proc, ledger, blurred, sids, late>>
    BY <1>2, Recording
  <2>4. QED
    BY <2>1, <2>2, <2>3 DEF TypeOK
<1>3. CASE Fork(l)
  <2>1. left' \in [Kinds -> Nat]
    BY <1>3, Forking, UseTyped DEF Kinds, TypeOK
  <2>2. launch' \in [Launchers -> Launches]
    BY <1>3, Forking, StepTyped, DoneTyped, BecomesTyped DEF Step, Places
  <2>3. proc' \in [Procs -> Children] /\ late' \subseteq Procs
    <3>1. CASE UNCHANGED <<proc, late>>
      BY <3>1 DEF TypeOK
    <3>2. ASSUME NEW p \in Procs, Opens(l, p)
          PROVE  proc' \in [Procs -> Children] /\ late' \subseteq Procs
      <4>1. launch[l].pc = "recorded"
        BY <1>3, Zenon DEF Fork, At
      <4>2. PICK c \in Children : /\ proc' = [proc EXCEPT ![p] = c]
                                 /\ late' = IF launch[l].lost THEN late \cup {p} ELSE late
        BY <3>2, <4>1, Opened
      <4>3. QED
        BY <4>2 DEF TypeOK
    <3>3. QED
      BY <1>3, <3>1, <3>2, Forking
  <2>4. UNCHANGED <<file, seat, marker, reclaim, coord, ledger, blurred, sids>>
    BY <1>3, Forking
  <2>5. QED
    BY <2>1, <2>2, <2>3, <2>4 DEF TypeOK
<1>4. CASE Undo(l)
  <2>1. /\ UNCHANGED <<file, seat, marker, reclaim, proc, ledger, blurred, sids, left, late>>
        /\ coord' \in {coord, [coord EXCEPT ![at] = launch[l].prev]}
        /\ Step(l, "unreserve") \/ Done(l, at)
    BY <1>4 DEF Undo
  <2>2. launch' \in [Launchers -> Launches]
    BY <2>1, StepTyped, DoneTyped, BecomesTyped DEF Step, Places
  <2>3. QED
    BY <1>1, <2>1, <2>2 DEF TypeOK
<1>5. CASE Unreserve(l)
  <2>1. /\ UNCHANGED <<file, marker, reclaim, coord, proc, ledger, blurred, sids, left, late>>
        /\ seat' \in {seat, [seat EXCEPT ![at] = NoSeat]} /\ Done(l, at)
    BY <1>5 DEF Unreserve
  <2>2. launch' \in [Launchers -> Launches]
    BY <2>1, DoneTyped
  <2>3. QED
    BY <1>1, <2>1, <2>2, BlankRecords DEF TypeOK
<1>6. CASE Killed(l)
  <2>1. /\ UNCHANGED <<file, seat, marker, coord, proc, ledger, blurred, sids, late>>
        /\ Use("killed") /\ Becomes(l, Idle)
        /\ reclaim' = [a \in Aliases |-> IF reclaim[a] = l THEN Nobody ELSE reclaim[a]]
    BY <1>6 DEF Killed
  <2>2. left' \in [Kinds -> Nat]
    BY <2>1, UseTyped DEF Kinds
  <2>3. launch' \in [Launchers -> Launches]
    BY <2>1, BlankRecords, BecomesTyped
  <2>4. QED
    BY <1>1, <2>1, <2>2, <2>3 DEF TypeOK
<1>7. QED
  BY <1>2, <1>3, <1>4, <1>5, <1>6 DEF Launch

\* What happens to launchers when a marker stops guarding: nothing but a note.
LEMMA UnguardedTyped ==
  ASSUME TypeOK, NEW a \in Aliases, Unguarded(a)
  PROVE  /\ launch' \in [Launchers -> Launches] /\ late' \subseteq Procs
         /\ \A l \in Launchers :
               /\ launch'[l] = IF /\ launch[l].pc \in {"claimed", "recorded"} /\ launch[l].a = a
                                  /\ marker[a].by = l
                               THEN [launch[l] EXCEPT !.lost = TRUE] ELSE launch[l]
               /\ launch'[l].pc = launch[l].pc /\ launch'[l].a = launch[l].a
               /\ launch'[l].plan = launch[l].plan /\ launch'[l].wrote = launch[l].wrote
               /\ launch'[l].todo = launch[l].todo /\ (launch[l].lost => launch'[l].lost)
<1>1. ASSUME NEW l \in Launchers
      PROVE  LET f == [launch[l] EXCEPT !.lost = TRUE] IN
             /\ f \in Launches /\ f.pc = launch[l].pc /\ f.a = launch[l].a
             /\ f.plan = launch[l].plan /\ f.wrote = launch[l].wrote
             /\ f.todo = launch[l].todo /\ f.lost
  <2>1. launch[l] \in Launches
    BY DEF TypeOK
  <2>2. QED
    BY <2>1 DEF Launches
<1>2. \A l \in Launchers : launch[l] \in Launches
  BY DEF TypeOK
<1>3. late' \subseteq Procs
  BY DEF Unguarded, TypeOK
<1>4. launch' = [l \in Launchers |->
          IF launch[l].pc \in {"claimed", "recorded"} /\ launch[l].a = a /\ marker[a].by = l
          THEN [launch[l] EXCEPT !.lost = TRUE] ELSE launch[l]]
  BY DEF Unguarded
<1>5. QED
  BY <1>1, <1>2, <1>3, <1>4

\* What a join makes of a record has its type.
LEMMA SettledTyped ==
  ASSUME NEW r \in Coords, NEW s \in Ids
  PROVE  Settled(r, s) \in Coords
BY BlankRecords DEF Settled, Coords

LEMMA BirthTyped ==
  ASSUME TypeOK, NEW a \in Aliases, NEW s
  PROVE  Birth(a, s) \in Origins
BY DEF TypeOK, Seats, Birth, Origins

\* What a join finds before it has the lock.
LEMMA Looking ==
  ASSUME NEW p \in Procs, JoinLooks(p)
  PROVE  /\ proc[p].st = "running" /\ seat' = Pruned
         /\ UNCHANGED <<file, launch, reclaim, left, marker, coord, ledger, sids, late>>
         /\ \/ proc' = [proc EXCEPT ![p].st = "joined"] /\ UNCHANGED blurred
            \/ /\ \A b \in Aliases : Pruned[b].sid # proc[p].sid
               /\ proc' = [proc EXCEPT ![p].st = "joining",
                                       ![p].birth = Birth(proc[p].a, proc[p].sid)]
               /\ blurred' = IF Overlapped(p) THEN blurred \cup {proc[p].sid} ELSE blurred
BY Zenon DEF JoinLooks, Launching

\* A join that has the lock is refused or takes the name.
Refused(p) == /\ proc' = [proc EXCEPT ![p].st = "running", ![p].birth = ""]
              /\ UNCHANGED <<seat, coord, ledger, blurred>>
Takes1(p, st) ==
    LET a == proc[p].a
        s == proc[p].sid
        birth == proc[p].birth IN
    /\ seat' = [seat EXCEPT ![a] = [sid |-> s, origin |-> birth, listener |-> "never"]]
    /\ coord' = [coord EXCEPT ![a] = Settled(coord[a], s)]
    /\ ledger' = IF birth = "fork" THEN ledger \cup {s} ELSE ledger
    /\ blurred' = IF birth = "fresh" /\ s \in ledger THEN blurred \cup {s} ELSE blurred
    /\ proc' = [proc EXCEPT ![p].st = st, ![p].birth = ""]

LEMMA Joining ==
  ASSUME NEW p \in Procs, Join(p)
  PROVE  /\ proc[p].st = "joining"
         /\ UNCHANGED <<file, launch, reclaim, left, marker, sids, late>>
         /\ Refused(p) \/ \E st \in {"arrived", "joined"} : Takes1(p, st)
<1>1. /\ proc[p].st = "joining"
      /\ UNCHANGED <<file, launch, reclaim, left, marker, sids, late>>
  BY Zenon DEF Join, Launching
<1>2. CASE Listening(proc[p].a)
  BY <1>1, <1>2, Zenon DEF Join, Refused
<1>3. CASE ~Listening(proc[p].a)
  <2> DEFINE st == IF marker[proc[p].a] = NoMarker THEN "joined" ELSE "arrived"
  <2>1. Takes1(p, st)
    BY <1>3, Zenon DEF Join, Takes1
  <2>2. st \in {"arrived", "joined"}
    OBVIOUS
  <2> HIDE DEF st
  <2> QED
    BY <1>1, <2>1, <2>2
<1> QED
  BY <1>2, <1>3

\* A process that goes one step further is a process.
LEMMA ChildTyped ==
  ASSUME TypeOK, NEW p \in Procs
  PROVE  proc[p] \in Children /\ proc[p].a \in Aliases /\ proc[p].sid \in Ids
         /\ proc[p].birth \in Origins
BY DEF TypeOK, Children

\* Process p goes to a station, with a session and a birth.
Goes(p, st, s, b) ==
    /\ proc' \in [Procs -> Children]
    /\ proc'[p].st = st /\ proc'[p].sid = s /\ proc'[p].birth = b
    /\ proc'[p].how = proc[p].how /\ proc'[p].a = proc[p].a
    /\ \A q \in Procs : q # p => proc'[q] = proc[q]

LEMMA Going ==
  ASSUME TypeOK, NEW p \in Procs, NEW st \in Stations, NEW s \in Ids, NEW b \in Origins,
         \/ proc' = [proc EXCEPT ![p].st = st] /\ s = proc[p].sid /\ b = proc[p].birth
         \/ proc' = [proc EXCEPT ![p].st = st, ![p].sid = s] /\ b = proc[p].birth
         \/ proc' = [proc EXCEPT ![p].st = st, ![p].birth = b] /\ s = proc[p].sid
  PROVE  Goes(p, st, s, b)
<1>1. proc \in [Procs -> Children] /\ proc[p] \in Children
  BY DEF TypeOK
<1> DEFINE c == [proc[p] EXCEPT !.st = st, !.sid = s, !.birth = b]
<1>2. /\ c \in Children /\ c.st = st /\ c.sid = s /\ c.birth = b
      /\ c.how = proc[p].how /\ c.a = proc[p].a
  BY <1>1 DEF Children
<1>3. proc' = [proc EXCEPT ![p] = c]
  <2>1. CASE proc' = [proc EXCEPT ![p].st = st] /\ s = proc[p].sid /\ b = proc[p].birth
    <3>1. [proc[p] EXCEPT !.st = st] = c
      BY <1>1, <2>1 DEF Children
    <3>2. proc' = [proc EXCEPT ![p] = [proc[p] EXCEPT !.st = st]]
      BY <1>1, <2>1
    <3> QED
      BY <3>1, <3>2
  <2>2. CASE proc' = [proc EXCEPT ![p].st = st, ![p].sid = s] /\ b = proc[p].birth
    <3>1. [proc[p] EXCEPT !.st = st, !.sid = s] = c
      BY <1>1, <2>2 DEF Children
    <3>2. proc' = [proc EXCEPT ![p] = [proc[p] EXCEPT !.st = st, !.sid = s]]
      BY <1>1, <2>2
    <3> QED
      BY <3>1, <3>2
  <2>3. CASE proc' = [proc EXCEPT ![p].st = st, ![p].birth = b] /\ s = proc[p].sid
    <3>1. [proc[p] EXCEPT !.st = st, !.birth = b] = c
      BY <1>1, <2>3 DEF Children
    <3>2. proc' = [proc EXCEPT ![p] = [proc[p] EXCEPT !.st = st, !.birth = b]]
      BY <1>1, <2>3
    <3> QED
      BY <3>1, <3>2
  <2> QED
    BY <2>1, <2>2, <2>3
<1> HIDE DEF c
<1> QED
  BY <1>1, <1>2, <1>3 DEF Goes

\* The ways of a process that looks, joins or clears.
LEMMA Walks ==
  ASSUME TypeOK, NEW p \in Procs, JoinLooks(p) \/ Join(p) \/ Clear(p)
  PROVE  \E st \in Stations, b \in Origins :
            /\ Goes(p, st, proc[p].sid, b) /\ UNCHANGED sids
            /\ \/ proc[p].st \in {"running", "joining"} /\ st \in {"running", "joining"}
               \/ /\ proc[p].st \in {"running", "joining", "arrived"}
                  /\ st \in {"arrived", "joined"}
<1>0. /\ proc[p].birth \in Origins /\ proc[p].sid \in Ids /\ "" \in Origins
      /\ {"running", "joining", "arrived", "joined"} \subseteq Stations
      /\ Birth(proc[p].a, proc[p].sid) \in Origins
  BY ChildTyped, BirthTyped DEF Origins, Stations
<1>1. CASE JoinLooks(p)
  <2>1. CASE proc' = [proc EXCEPT ![p].st = "joined"]
    <3>1. Goes(p, "joined", proc[p].sid, proc[p].birth)
      BY <1>0, <2>1, Going
    <3> QED
      BY <1>0, <1>1, <3>1, Looking
  <2>2. CASE proc' = [proc EXCEPT ![p].st = "joining", ![p].birth = Birth(proc[p].a, proc[p].sid)]
    <3>1. Goes(p, "joining", proc[p].sid, Birth(proc[p].a, proc[p].sid))
      BY <1>0, <2>2, Going
    <3> QED
      BY <1>0, <1>1, <3>1, Looking
  <2> QED
    BY <1>1, <2>1, <2>2, Looking
<1>2. CASE Join(p)
  <2>1. ASSUME NEW st \in {"running", "arrived", "joined"},
               proc' = [proc EXCEPT ![p].st = st, ![p].birth = ""]
        PROVE  Goes(p, st, proc[p].sid, "")
    BY <1>0, <2>1, Going
  <2>2. \E st \in {"running", "arrived", "joined"} :
           proc' = [proc EXCEPT ![p].st = st, ![p].birth = ""]
    BY <1>2, Joining DEF Refused, Takes1
  <2> QED
    BY <1>0, <1>2, <2>1, <2>2, Joining
<1>3. CASE Clear(p)
  <2>1. proc' = [proc EXCEPT ![p].st = "joined"] /\ UNCHANGED sids /\ proc[p].st = "arrived"
    BY <1>3, Zenon DEF Clear
  <2>2. Goes(p, "joined", proc[p].sid, proc[p].birth)
    BY <1>0, <2>1, Going
  <2> QED
    BY <1>0, <2>1, <2>2
<1> QED
  BY <1>1, <1>2, <1>3

LEMMA ProcessTyped ==
  ASSUME TypeOK, Named, NEW p \in Procs, Boot(p) \/ JoinLooks(p) \/ Join(p) \/ Clear(p) \/ Arm(p) \/ Exit(p)
  PROVE  TypeOK'
<1>1. CASE Boot(p)
  <2>0. /\ proc[p].sid \in Ids /\ proc[p].birth \in Origins /\ "running" \in Stations
    BY ChildTyped DEF Stations
  <2>1. UNCHANGED <<file, launch, reclaim, left, seat, marker, coord, ledger, blurred, late>>
    BY <1>1 DEF Boot, Launching
  <2>2. CASE proc[p].sid # NoSid
    <3>1. proc' = [proc EXCEPT ![p].st = "running"] /\ UNCHANGED sids
      BY <1>1, <2>2 DEF Boot
    <3>2. Goes(p, "running", proc[p].sid, proc[p].birth)
      BY <2>0, <3>1, Going
    <3>3. QED
      BY <2>1, <3>1, <3>2 DEF TypeOK, Goes
  <2>3. CASE proc[p].sid = NoSid
    <3>1. sids + 1 \in Ids
      BY <1>1, <2>3, Blanks DEF Boot, TypeOK, Ids
    <3>2. /\ sids' = sids + 1
          /\ proc' = [proc EXCEPT ![p].st = "running", ![p].sid = sids + 1]
      BY <1>1, <2>3 DEF Boot
    <3> DEFINE n == sids + 1
    <3>3. Goes(p, "running", n, proc[p].birth)
      <4> HIDE DEF n
      <4> QED
        BY <2>0, <3>1, <3>2, Going DEF n
    <3>4. QED
      BY <2>1, <3>1, <3>2, <3>3 DEF TypeOK, Goes
  <2>4. QED
    BY <2>2, <2>3
<1>a. JoinLooks(p) \/ Join(p) \/ Clear(p) => proc' \in [Procs -> Children]
  BY Walks DEF Goes
<1>b. CASE JoinLooks(p)
  <2>1. /\ seat' = Pruned /\ proc[p].st = "running"
        /\ UNCHANGED <<file, launch, reclaim, left, marker, coord, ledger, sids, late>>
    BY <1>b, Looking
  <2>2. proc[p].sid \in Sessions
    BY <2>1, ChildTyped, Blanks DEF Named, Ids, Sessions
  <2>3. blurred' \in {blurred, blurred \cup {proc[p].sid}}
    BY <1>b, Looking
  <2>4. blurred' \subseteq Sessions
    BY <2>2, <2>3 DEF TypeOK
  <2> QED
    BY <1>a, <1>b, <2>1, <2>4, PrunedTyped DEF TypeOK
<1>2. CASE Join(p)
  <2>1. UNCHANGED <<file, launch, reclaim, left, marker, sids, late>> /\ proc[p].st = "joining"
    BY <1>2, Joining
  <2>2. proc' \in [Procs -> Children]
    BY <1>a, <1>2
  <2>3. CASE Refused(p)
    BY <2>1, <2>2, <2>3 DEF Refused, TypeOK
  <2>4. ASSUME NEW st \in {"arrived", "joined"}, Takes1(p, st)
        PROVE  TypeOK'
    <3> DEFINE a == proc[p].a
               s == proc[p].sid
               birth == proc[p].birth
               r == [sid |-> s, origin |-> birth, listener |-> "never"]
               c == Settled(coord[a], s)
    <3>1. a \in Aliases /\ s \in Ids /\ s \in Sessions /\ birth \in Origins
      BY <2>1, ChildTyped, Blanks DEF Named, Ids, Sessions
    <3>2. /\ seat' = [seat EXCEPT ![a] = r] /\ coord' = [coord EXCEPT ![a] = c]
          /\ ledger' \in {ledger, ledger \cup {s}} /\ blurred' \in {blurred, blurred \cup {s}}
      BY <2>4 DEF Takes1
    <3>3. r \in Seats
      <4> HIDE DEF s, birth
      <4> QED
        BY <3>1, Blanks DEF Seats
    <3>4. c \in Coords
      <4>1. coord[a] \in Coords
        BY <3>1 DEF TypeOK
      <4> QED
        BY <3>1, <4>1, SettledTyped
    <3> HIDE DEF a, s, r, c
    <3>5. /\ seat' \in [Aliases -> Seats] /\ coord' \in [Aliases -> Coords]
          /\ ledger' \subseteq Sessions /\ blurred' \subseteq Sessions
      BY <3>1, <3>2, <3>3, <3>4 DEF TypeOK
    <3> QED
      BY <2>1, <2>2, <3>5 DEF TypeOK
  <2> QED
    BY <1>2, <2>3, <2>4, Joining
<1>3. CASE Clear(p)
  <2>1. UNCHANGED <<file, reclaim, left, seat, coord, ledger, blurred, sids>>
    BY <1>3 DEF Clear
  <2>2. proc[p].a \in Aliases /\ proc' \in [Procs -> Children]
    BY <1>a, <1>3, ChildTyped
  <2>3. \/ UNCHANGED <<marker, launch, late>>
        \/ marker' = [marker EXCEPT ![proc[p].a] = NoMarker] /\ Unguarded(proc[p].a)
    BY <1>3 DEF Clear
  <2>4. QED
    BY <2>1, <2>2, <2>3, BlankRecords, UnguardedTyped DEF TypeOK
<1>4. CASE Arm(p)
  <2>1. UNCHANGED <<file, launch, reclaim, left, marker, coord, proc, ledger, blurred, sids, late>>
    BY <1>4 DEF Arm, Launching
  <2>2. PICK a \in Aliases : seat' = [seat EXCEPT ![a].listener = "alive"]
    BY <1>4 DEF Arm
  <2>3. QED
    BY <2>1, <2>2 DEF TypeOK, Seats
<1>5. CASE Exit(p)
  <2>1. UNCHANGED <<file, launch, reclaim, marker, coord, ledger, blurred, sids>>
        /\ Use("exit") /\ late' = late \ {p}
        /\ proc' = [proc EXCEPT ![p] = [NoProc EXCEPT !.st = "dead"]]
    BY <1>5 DEF Exit
  <2>2. [NoProc EXCEPT !.st = "dead"] \in Children
    BY BlankRecords DEF Children, Stations
  <2>3. left' \in [Kinds -> Nat] /\ late' \subseteq Procs
    BY <2>1, UseTyped DEF Kinds, TypeOK
  <2>4. seat' \in [Aliases -> Seats]
    BY <1>5 DEF Exit, TypeOK, Seats
  <2>5. QED
    BY <2>1, <2>2, <2>3, <2>4 DEF TypeOK
<1>6. QED
  BY <1>1, <1>b, <1>2, <1>3, <1>4, <1>5

\* The modes and the birth of what a save writes.
LEMMA SavedPeer ==
  ASSUME TypeOK, NEW a \in Aliases
  PROVE  /\ Saved(a) \in Peers
         /\ Saved(a).sid \in {file[a].sid, NoSid, seat[a].sid} \ {Reserved}
         /\ seat[a] = NoSeat => Saved(a) = file[a]
         /\ file[a].mode # "none" => Saved(a).mode # "none" /\ Saved(a).mode = file[a].mode
         /\ seat[a] # NoSeat /\ file[a].mode = "none" =>
               /\ Saved(a).sid = (IF seat[a].sid = Reserved THEN NoSid ELSE seat[a].sid)
               /\ file[a].origin = "" => Saved(a).origin = seat[a].origin
               /\ Saved(a).mode = (IF Saved(a).sid # NoSid /\ Saved(a).origin \in {"fresh", "joined"}
                                   THEN "resume" ELSE "template")
<1> DEFINE s == IF seat[a].sid = Reserved THEN NoSid ELSE seat[a].sid
           o == IF file[a].origin = "" THEN seat[a].origin ELSE file[a].origin
           q == [file[a] EXCEPT !.sid = s, !.origin = o]
           m == NewPeerMode(q)
<1>1. file[a] \in Peers /\ seat[a] \in Seats
  BY DEF TypeOK
<1>2. s \in Ids /\ s # Reserved /\ s \in {NoSid, seat[a].sid} /\ file[a].sid # Reserved
  BY <1>1, Blanks DEF Seats, Peers, Ids, Reserved
<1>3. o \in Origins /\ (file[a].origin = "" => o = seat[a].origin)
  BY <1>1 DEF Seats, Peers
<1> HIDE DEF s, o
<1>4. q \in Peers /\ q.sid = s /\ q.origin = o /\ q.mode = file[a].mode
  BY <1>1, <1>2, <1>3 DEF Peers
<1>5. m = (IF s # NoSid /\ o \in {"fresh", "joined"} THEN "resume" ELSE "template")
  <2> HIDE DEF q
  <2> QED
    BY <1>4 DEF NewPeerMode
<1>6. /\ [q EXCEPT !.mode = m] \in Peers /\ [q EXCEPT !.mode = m].sid = s
      /\ [q EXCEPT !.mode = m].origin = o /\ [q EXCEPT !.mode = m].mode = m
  <2>1. m \in Modes
    BY <1>5 DEF Modes
  <2> HIDE DEF q, m
  <2>2. QED
    BY <1>4, <2>1 DEF Peers
<1>7. Saved(a) = IF seat[a] = NoSeat THEN file[a]
                 ELSE IF file[a].mode = "none" THEN [q EXCEPT !.mode = m] ELSE q
  BY DEF Saved, Captured, s, o
<1> HIDE DEF q, m
<1>8. s = (IF seat[a].sid = Reserved THEN NoSid ELSE seat[a].sid)
  BY DEF s
<1>9. CASE seat[a] = NoSeat
  BY <1>1, <1>2, <1>7, <1>9
<1>10. CASE seat[a] # NoSeat /\ file[a].mode = "none"
  <2>1. Saved(a).sid = s /\ Saved(a).origin = o /\ Saved(a).mode = m /\ Saved(a) \in Peers
    BY <1>6, <1>7, <1>10
  <2>2. QED
    BY <1>2, <1>3, <1>5, <1>8, <1>10, <2>1
<1>11. CASE seat[a] # NoSeat /\ file[a].mode # "none"
  <2>1. Saved(a) \in Peers /\ Saved(a).sid = s /\ Saved(a).mode = file[a].mode
    BY <1>4, <1>7, <1>11
  <2>2. QED
    BY <1>2, <1>11, <2>1
<1>12. QED
  BY <1>9, <1>10, <1>11

\* A save: every peer as captured, one of them perhaps with a mode set by hand.
LEMMA Saving ==
  ASSUME TypeOK, Save, NEW a \in Aliases
  PROVE  /\ file' \in [Aliases -> Peers]
         /\ file'[a].sid = Saved(a).sid /\ file'[a].origin = Saved(a).origin
         /\ \/ file'[a].mode = Saved(a).mode
            \/ Saved(a).mode # "none" /\ file'[a].mode \in Modes
               /\ (file'[a].mode = "template" \/ Saved(a).origin \in {"fresh", "joined"})
<1>1. \A b \in Aliases : Saved(b) \in Peers
  BY SavedPeer
<1> HIDE DEF TypeOK
<1>2. CASE file' = [b \in Aliases |-> Saved(b)]
  BY <1>1, <1>2
<1>3. CASE \E b \in Aliases, m \in Modes :
             /\ HandMode(Saved(b), m)
             /\ file' = [[c \in Aliases |-> Saved(c)] EXCEPT ![b].mode = m]
  <2>1. PICK b \in Aliases, m \in Modes :
             /\ HandMode(Saved(b), m)
             /\ file' = [[c \in Aliases |-> Saved(c)] EXCEPT ![b].mode = m]
    BY <1>3
  <2> DEFINE r == [Saved(b) EXCEPT !.mode = m]
  <2>2. r \in Peers /\ r.sid = Saved(b).sid /\ r.origin = Saved(b).origin /\ r.mode = m
    BY <1>1 DEF Peers
  <2>3. file' = [[c \in Aliases |-> Saved(c)] EXCEPT ![b] = r]
    BY <2>1
  <2>4. Saved(b).mode # "none" /\ (m = "template" \/ Saved(b).origin \in {"fresh", "joined"})
    BY <2>1 DEF HandMode
  <2> HIDE DEF r
  <2>5. QED
    BY <1>1, <2>2, <2>3, <2>4
<1>4. QED
  BY <1>2, <1>3, Zenon DEF Save

World == \/ \E l \in Launchers, a \in Aliases : RecordBootstrapCoordinator(l, a)
         \/ \E p \in Procs, a \in Aliases : StartByHand(p, a)
         \/ \E a \in Aliases : Expire(a) \/ \E b \in Aliases : Rename(a, b)
         \/ Save

\* A rename keeps the session and the birth.
LEMMA RenamedIs ==
  ASSUME TypeOK, NEW a \in Aliases
  PROVE  /\ Renamed(seat[a]) \in Seats /\ Renamed(seat[a]).sid = seat[a].sid
         /\ Renamed(seat[a]).origin = seat[a].origin
<1>1. seat[a] \in Seats
  BY DEF TypeOK
<1> QED
  BY <1>1 DEF Renamed, Seats

LEMMA WorldTyped ==
  ASSUME TypeOK, World
  PROVE  TypeOK'
<1>1. left' \in [Kinds -> Nat]
  <2>1. Use("bootstrap") \/ Use("hand") \/ Use("expire") \/ Use("rename") \/ Use("save")
    BY DEF World, RecordBootstrapCoordinator, StartByHand, Expire, Rename, Save
  <2>2. QED
    BY <2>1, UseTyped DEF Kinds
<1>2. ASSUME NEW l \in Launchers, NEW a \in Aliases, RecordBootstrapCoordinator(l, a)
      PROVE  TypeOK'
  <2> DEFINE s == IF file[a].mode = "resume" THEN file[a].sid ELSE NoSid
             r == IF a \in Orchestrators THEN NoCoord ELSE [by |-> l, fresh |-> TRUE, sid |-> s]
  <2>1. UNCHANGED <<file, seat, marker, reclaim, proc, launch, ledger, blurred, sids, late>>
        /\ coord' = [coord EXCEPT ![a] = r]
    BY <1>2 DEF RecordBootstrapCoordinator
  <2>2. s \in Ids
    BY Blanks DEF TypeOK, Peers
  <2>3. r \in Coords
    <3> HIDE DEF s
    <3> QED
      BY <2>2, Blanks, BlankRecords DEF Coords
  <2> HIDE DEF r
  <2>4. QED
    BY <1>1, <2>1, <2>3 DEF TypeOK
<1>3. ASSUME NEW p \in Procs, NEW a \in Aliases, StartByHand(p, a)
      PROVE  TypeOK'
  <2>1. UNCHANGED <<file, seat, marker, reclaim, coord, launch, ledger, blurred, late>>
    BY <1>3 DEF StartByHand
  <2>2. PICK s \in 1 .. sids + 1 :
           /\ s \in Sessions \ LiveSids /\ sids' = (IF s > sids THEN s ELSE sids)
           /\ proc' = [proc EXCEPT ![p] = [st |-> "running", a |-> a, sid |-> s, how |-> "hand", birth |-> ""]]
    BY <1>3 DEF StartByHand
  <2>3. s \in Ids
    BY <2>2, Blanks
  <2>4. [st |-> "running", a |-> a, sid |-> s, how |-> "hand", birth |-> ""] \in Children
    BY <2>3 DEF Children, Stations, Origins
  <2>5. sids' \in Ids /\ proc' \in [Procs -> Children]
    BY <2>2, <2>3, <2>4 DEF TypeOK
  <2>6. QED
    BY <1>1, <2>1, <2>5 DEF TypeOK
<1>4. ASSUME NEW a \in Aliases, Expire(a)
      PROVE  TypeOK'
  <2>1. UNCHANGED <<file, reclaim, seat, proc, ledger, blurred, sids>>
    BY <1>4 DEF Expire
  <2>2. \/ marker' = [marker EXCEPT ![a].fresh = FALSE] /\ Unguarded(a) /\ UNCHANGED coord
        \/ coord' = [coord EXCEPT ![a].fresh = FALSE] /\ UNCHANGED <<marker, launch, late>>
    BY <1>4 DEF Expire
  <2>3. [marker EXCEPT ![a].fresh = FALSE] \in [Aliases -> Markers]
        /\ [coord EXCEPT ![a].fresh = FALSE] \in [Aliases -> Coords]
    BY DEF TypeOK, Markers, Coords
  <2>4. QED
    BY <1>1, <2>1, <2>2, <2>3, UnguardedTyped DEF TypeOK
<1>5. ASSUME NEW a \in Aliases, NEW b \in Aliases, Rename(a, b)
      PROVE  TypeOK'
  <2>1. /\ UNCHANGED <<file, marker, reclaim, proc, launch, ledger, sids, late, blurred>>
        /\ seat' = [seat EXCEPT ![b] = Renamed(seat[a]), ![a] = NoSeat]
        /\ coord' = [coord EXCEPT ![b] = coord[a], ![a] = NoCoord]
    BY <1>5, Zenon DEF Rename
  <2>2. Renamed(seat[a]) \in Seats
    BY RenamedIs
  <2>3. seat' \in [Aliases -> Seats]
    BY <2>1, <2>2, BlankRecords DEF TypeOK
  <2> QED
    BY <1>1, <2>1, <2>3, BlankRecords DEF TypeOK
<1>6. ASSUME Save
      PROVE  TypeOK'
  <2>1. UNCHANGED <<seat, marker, reclaim, coord, proc, launch, ledger, blurred, sids, late>>
    BY <1>6 DEF Save
  <2>2. file' \in [Aliases -> Peers]
    BY <1>6, Saving, Blanks
  <2>3. QED
    BY <1>1, <2>1, <2>2 DEF TypeOK
<1>7. QED
  BY <1>2, <1>3, <1>4, <1>5, <1>6 DEF World

\* Every step is of one of these groups.
LEMMA Groups ==
  ASSUME Next
  PROVE  \/ \E l \in Launchers : \/ Command(l) \/ Claim(l) \/ Launch(l)
                                 \/ \E a \in Aliases : ReserveAlias(l, a)
         \/ \E p \in Procs : Boot(p) \/ JoinLooks(p) \/ Join(p) \/ Clear(p) \/ Arm(p) \/ Exit(p)
         \/ World
BY DEF Next, Command, Claim, Launch, World

LEMMA TypedStep ==
  ASSUME TypeOK, Chosen, Named, Next
  PROVE  TypeOK'
BY Groups, CommandTyped, ClaimTyped, LaunchTyped, ReserveTyped, ProcessTyped, WorldTyped

(* ---------------------------------------------- what launchers go through -- *)

Acts(l) == Claim(l) \/ Launch(l) \/ \E a \in Aliases : ReserveAlias(l, a)

Keeps(l) == /\ launch'[l].pc = launch[l].pc /\ launch'[l].a = launch[l].a
            /\ launch'[l].plan = launch[l].plan /\ launch'[l].todo = launch[l].todo
            /\ launch'[l].wrote = launch[l].wrote /\ (launch[l].lost => launch'[l].lost)

\* Launcher l has done with a peer or with everything.
Rests(l) == /\ launch'[l].pc \in {"idle", "next"} /\ launch'[l].todo \subseteq launch[l].todo
            /\ \/ launch'[l].plan = launch[l].plan
               \/ launch'[l].todo = {} /\ launch'[l].plan = [a \in Aliases |-> Skip]

\* Launcher l goes on with a peer of its plan.
Works(l) == /\ launch'[l].pc \notin {"idle", "next"} /\ launch'[l].todo = launch[l].todo
            /\ launch'[l].plan = launch[l].plan /\ launch'[l].lost = launch[l].lost
            /\ \/ launch[l].pc \notin {"idle", "next"} /\ launch'[l].a = launch[l].a
               \/ launch[l].pc = "next" /\ launch'[l].a \in launch[l].todo

LEMMA Others ==
  ASSUME TypeOK, NEW l \in Launchers, NEW f, Becomes(l, f)
  PROVE  launch'[l] = f /\ \A k \in Launchers : k # l => launch'[k] = launch[k] /\ Keeps(k)
BY DEF TypeOK, Becomes, Keeps

LEMMA DoneRests ==
  ASSUME TypeOK, NEW l \in Launchers, NEW a, Done(l, a)
  PROVE  Rests(l) /\ \A k \in Launchers : k # l => launch'[k] = launch[k] /\ Keeps(k)
<1> DEFINE todo == launch[l].todo \ {a}
           f == [Idle EXCEPT !.pc = "next", !.plan = launch[l].plan, !.todo = todo]
<1>1. Becomes(l, IF todo = {} THEN Idle ELSE f)
  BY DEF Done
<1>2. Idle.pc = "idle" /\ Idle.todo = {} /\ Idle.plan = [b \in Aliases |-> Skip]
  BY DEF Idle
<1>3. f.pc = "next" /\ f.todo = todo /\ f.plan = launch[l].plan
  <2> HIDE DEF todo
  <2> QED
    BY DEF Idle
<1>4. todo \subseteq launch[l].todo
  OBVIOUS
<1> HIDE DEF todo, f
<1>5. launch'[l] = (IF todo = {} THEN Idle ELSE f)
      /\ \A k \in Launchers : k # l => launch'[k] = launch[k] /\ Keeps(k)
  BY <1>1, Others
<1>6. QED
  BY <1>2, <1>3, <1>4, <1>5 DEF Rests

\* What remains of a launcher that only moves on.
LEMMA Moved ==
  ASSUME TypeOK, NEW l \in Launchers, NEW pc, NEW a
  PROVE  /\ LET f == [launch[l] EXCEPT !.pc = pc] IN
            f.pc = pc /\ f.a = launch[l].a /\ f.plan = launch[l].plan
            /\ f.todo = launch[l].todo /\ f.wrote = launch[l].wrote /\ f.lost = launch[l].lost
         /\ LET f == [launch[l] EXCEPT !.pc = pc, !.again = TRUE] IN
            f.pc = pc /\ f.a = launch[l].a /\ f.plan = launch[l].plan
            /\ f.todo = launch[l].todo /\ f.wrote = launch[l].wrote /\ f.lost = launch[l].lost
         /\ LET f == [launch[l] EXCEPT !.pc = pc, !.a = a] IN
            f.pc = pc /\ f.a = a /\ f.plan = launch[l].plan
            /\ f.todo = launch[l].todo /\ f.wrote = launch[l].wrote /\ f.lost = launch[l].lost
<1>1. launch[l] \in Launches
  BY DEF TypeOK
<1>2. QED
  BY <1>1 DEF Launches

LEMMA Stepped ==
  ASSUME TypeOK, NEW l \in Launchers, NEW pc,
         Step(l, pc) \/ Becomes(l, [launch[l] EXCEPT !.pc = pc, !.again = TRUE])
  PROVE  /\ launch'[l].pc = pc /\ launch'[l].a = launch[l].a /\ launch'[l].plan = launch[l].plan
         /\ launch'[l].todo = launch[l].todo /\ launch'[l].wrote = launch[l].wrote
         /\ launch'[l].lost = launch[l].lost
         /\ \A k \in Launchers : k # l => launch'[k] = launch[k] /\ Keeps(k)
<1> DEFINE f == [launch[l] EXCEPT !.pc = pc]
           g == [launch[l] EXCEPT !.pc = pc, !.again = TRUE]
<1>1. /\ f.pc = pc /\ f.a = launch[l].a /\ f.plan = launch[l].plan
      /\ f.todo = launch[l].todo /\ f.wrote = launch[l].wrote /\ f.lost = launch[l].lost
      /\ g.pc = pc /\ g.a = launch[l].a /\ g.plan = launch[l].plan
      /\ g.todo = launch[l].todo /\ g.wrote = launch[l].wrote /\ g.lost = launch[l].lost
  BY Moved
<1>2. Becomes(l, f) \/ Becomes(l, g)
  BY DEF Step
<1> HIDE DEF f, g
<1>3. (launch'[l] = f \/ launch'[l] = g)
      /\ \A k \in Launchers : k # l => launch'[k] = launch[k] /\ Keeps(k)
  BY <1>2, Others
<1>4. QED
  BY <1>1, <1>3

\* Launcher l goes on with peer a.
Takes(l, pc, a) == Becomes(l, [launch[l] EXCEPT !.pc = pc, !.a = a])

LEMMA Chose ==
  ASSUME TypeOK, NEW l \in Launchers, NEW pc, NEW a, Takes(l, pc, a)
  PROVE  /\ launch'[l].pc = pc /\ launch'[l].a = a /\ launch'[l].plan = launch[l].plan
         /\ launch'[l].todo = launch[l].todo /\ launch'[l].wrote = launch[l].wrote
         /\ launch'[l].lost = launch[l].lost
         /\ \A k \in Launchers : k # l => launch'[k] = launch[k] /\ Keeps(k)
<1> DEFINE f == [launch[l] EXCEPT !.pc = pc, !.a = a]
<1>1. /\ f.pc = pc /\ f.a = a /\ f.plan = launch[l].plan
      /\ f.todo = launch[l].todo /\ f.wrote = launch[l].wrote /\ f.lost = launch[l].lost
  BY Moved
<1> HIDE DEF f
<1>2. launch'[l] = f /\ \A k \in Launchers : k # l => launch'[k] = launch[k] /\ Keeps(k)
  BY Others DEF f, Takes
<1>3. QED
  BY <1>1, <1>2

LEMMA Wrote ==
  ASSUME TypeOK, NEW l \in Launchers, NEW wrote,
         Becomes(l, [launch[l] EXCEPT !.pc = "recorded", !.prev = coord[launch[l].a],
                                      !.wrote = wrote])
  PROVE  /\ launch'[l].pc = "recorded" /\ launch'[l].a = launch[l].a
         /\ launch'[l].plan = launch[l].plan /\ launch'[l].todo = launch[l].todo
         /\ launch'[l].wrote = wrote /\ launch'[l].lost = launch[l].lost
         /\ \A k \in Launchers : k # l => launch'[k] = launch[k] /\ Keeps(k)
<1>1. launch[l] \in Launches
  BY DEF TypeOK
<1> DEFINE f == [launch[l] EXCEPT !.pc = "recorded", !.prev = coord[launch[l].a], !.wrote = wrote]
<1>2. /\ f.pc = "recorded" /\ f.a = launch[l].a /\ f.plan = launch[l].plan
      /\ f.todo = launch[l].todo /\ f.wrote = wrote /\ f.lost = launch[l].lost
  BY <1>1 DEF Launches
<1>3. launch'[l] = f /\ \A k \in Launchers : k # l => launch'[k] = launch[k] /\ Keeps(k)
  BY Others
<1>4. QED
  BY <1>2, <1>3

\* A command leaves a launcher at the beginning of its plan.
LEMMA CommandMoves ==
  ASSUME TypeOK, NEW l \in Launchers, Command(l)
  PROVE  /\ launch'[l].pc = "next"
         /\ \A a \in Aliases :
               /\ a \in launch'[l].todo => launch'[l].plan[a].how # "skip"
               /\ launch'[l].plan[a].how \in Returns => launch'[l].plan[a].sid # NoSid
               /\ launch'[l].plan[a].sid = NoSid \/ launch'[l].plan[a].sid = file[a].sid
         /\ \A k \in Launchers : k # l => launch'[k] = launch[k] /\ Keeps(k)
<1>1. PICK plan \in Plans :
         /\ Becomes(l, Begin(plan))
         /\ \A a \in Aliases : /\ plan[a] = Skip \/ plan[a].how # "skip"
                               /\ plan[a].how \in Returns => plan[a].sid # NoSid
                               /\ plan[a].sid = NoSid \/ plan[a].sid = file[a].sid
  BY CommandPlans
<1> DEFINE todo == {a \in Aliases : plan[a] # Skip}
<1>2. Begin(plan).pc = "next" /\ Begin(plan).plan = plan /\ Begin(plan).todo = todo
  BY DEF Begin, Idle
<1>3. launch'[l] = Begin(plan) /\ \A k \in Launchers : k # l => launch'[k] = launch[k] /\ Keeps(k)
  BY <1>1, Others
<1>4. \A a \in Aliases : a \in todo => plan[a].how # "skip"
  BY <1>1
<1>5. QED
  BY <1>1, <1>2, <1>3, <1>4

\* Any other step of a launcher is a step of its work or an end of it, and the
\* record it may take back later is one it has just written.
LEMMA ActMoves ==
  ASSUME TypeOK, NEW l \in Launchers, Acts(l)
  PROVE  /\ Works(l) \/ Rests(l)
         /\ \A k \in Launchers : k # l => launch'[k] = launch[k] /\ Keeps(k)
         /\ launch'[l].pc = "undo" => /\ launch[l].pc = "recorded" /\ launch'[l].a = launch[l].a
                                      /\ launch'[l].wrote = launch[l].wrote
         /\ launch'[l].pc = "recorded" => /\ launch'[l].a = launch[l].a
                                          /\ Mine(l).how # "resume" => launch'[l].wrote.sid = NoSid
<1> DEFINE at == launch[l].a
           Goal == /\ Works(l) \/ Rests(l)
                   /\ \A k \in Launchers : k # l => launch'[k] = launch[k] /\ Keeps(k)
                   /\ launch'[l].pc = "undo" =>
                         /\ launch[l].pc = "recorded" /\ launch'[l].a = launch[l].a
                         /\ launch'[l].wrote = launch[l].wrote
                   /\ launch'[l].pc = "recorded" =>
                         /\ launch'[l].a = launch[l].a
                         /\ Mine(l).how # "resume" => launch'[l].wrote.sid = NoSid
<1>1. ASSUME NEW a, Done(l, a)
      PROVE  Goal
  BY <1>1, DoneRests DEF Rests
<1>2. ASSUME NEW pc \in {"peek", "swap", "link", "claimed", "unreserve"},
             launch[l].pc \notin {"idle", "next"},
             Step(l, pc) \/ Becomes(l, [launch[l] EXCEPT !.pc = pc, !.again = TRUE])
      PROVE  Goal
  BY <1>2, Stepped DEF Works
<1>3. CASE Claim(l)
  <2>1. CASE Link(l)
    <3>1. PICK a \in Aliases :
             /\ \/ launch[l].pc = "next" /\ a \in launch[l].todo
                \/ launch[l].pc = "link" /\ a = at
             /\ Takes(l, "claimed", a) \/ Takes(l, "taken", a)
      BY <2>1, Zenon DEF Link, Claiming, Next1, At, Takes
    <3>2. PICK pc \in {"claimed", "taken"} : Takes(l, pc, a)
      BY <3>1
    <3>3. /\ launch'[l].pc = pc /\ launch'[l].a = a /\ launch'[l].plan = launch[l].plan
          /\ launch'[l].todo = launch[l].todo /\ launch'[l].lost = launch[l].lost
          /\ \A k \in Launchers : k # l => launch'[k] = launch[k] /\ Keeps(k)
      BY <3>2, Chose
    <3>4. QED
      BY <3>1, <3>3 DEF Works
  <2>2. CASE Taken(l)
    BY <2>2, <1>1, <1>2 DEF Taken, At
  <2>3. CASE Peek(l)
    BY <2>3, <1>2 DEF Peek, At
  <2>4. CASE Swap(l)
    BY <2>4, <1>2 DEF Swap, At
  <2>5. QED
    BY <1>3, <2>1, <2>2, <2>3, <2>4 DEF Claim
<1>4. CASE Launch(l)
  <2>1. CASE RecordCoordinator(l)
    <3>1. launch[l].pc = "claimed"
      BY <2>1, Recording
    <3>2. CASE Step(l, "unreserve") \/ Done(l, at)
      BY <3>1, <3>2, <1>1, <1>2
    <3>3. ASSUME NEW wrote \in Coords, Mine(l).how # "resume" => wrote.sid = NoSid,
                 Becomes(l, [launch[l] EXCEPT !.pc = "recorded", !.prev = coord[at],
                                              !.wrote = wrote])
          PROVE  Goal
      BY <3>1, <3>3, Wrote DEF Works
    <3>4. QED
      BY <2>1, <3>2, <3>3, Recording
  <2>2. CASE Fork(l)
    <3>1. launch[l].pc = "recorded" /\ (Done(l, at) \/ Step(l, "undo"))
      BY <2>2, Zenon DEF Fork, At
    <3>2. CASE Step(l, "undo")
      <4>1. /\ launch'[l].pc = "undo" /\ launch'[l].a = at /\ launch'[l].plan = launch[l].plan
            /\ launch'[l].todo = launch[l].todo /\ launch'[l].wrote = launch[l].wrote
            /\ launch'[l].lost = launch[l].lost
            /\ \A k \in Launchers : k # l => launch'[k] = launch[k] /\ Keeps(k)
        BY <3>2, Stepped
      <4>2. QED
        BY <3>1, <4>1 DEF Works
    <3>3. QED
      BY <3>1, <3>2, <1>1
  <2>3. CASE Undo(l)
    BY <2>3, <1>1, <1>2 DEF Undo, At
  <2>4. CASE Unreserve(l)
    BY <2>4, <1>1 DEF Unreserve
  <2>5. CASE Killed(l)
    <3>1. Becomes(l, Idle)
      BY <2>5 DEF Killed
    <3>2. launch'[l] = Idle /\ \A k \in Launchers : k # l => launch'[k] = launch[k] /\ Keeps(k)
      BY <3>1, Others
    <3>3. QED
      BY <3>2 DEF Rests, Idle
  <2>6. QED
    BY <1>4, <2>1, <2>2, <2>3, <2>4, <2>5 DEF Launch
<1>5. ASSUME NEW a \in Aliases, ReserveAlias(l, a)
      PROVE  Goal
  <2>1. /\ launch[l].pc = "next" /\ a \in launch[l].todo
        /\ Done(l, a) \/ Takes(l, "claimed", a)
    BY <1>5, Zenon DEF ReserveAlias, Next1, At, Takes
  <2>2. CASE Takes(l, "claimed", a)
    <3>1. /\ launch'[l].pc = "claimed" /\ launch'[l].a = a /\ launch'[l].plan = launch[l].plan
          /\ launch'[l].todo = launch[l].todo /\ launch'[l].lost = launch[l].lost
          /\ \A k \in Launchers : k # l => launch'[k] = launch[k] /\ Keeps(k)
      BY <2>2, Chose
    <3>2. QED
      BY <2>1, <3>1 DEF Works
  <2>3. QED
    BY <2>1, <2>2, <1>1
<1>6. QED
  BY <1>3, <1>4, <1>5 DEF Acts

\* No other step moves a launcher.
LEMMA RestMoves ==
  ASSUME TypeOK, NEW l \in Launchers,
         World \/ \E p \in Procs : Boot(p) \/ JoinLooks(p) \/ Join(p) \/ Clear(p) \/ Arm(p) \/ Exit(p)
  PROVE  Keeps(l)
<1>1. CASE UNCHANGED launch
  BY <1>1 DEF Keeps
<1>2. ASSUME NEW a \in Aliases, Unguarded(a)
      PROVE  Keeps(l)
  BY <1>2, UnguardedTyped DEF Keeps
<1>3. UNCHANGED launch \/ \E a \in Aliases : Unguarded(a)
  <2>1. ASSUME NEW p \in Procs, Clear(p)
        PROVE  UNCHANGED launch \/ \E a \in Aliases : Unguarded(a)
    <3>1. proc[p].a \in Aliases
      BY ChildTyped, Blanks
    <3>2. QED
      BY <2>1, <3>1, Zenon DEF Clear
  <2>2. ASSUME NEW p \in Procs, Boot(p) \/ JoinLooks(p) \/ Join(p) \/ Arm(p) \/ Exit(p)
        PROVE  UNCHANGED launch
    BY <2>2, Zenon DEF Boot, JoinLooks, Join, Arm, Exit, Launching
  <2>3. ASSUME World
        PROVE  UNCHANGED launch \/ \E a \in Aliases : Unguarded(a)
    BY <2>3, Zenon DEF World, RecordBootstrapCoordinator, StartByHand, Expire, Rename, Save
  <2>4. QED
    BY <2>1, <2>2, <2>3
<1>4. QED
  BY <1>1, <1>2, <1>3

\* Every launcher does one of four things in a step.
LEMMA LauncherStep ==
  ASSUME TypeOK, Next, NEW l \in Launchers
  PROVE  \/ Command(l)
         \/ Acts(l)
         \/ Keeps(l)
<1>1. ASSUME NEW k \in Launchers, Command(k) \/ Acts(k)
      PROVE  Command(l) \/ Acts(l) \/ Keeps(l)
  BY <1>1, CommandMoves, ActMoves
<1>2. ASSUME World \/ \E p \in Procs : Boot(p) \/ JoinLooks(p) \/ Join(p) \/ Clear(p) \/ Arm(p) \/ Exit(p)
      PROVE  Keeps(l)
  BY <1>2, RestMoves
<1>3. QED
  BY <1>1, <1>2, Groups DEF Acts

\* A plan comes from the file, and stays, or ends.
LEMMA PlanSteps ==
  ASSUME TypeOK, Next, NEW l \in Launchers, NEW a \in Aliases
  PROVE  \/ launch'[l].plan[a] = launch[l].plan[a]
         \/ /\ launch'[l].plan[a].how \in Returns => launch'[l].plan[a].sid # NoSid
            /\ launch'[l].plan[a].sid = NoSid \/ launch'[l].plan[a].sid = file[a].sid
<1>1. CASE Command(l)
  BY <1>1, CommandMoves
<1>2. CASE Acts(l)
  <2>1. Skip.how \notin Returns /\ Skip.sid = NoSid
    BY DEF Skip, Returns
  <2>2. Works(l) \/ Rests(l)
    BY <1>2, ActMoves
  <2>3. QED
    BY <2>1, <2>2 DEF Works, Rests
<1>3. CASE Keeps(l)
  BY <1>3 DEF Keeps
<1>4. QED
  BY <1>1, <1>2, <1>3, LauncherStep

LEMMA ChosenStep ==
  ASSUME TypeOK, Chosen, Next
  PROVE  Chosen'
<1> SUFFICES ASSUME NEW l \in Launchers
             PROVE  /\ \A a \in launch'[l].todo : launch'[l].plan[a].how # "skip"
                    /\ launch'[l].pc \notin {"idle", "next"} =>
                          launch'[l].plan[launch'[l].a].how # "skip"
  BY DEF Chosen, Mine
<1>0. launch[l].todo \subseteq Aliases
  BY LauncherAt
<1>1. CASE Command(l)
  <2>1. launch'[l].todo \subseteq Aliases
    BY <1>1, CommandTyped DEF TypeOK, Launches
  <2>2. QED
    BY <1>1, <2>1, CommandMoves
<1>2. CASE Acts(l)
  <2>1. Works(l) \/ Rests(l)
    BY <1>2, ActMoves
  <2>2. QED
    BY <2>1 DEF Works, Rests, Chosen, Mine
<1>3. CASE Keeps(l)
  BY <1>3 DEF Keeps, Chosen, Mine
<1>4. QED
  BY <1>1, <1>2, <1>3, LauncherStep

LEMMA OpenRecordStep ==
  ASSUME TypeOK, OpenRecord, Next
  PROVE  OpenRecord'
<1> SUFFICES ASSUME NEW l \in Launchers, launch'[l].pc \in {"recorded", "undo"},
                    Reserves(launch'[l].plan[launch'[l].a].how)
             PROVE  launch'[l].wrote.sid = NoSid
  BY DEF OpenRecord, Mine
<1>1. CASE Command(l)
  BY <1>1, CommandMoves
<1>2. CASE Acts(l)
  <2>1. Works(l)
    BY <1>2, ActMoves DEF Rests
  <2>2. launch'[l].plan = launch[l].plan /\ launch'[l].a = launch[l].a
    BY <1>2, <2>1, ActMoves DEF Works
  <2>3. Reserves(Mine(l).how)
    BY <2>2 DEF Mine
  <2>4. CASE launch'[l].pc = "recorded"
    <3>1. Mine(l).how # "resume"
      BY <2>3 DEF Reserves
    <3>2. QED
      BY <1>2, <2>4, <3>1, ActMoves
  <2>5. CASE launch'[l].pc = "undo"
    BY <1>2, <2>3, <2>5, ActMoves DEF OpenRecord
  <2>6. QED
    BY <2>4, <2>5
<1>3. CASE Keeps(l)
  BY <1>3 DEF Keeps, OpenRecord, Mine
<1>4. QED
  BY <1>1, <1>2, <1>3, LauncherStep

(* ---------------------------------------------------- where sessions come from -- *)

\* The ways of a process: it ends, it answers, it looks or is refused, a launcher asks for it, it comes
\* up with its session or with a new one, a user starts it.
Ended(p)    == proc'[p].st = "dead" /\ proc'[p].sid = NoSid /\ sids' = sids
Answered(p) == /\ proc[p].st \in {"running", "joining", "arrived"}
               /\ proc'[p].st \in {"arrived", "joined"}
               /\ proc'[p].sid = proc[p].sid /\ sids' = sids
Looked(p)   == /\ {proc[p].st, proc'[p].st} \subseteq {"running", "joining"}
               /\ proc'[p].sid = proc[p].sid /\ proc'[p].how = proc[p].how /\ sids' = sids
               /\ JoinLooks(p) \/ Join(p)
Asked(p)    == /\ proc'[p].st = "opening" /\ sids' = sids
               /\ \E l \in Launchers :
                     /\ proc'[p].how = Mine(l).how
                     /\ proc'[p].sid = (IF Reserves(Mine(l).how) THEN NoSid ELSE Mine(l).sid)
Booted(p)   == /\ proc[p].st = "opening" /\ proc'[p].st = "running" /\ sids' = sids
               /\ proc'[p].sid = proc[p].sid /\ proc[p].sid # NoSid
               /\ proc'[p].how = proc[p].how /\ proc'[p].a = proc[p].a
Born(p)     == /\ proc[p].st = "opening" /\ proc[p].sid = NoSid /\ sids < MaxSessions
               /\ sids' = sids + 1 /\ proc'[p].sid = sids + 1 /\ proc'[p].st = "running"
               /\ proc'[p].how = proc[p].how
ByHand(p)   == /\ proc'[p].st = "running" /\ proc'[p].how = "hand"
               /\ proc'[p].sid \in Sessions \ LiveSids
               /\ sids' = (IF proc'[p].sid > sids THEN proc'[p].sid ELSE sids)

OneOf(p) == Ended(p) \/ Answered(p) \/ Looked(p) \/ Asked(p) \/ Booted(p) \/ Born(p) \/ ByHand(p)

LEMMA ProcessSteps ==
  ASSUME TypeOK, Chosen, Next
  PROVE  \/ UNCHANGED <<proc, sids>>
         \/ \E p \in Procs : OneOf(p) /\ \A q \in Procs : q # p => proc'[q] = proc[q]
<1> DEFINE Goal == \/ UNCHANGED <<proc, sids>>
                   \/ \E p \in Procs : OneOf(p) /\ \A q \in Procs : q # p => proc'[q] = proc[q]
<1>0. proc \in [Procs -> Children] /\ \A p \in Procs : proc[p] \in Children
  BY DEF TypeOK
<1>1. ASSUME NEW l \in Launchers, Command(l) \/ Claim(l)
      PROVE  UNCHANGED <<proc, sids>>
  BY <1>1, Zenon DEF Command, Apply, ResumeAnchor, StartChild, OnlyPlans,
                     Claim, Link, Taken, Peek, Swap, OnlyMarker
<1>2. ASSUME NEW l \in Launchers, NEW a \in Aliases, ReserveAlias(l, a)
      PROVE  UNCHANGED <<proc, sids>>
  BY <1>2, Zenon DEF ReserveAlias
<1>3. ASSUME NEW l \in Launchers, RecordCoordinator(l) \/ Undo(l) \/ Unreserve(l) \/ Killed(l)
      PROVE  UNCHANGED <<proc, sids>>
  BY <1>3, Zenon DEF RecordCoordinator, Undo, Unreserve, Killed
<1>4. ASSUME NEW l \in Launchers, Fork(l)
      PROVE  Goal
  <2>1. launch[l].pc = "recorded" /\ UNCHANGED sids
        /\ (UNCHANGED proc \/ \E p \in Procs : Opens(l, p))
    BY <1>4, Zenon DEF Fork, At
  <2>2. ASSUME NEW p \in Procs, Opens(l, p)
        PROVE  Goal
    <3>1. PICK c \in Children :
             /\ c.st = "opening" /\ c.how = Mine(l).how
             /\ c.sid = (IF Reserves(Mine(l).how) THEN NoSid ELSE Mine(l).sid)
             /\ proc' = [proc EXCEPT ![p] = c]
      BY <2>1, <2>2, Opened
    <3>2. proc'[p] = c /\ \A q \in Procs : q # p => proc'[q] = proc[q]
      BY <1>0, <3>1
    <3>3. Asked(p)
      BY <2>1, <3>1, <3>2 DEF Asked
    <3>4. QED
      BY <3>2, <3>3 DEF OneOf
  <2>3. QED
    BY <2>1, <2>2
<1>5. ASSUME NEW p \in Procs, Boot(p)
      PROVE  Goal
  <2>1. CASE proc[p].sid # NoSid
    <3>1. proc[p].st = "opening" /\ proc' = [proc EXCEPT ![p].st = "running"] /\ UNCHANGED sids
      BY <1>5, <2>1 DEF Boot
    <3>2. Booted(p) /\ \A q \in Procs : q # p => proc'[q] = proc[q]
      BY <1>0, <2>1, <3>1 DEF Booted, Children
    <3>3. QED
      BY <3>2 DEF OneOf
  <2>2. CASE proc[p].sid = NoSid
    <3>1. /\ proc[p].st = "opening" /\ sids < MaxSessions /\ sids' = sids + 1
          /\ proc' = [proc EXCEPT ![p].st = "running", ![p].sid = sids + 1]
      BY <1>5, <2>2 DEF Boot
    <3>2. Born(p) /\ \A q \in Procs : q # p => proc'[q] = proc[q]
      BY <1>0, <2>2, <3>1 DEF Born, Children
    <3>3. QED
      BY <3>2 DEF OneOf
  <2>3. QED
    BY <2>1, <2>2
<1>6. ASSUME NEW p \in Procs, JoinLooks(p) \/ Join(p) \/ Clear(p)
      PROVE  Goal
  <2>1. PICK st \in Stations, b \in Origins :
           /\ Goes(p, st, proc[p].sid, b) /\ UNCHANGED sids
           /\ \/ proc[p].st \in {"running", "joining"} /\ st \in {"running", "joining"}
              \/ /\ proc[p].st \in {"running", "joining", "arrived"}
                 /\ st \in {"arrived", "joined"}
    BY <1>6, Walks
  <2>a. Clear(p) => proc[p].st = "arrived"
    BY Zenon DEF Clear
  <2>2. Answered(p) \/ Looked(p)
    BY <1>6, <2>1, <2>a DEF Goes, Answered, Looked
  <2>3. QED
    BY <2>1, <2>2 DEF OneOf, Goes
<1>7. ASSUME NEW p \in Procs, Arm(p)
      PROVE  UNCHANGED <<proc, sids>>
  BY <1>7, Zenon DEF Arm
<1>8. ASSUME NEW p \in Procs, Exit(p)
      PROVE  Goal
  <2>1. UNCHANGED sids /\ proc' = [proc EXCEPT ![p] = [NoProc EXCEPT !.st = "dead"]]
    BY <1>8 DEF Exit
  <2>2. Ended(p) /\ \A q \in Procs : q # p => proc'[q] = proc[q]
    BY <1>0, <2>1 DEF Ended, NoProc
  <2>3. QED
    BY <2>2 DEF OneOf
<1>9. ASSUME NEW p \in Procs, NEW a \in Aliases, StartByHand(p, a)
      PROVE  Goal
  <2>1. PICK s \in 1 .. sids + 1 :
           /\ s \in Sessions \ LiveSids /\ sids' = (IF s > sids THEN s ELSE sids)
           /\ proc' = [proc EXCEPT ![p] = [st |-> "running", a |-> a, sid |-> s, how |-> "hand", birth |-> ""]]
    BY <1>9 DEF StartByHand
  <2>2. /\ proc'[p].st = "running" /\ proc'[p].how = "hand" /\ proc'[p].sid = s
        /\ \A q \in Procs : q # p => proc'[q] = proc[q]
    BY <1>0, <2>1
  <2>3. ByHand(p)
    BY <2>1, <2>2 DEF ByHand
  <2>4. QED
    BY <2>2, <2>3 DEF OneOf
<1>10. ASSUME \/ \E l \in Launchers, a \in Aliases : RecordBootstrapCoordinator(l, a)
              \/ \E a \in Aliases : Expire(a) \/ \E b \in Aliases : Rename(a, b)
              \/ Save
       PROVE  UNCHANGED <<proc, sids>>
  BY <1>10, Zenon DEF RecordBootstrapCoordinator, Expire, Rename, Save
<1>11. QED
  BY <1>1, <1>2, <1>3, <1>4, <1>5, <1>6, <1>7, <1>8, <1>9, <1>10, Groups DEF Launch, World

\* A registration names what one named before, what a process brought that is
\* now on the bus, or nothing.
LEMMA SeatSteps ==
  ASSUME TypeOK, Next, NEW a \in Aliases
  PROVE  \/ seat'[a].sid \in {NoSid, Reserved}
         \/ \E b \in Aliases : seat'[a].sid = seat[b].sid
         \/ \E p \in Procs : /\ proc[p].st = "joining"
                             /\ proc'[p].st \in {"arrived", "joined"}
                             /\ seat'[a].sid = proc[p].sid
<1> DEFINE Goal == \/ seat'[a].sid \in {NoSid, Reserved}
                   \/ \E b \in Aliases : seat'[a].sid = seat[b].sid
                   \/ \E p \in Procs : /\ proc[p].st = "joining"
                                       /\ proc'[p].st \in {"arrived", "joined"}
                                       /\ seat'[a].sid = proc[p].sid
<1>0. /\ \A b \in Aliases : seat[b] \in Seats
      /\ Pruned[a] \in {seat[a], NoSeat} /\ Pruned \in [Aliases -> Seats] /\ NoSeat.sid = NoSid
  BY PrunedTyped DEF TypeOK, NoSeat
<1>1. ASSUME UNCHANGED seat
      PROVE  Goal
  BY <1>1
<1>2. ASSUME NEW l \in Launchers, NEW b \in Aliases, ReserveAlias(l, b)
      PROVE  Goal
  <2>1. PICK r : /\ seat' = Pruned \/ seat' = [Pruned EXCEPT ![b] = r]
                 /\ r.sid = Reserved
    <3> DEFINE r == [NoSeat EXCEPT !.sid = Reserved, !.origin = BornAs(launch[l].plan[b].how)]
    <3>1. r.sid = Reserved
      BY DEF NoSeat
    <3>2. seat' = Pruned \/ seat' = [Pruned EXCEPT ![b] = r]
      BY <1>2 DEF ReserveAlias
    <3> HIDE DEF r
    <3>3. QED
      BY <3>1, <3>2
  <2>2. QED
    BY <1>0, <2>1
<1>3. ASSUME NEW l \in Launchers, Unreserve(l)
      PROVE  Goal
  BY <1>0, <1>3 DEF Unreserve, TypeOK
<1>a. ASSUME NEW p \in Procs, JoinLooks(p)
      PROVE  Goal
  BY <1>0, <1>a, Looking
<1>4. ASSUME NEW p \in Procs, Join(p)
      PROVE  Goal
  <2>1. CASE Refused(p)
    BY <2>1, <1>1 DEF Refused
  <2>2. ASSUME NEW st \in {"arrived", "joined"}, Takes1(p, st)
        PROVE  Goal
    <3> DEFINE r == [sid |-> proc[p].sid, origin |-> proc[p].birth, listener |-> "never"]
    <3>1. seat' = [seat EXCEPT ![proc[p].a] = r] /\ r.sid = proc[p].sid
      BY <2>2 DEF Takes1
    <3>2. Goes(p, st, proc[p].sid, "")
      BY <2>2, ChildTyped, Going DEF Takes1, Stations, Origins
    <3> HIDE DEF r
    <3>3. seat'[a].sid \in {seat[a].sid, proc[p].sid}
      BY <3>1 DEF TypeOK
    <3> QED
      BY <1>4, <3>2, <3>3, Joining DEF Goes
  <2> QED
    BY <1>4, <2>1, <2>2, Joining
<1>5. ASSUME NEW p \in Procs, Arm(p)
      PROVE  Goal
  <2>1. PICK b \in Aliases : seat' = [seat EXCEPT ![b].listener = "alive"]
    BY <1>5 DEF Arm
  <2>2. seat'[a].sid = seat[a].sid
    BY <1>0, <2>1 DEF TypeOK, Seats
  <2>3. QED
    BY <2>2
<1>6. ASSUME NEW p \in Procs, Exit(p)
      PROVE  Goal
  <2>1. seat'[a].sid = seat[a].sid
    BY <1>0, <1>6 DEF Exit, Seats
  <2>2. QED
    BY <2>1
<1>7. ASSUME NEW b \in Aliases, NEW c \in Aliases, Rename(b, c)
      PROVE  Goal
  <2>1. seat' = [seat EXCEPT ![c] = Renamed(seat[b]), ![b] = NoSeat]
    BY <1>7 DEF Rename
  <2>2. seat'[a] \in {seat[a], Renamed(seat[b]), NoSeat}
    BY <2>1 DEF TypeOK
  <2>3. QED
    BY <1>0, <2>2, RenamedIs
<1>8. \/ UNCHANGED seat
      \/ \E l \in Launchers : Unreserve(l) \/ \E b \in Aliases : ReserveAlias(l, b)
      \/ \E p \in Procs : JoinLooks(p) \/ Join(p) \/ Arm(p) \/ Exit(p)
      \/ \E b \in Aliases, c \in Aliases : Rename(b, c)
  <2>1. ASSUME NEW l \in Launchers, Command(l) \/ Claim(l)
        PROVE  UNCHANGED seat
    BY <2>1, Zenon DEF Command, Apply, ResumeAnchor, StartChild, OnlyPlans,
                       Claim, Link, Taken, Peek, Swap, OnlyMarker
  <2>2. ASSUME NEW l \in Launchers, Launch(l), ~Unreserve(l)
        PROVE  UNCHANGED seat
    BY <2>2, Zenon DEF Launch, RecordCoordinator, Fork, Undo, Killed
  <2>3. ASSUME NEW p \in Procs, Boot(p) \/ Clear(p)
        PROVE  UNCHANGED seat
    BY <2>3, Zenon DEF Boot, Clear
  <2>4. ASSUME World
        PROVE  UNCHANGED seat \/ \E b \in Aliases, c \in Aliases : Rename(b, c)
    BY <2>4, Zenon DEF World, RecordBootstrapCoordinator, StartByHand, Expire, Save
  <2>5. QED
    BY <2>1, <2>2, <2>3, <2>4, Groups
<1>9. QED
  BY <1>1, <1>2, <1>3, <1>a, <1>4, <1>5, <1>6, <1>7, <1>8

\* Only a save writes the file.
LEMMA OnlySaves ==
  ASSUME TypeOK, Next, ~Save
  PROVE  UNCHANGED file
<1>1. ASSUME NEW l \in Launchers, Command(l) \/ Claim(l)
      PROVE  UNCHANGED file
  BY <1>1, Zenon DEF Command, Apply, ResumeAnchor, StartChild, OnlyPlans,
                     Claim, Link, Taken, Peek, Swap, OnlyMarker
<1>2. ASSUME NEW l \in Launchers, Launch(l) \/ \E b \in Aliases : ReserveAlias(l, b)
      PROVE  UNCHANGED file
  BY <1>2, Zenon DEF Launch, RecordCoordinator, Fork, Undo, Unreserve, Killed, ReserveAlias
<1>3. ASSUME NEW p \in Procs, Boot(p) \/ JoinLooks(p) \/ Join(p) \/ Clear(p) \/ Arm(p) \/ Exit(p)
      PROVE  UNCHANGED file
  BY <1>3, Zenon DEF Boot, JoinLooks, Join, Clear, Arm, Exit, Launching
<1>4. ASSUME World
      PROVE  UNCHANGED file
  BY <1>4, Zenon DEF World, RecordBootstrapCoordinator, StartByHand, Expire, Rename
<1>5. QED
  BY <1>1, <1>2, <1>3, <1>4, Groups

\* The file's sessions come from registrations.
LEMMA FileSteps ==
  ASSUME TypeOK, Next, NEW a \in Aliases
  PROVE  \/ file'[a].sid \in {file[a].sid, NoSid}
         \/ file'[a].sid = seat[a].sid /\ seat[a].sid # Reserved
<1>1. ASSUME Save
      PROVE  \/ file'[a].sid \in {file[a].sid, NoSid}
             \/ file'[a].sid = seat[a].sid /\ seat[a].sid # Reserved
  BY <1>1, Saving, SavedPeer
<1>2. ASSUME ~Save
      PROVE  UNCHANGED file
  BY <1>2, OnlySaves
<1>3. QED
  BY <1>1, <1>2

LEMMA Numbers ==
  ASSUME TypeOK
  PROVE  /\ sids \in Nat /\ sids <= MaxSessions /\ Reserved = MaxSessions + 1
         /\ \A a \in Aliases : file[a].sid \in Ids /\ seat[a].sid \in 0 .. Reserved
         /\ \A l \in Launchers, a \in Aliases : launch[l].plan[a].sid \in Ids
         /\ \A p \in Procs : proc[p].sid \in Ids
<1>1. \A l \in Launchers, a \in Aliases : launch[l].plan[a] \in Start
  BY LauncherAt DEF Plans
<1>2. QED
  BY <1>1, Blanks DEF TypeOK, Ids, Peers, Seats, Start, Children, Reserved

LEMMA HandedOutStep ==
  ASSUME TypeOK, Chosen, HandedOut, Next
  PROVE  HandedOut' /\ sids <= sids'
<1> USE Numbers, Blanks DEF Ids
<1>1. ASSUME NEW p \in Procs, OneOf(p)
      PROVE  sids' \in Nat /\ sids <= sids' /\ proc'[p].sid <= sids'
  <2>1. \A l \in Launchers : launch[l].plan[launch[l].a].sid \in Ids
                             /\ launch[l].plan[launch[l].a].sid <= sids
    BY LauncherAt DEF HandedOut
  <2>2. CASE Asked(p)
    BY <2>1, <2>2 DEF Asked, Mine
  <2>3. CASE Ended(p) \/ Answered(p) \/ Looked(p) \/ Booted(p)
    BY <2>3 DEF Ended, Answered, Looked, Booted, HandedOut
  <2>4. CASE Born(p) \/ ByHand(p)
    BY <2>4 DEF Born, ByHand, Sessions
  <2>5. QED
    BY <1>1, <2>2, <2>3, <2>4 DEF OneOf
<1>2. /\ sids' \in Nat /\ sids <= sids' /\ \A p \in Procs : proc'[p].sid <= sids'
  <2>1. CASE UNCHANGED <<proc, sids>>
    BY <2>1 DEF HandedOut
  <2>2. ASSUME NEW p \in Procs, OneOf(p), \A q \in Procs : q # p => proc'[q] = proc[q]
        PROVE  /\ sids' \in Nat /\ sids <= sids'
               /\ \A q \in Procs : proc'[q].sid <= sids'
    <3>1. sids' \in Nat /\ sids <= sids' /\ proc'[p].sid <= sids'
      BY <2>2, <1>1
    <3>2. ASSUME NEW q \in Procs, q # p
          PROVE  proc'[q].sid <= sids'
      <4>1. proc'[q].sid = proc[q].sid /\ proc[q].sid <= sids /\ proc[q].sid \in Nat
        BY <2>2, <3>2 DEF HandedOut
      <4>2. QED
        BY <3>1, <4>1
    <3>3. QED
      BY <3>1, <3>2
  <2>3. QED
    BY <2>1, <2>2, ProcessSteps
<1>3. ASSUME NEW a \in Aliases
      PROVE  seat'[a].sid = Reserved \/ seat'[a].sid <= sids'
  <2>1. CASE seat'[a].sid \in {NoSid, Reserved}
    BY <1>2, <2>1
  <2>2. ASSUME NEW b \in Aliases, seat'[a].sid = seat[b].sid
        PROVE  seat'[a].sid = Reserved \/ seat'[a].sid <= sids'
    BY <1>2, <2>2 DEF HandedOut
  <2>3. ASSUME NEW p \in Procs, seat'[a].sid = proc[p].sid
        PROVE  seat'[a].sid <= sids'
    BY <1>2, <2>3 DEF HandedOut
  <2>4. QED
    BY <2>1, <2>2, <2>3, SeatSteps
<1>4. ASSUME NEW a \in Aliases
      PROVE  file'[a].sid <= sids'
  BY <1>2, FileSteps DEF HandedOut
<1>5. ASSUME NEW l \in Launchers, NEW a \in Aliases
      PROVE  launch'[l].plan[a].sid <= sids'
  BY <1>2, PlanSteps DEF HandedOut
<1>6. QED
  BY <1>2, <1>3, <1>4, <1>5 DEF HandedOut

LEMMA NamedStep ==
  ASSUME TypeOK, Chosen, Named, Next
  PROVE  Named'
<1>1. ASSUME NEW l \in Launchers, NEW a \in Aliases, launch'[l].plan[a].how \in Returns
      PROVE  launch'[l].plan[a].sid # NoSid
  BY <1>1, PlanSteps DEF Named
<1> DEFINE Good(c) == /\ c.st \in {"opening", "running", "joining"} /\ c.how \in Returns => c.sid # NoSid
                      /\ c.st \in {"running", "joining"} => c.sid # NoSid
                      /\ c.st = "opening" /\ c.how \in Births => c.sid = NoSid
<1>2. \A p \in Procs : Good(proc[p])
  BY DEF Named, Coming
<1>3. ASSUME NEW p \in Procs, OneOf(p)
      PROVE  Good(proc'[p])
  <2>1. CASE Asked(p)
    <3>1. PICK l \in Launchers :
             /\ proc'[p].how = Mine(l).how
             /\ proc'[p].sid = (IF Reserves(Mine(l).how) THEN NoSid ELSE Mine(l).sid)
      BY <2>1 DEF Asked
    <3>2. Mine(l).how \in Returns => Mine(l).sid # NoSid
      BY LauncherAt DEF Named, Mine
    <3>3. Mine(l).how \in Returns <=> ~Reserves(Mine(l).how)
      BY DEF Returns, Reserves
    <3>4. \A h : h \in Births => h \notin Returns
      BY DEF Births, Returns
    <3>5. QED
      BY <2>1, <3>1, <3>2, <3>3, <3>4 DEF Asked
  <2>2. CASE Ended(p) \/ Answered(p)
    BY <2>2 DEF Ended, Answered
  <2>3. CASE Booted(p)
    BY <2>3 DEF Booted
  <2>a. CASE Looked(p)
    BY <1>2, <2>a DEF Looked
  <2>4. CASE Born(p)
    BY <2>4, Numbers DEF Born
  <2>5. CASE ByHand(p)
    BY <2>5 DEF ByHand, Sessions
  <2>6. QED
    BY <1>3, <2>1, <2>2, <2>3, <2>a, <2>4, <2>5 DEF OneOf
<1>4. \A p \in Procs : Good(proc'[p])
  BY <1>2, <1>3, ProcessSteps
<1>5. QED
  BY <1>1, <1>4 DEF Named, Coming

LEMMA NewbornStep ==
  ASSUME TypeOK, Chosen, Named, HandedOut, Newborn, Next
  PROVE  Newborn'
<1> SUFFICES ASSUME NEW p \in Procs, proc'[p].st \in {"running", "joining"}, proc'[p].how \in Births
             PROVE  /\ \A a \in Aliases : file'[a].sid # proc'[p].sid /\ seat'[a].sid # proc'[p].sid
                    /\ \A l \in Launchers, a \in Aliases : launch'[l].plan[a].sid # proc'[p].sid
                    /\ \A q \in Procs : q # p => proc'[q].sid # proc'[p].sid
  BY DEF Newborn
<1> USE Numbers, Blanks DEF Ids
<1>1. CASE /\ proc'[p].sid = proc[p].sid /\ proc'[p].how = proc[p].how
           /\ proc[p].st \in {"running", "joining"}
  <2> DEFINE s == proc[p].sid
  <2>1. /\ s # NoSid /\ s # Reserved /\ proc'[p].sid = s
        /\ \A a \in Aliases : file[a].sid # s /\ seat[a].sid # s
        /\ \A l \in Launchers, a \in Aliases : launch[l].plan[a].sid # s
        /\ \A q \in Procs : q # p => proc[q].sid # s
    BY <1>1 DEF Named, Newborn
  <2> HIDE DEF s
  <2>2. ASSUME NEW a \in Aliases
        PROVE  file'[a].sid # s /\ seat'[a].sid # s
    <3>1. file'[a].sid # s
      BY <2>1, FileSteps
    <3>2. ASSUME NEW q \in Procs, proc'[q].st \in {"arrived", "joined"}
          PROVE  proc[q].sid # s
      BY <2>1, <3>2
    <3> QED
      BY <2>1, <3>1, <3>2, SeatSteps
  <2>3. ASSUME NEW l \in Launchers, NEW a \in Aliases
        PROVE  launch'[l].plan[a].sid # s
    BY <2>1, PlanSteps
  <2>4. ASSUME NEW q \in Procs, q # p, OneOf(q)
        PROVE  proc'[q].sid # s
    <3>1. CASE Asked(q)
      BY <2>1, <3>1, LauncherAt DEF Asked, Mine
    <3>2. CASE Ended(q) \/ Answered(q) \/ Looked(q) \/ Booted(q)
      BY <2>1, <2>4, <3>2 DEF Ended, Answered, Looked, Booted
    <3>3. CASE Born(q)
      BY <3>3 DEF Born, HandedOut, s
    <3>4. CASE ByHand(q)
      <4>1. proc[p].st \in {"running", "joining"}
        BY <1>1
      <4>2. s \in LiveSids
        BY <4>1 DEF LiveSids, s
      <4>3. QED
        BY <3>4, <4>2 DEF ByHand
    <3>5. QED
      BY <2>4, <3>1, <3>2, <3>3, <3>4 DEF OneOf
  <2>5. \A q \in Procs : q # p => proc'[q].sid # s
    BY <2>1, <2>4, ProcessSteps
  <2>6. QED
    BY <2>1, <2>2, <2>3, <2>5
<1>2. CASE ~(/\ proc'[p].sid = proc[p].sid /\ proc'[p].how = proc[p].how
             /\ proc[p].st \in {"running", "joining"})
  <2>1. OneOf(p) /\ \A q \in Procs : q # p => proc'[q] = proc[q]
    BY <1>2, ProcessSteps
  <2>2. ~ByHand(p)
    BY DEF ByHand, Births
  <2>3. ~Booted(p)
    BY DEF Booted, Named
  <2>a. ~Looked(p)
    BY <1>2 DEF Looked
  <2>4. Born(p)
    BY <2>1, <2>2, <2>3, <2>a DEF OneOf, Ended, Answered, Asked
  <2> DEFINE s == sids + 1
  <2>5. s \in Nat /\ s > sids /\ s # Reserved /\ s # NoSid /\ proc'[p].sid = s
    BY <2>4 DEF Born
  <2> HIDE DEF s
  <2>6. ASSUME NEW a \in Aliases
        PROVE  file'[a].sid # s
    BY <2>5, FileSteps DEF HandedOut
  <2>7. ASSUME NEW a \in Aliases
        PROVE  seat'[a].sid # s
    <3>1. CASE seat'[a].sid \in {NoSid, Reserved}
      BY <2>5, <3>1
    <3>2. ASSUME NEW b \in Aliases, seat'[a].sid = seat[b].sid
          PROVE  seat'[a].sid # s
      BY <2>5, <3>2 DEF HandedOut
    <3>3. ASSUME NEW q \in Procs, seat'[a].sid = proc[q].sid
          PROVE  seat'[a].sid # s
      BY <2>5, <3>3 DEF HandedOut
    <3>4. QED
      BY <3>1, <3>2, <3>3, SeatSteps
  <2>8. ASSUME NEW l \in Launchers, NEW a \in Aliases
        PROVE  launch'[l].plan[a].sid # s
    BY <2>5, PlanSteps DEF HandedOut
  <2>9. ASSUME NEW q \in Procs, q # p
        PROVE  proc'[q].sid # s
    BY <2>1, <2>5, <2>9 DEF HandedOut
  <2>10. QED
    BY <2>5, <2>6, <2>7, <2>8, <2>9
<1>3. QED
  BY <1>1, <1>2

(* ------------------------------------------------------ markers and their lock -- *)

\* A marker changes when there is none, when it is replaced by who holds its
\* lock, when nobody does, or when it expires.
LEMMA MarkerSteps ==
  ASSUME TypeOK, Next, NEW a \in Aliases
  PROVE  \/ marker'[a] = marker[a]
         \/ marker[a] = NoMarker \/ marker[a].fresh \/ reclaim[a] = Nobody
         \/ \E l \in Launchers : /\ launch[l].pc = "swap" /\ launch[l].a = a
                                 /\ launch'[l].pc \notin {"peek", "swap"}
<1> DEFINE Goal == \/ marker'[a] = marker[a]
                   \/ marker[a] = NoMarker \/ marker[a].fresh \/ reclaim[a] = Nobody
                   \/ \E l \in Launchers : /\ launch[l].pc = "swap" /\ launch[l].a = a
                                           /\ launch'[l].pc \notin {"peek", "swap"}
<1>0. marker \in [Aliases -> Markers]
  BY DEF TypeOK
<1>1. ASSUME NEW l \in Launchers, Claim(l)
      PROVE  Goal
  <2>1. CASE Link(l)
    <3>1. PICK b \in Aliases : \/ UNCHANGED marker
                               \/ marker[b] = NoMarker
                                  /\ marker' = [marker EXCEPT ![b] = MyMarker(l, b)]
      BY <2>1, Zenon DEF Link
    <3>2. QED
      BY <1>0, <3>1
  <2>2. CASE Swap(l)
    <3>1. /\ launch[l].pc = "swap" /\ Step(l, "claimed")
          /\ marker' = [marker EXCEPT ![launch[l].a] = MyMarker(l, launch[l].a)]
      BY <2>2 DEF Swap, At
    <3>2. launch'[l].pc = "claimed"
      BY <3>1, Stepped
    <3>3. QED
      BY <1>0, <3>1, <3>2
  <2>3. CASE Taken(l) \/ Peek(l)
    BY <2>3, Zenon DEF Taken, Peek
  <2>4. QED
    BY <1>1, <2>1, <2>2, <2>3 DEF Claim
<1>2. ASSUME NEW p \in Procs, Clear(p)
      PROVE  Goal
  <2>1. \/ UNCHANGED marker
        \/ reclaim[proc[p].a] = Nobody /\ marker' = [marker EXCEPT ![proc[p].a] = NoMarker]
    BY <1>2 DEF Clear
  <2>2. QED
    BY <1>0, <2>1
<1>3. ASSUME NEW b \in Aliases, Expire(b)
      PROVE  Goal
  <2>1. \/ UNCHANGED marker
        \/ marker[b].fresh /\ marker' = [marker EXCEPT ![b].fresh = FALSE]
    BY <1>3 DEF Expire
  <2>2. QED
    BY <1>0, <2>1
<1>4. ASSUME NEW l \in Launchers, Command(l) \/ Launch(l) \/ \E b \in Aliases : ReserveAlias(l, b)
      PROVE  UNCHANGED marker
  BY <1>4, Zenon DEF Command, Apply, ResumeAnchor, StartChild, OnlyPlans, Launch,
                     RecordCoordinator, Fork, Undo, Unreserve, Killed, ReserveAlias
<1>5. ASSUME NEW p \in Procs, Boot(p) \/ JoinLooks(p) \/ Join(p) \/ Arm(p) \/ Exit(p)
      PROVE  UNCHANGED marker
  BY <1>5, Zenon DEF Boot, JoinLooks, Join, Arm, Exit
<1>6. ASSUME World, \A b \in Aliases : ~Expire(b)
      PROVE  UNCHANGED marker
  BY <1>6, Zenon DEF World, RecordBootstrapCoordinator, StartByHand, Rename, Save
<1>7. QED
  BY <1>1, <1>2, <1>3, <1>4, <1>5, <1>6, Groups

\* A lock is taken when nobody has it and goes back with its holder's look.
LEMMA ReclaimSteps ==
  ASSUME TypeOK, Next, NEW a \in Aliases
  PROVE  \/ reclaim'[a] = reclaim[a]
         \/ reclaim[a] = Nobody
         \/ \E l \in Launchers : /\ launch'[l].pc \notin {"peek", "swap"}
                                 /\ \/ reclaim[a] = l
                                    \/ launch[l].pc \in {"peek", "swap"} /\ launch[l].a = a
<1> DEFINE Goal == \/ reclaim'[a] = reclaim[a]
                   \/ reclaim[a] = Nobody
                   \/ \E l \in Launchers : /\ launch'[l].pc \notin {"peek", "swap"}
                                           /\ \/ reclaim[a] = l
                                              \/ launch[l].pc \in {"peek", "swap"} /\ launch[l].a = a
<1>0. reclaim \in [Aliases -> Names]
  BY DEF TypeOK
<1>1. ASSUME NEW l \in Launchers, Claim(l)
      PROVE  Goal
  <2>1. CASE Link(l)
    BY <2>1, Zenon DEF Link
  <2>2. CASE Swap(l)
    <3>1. /\ launch[l].pc = "swap" /\ Step(l, "claimed")
          /\ reclaim' = [reclaim EXCEPT ![launch[l].a] = Nobody]
      BY <2>2 DEF Swap, At
    <3>2. launch'[l].pc = "claimed"
      BY <3>1, Stepped
    <3>3. QED
      BY <1>0, <3>1, <3>2
  <2>3. CASE Taken(l)
    <3>1. \/ UNCHANGED reclaim
          \/ /\ reclaim[launch[l].a] = Nobody
             /\ reclaim' = [reclaim EXCEPT ![launch[l].a] = l]
      BY <2>3 DEF Taken
    <3>2. QED
      BY <1>0, <3>1
  <2>4. CASE Peek(l)
    <3>1. /\ launch[l].pc = "peek"
          /\ \/ UNCHANGED reclaim
             \/ /\ Becomes(l, [launch[l] EXCEPT !.pc = "link", !.again = TRUE])
                /\ reclaim' = [reclaim EXCEPT ![launch[l].a] = Nobody]
      BY <2>4 DEF Peek, At
    <3>2. CASE Becomes(l, [launch[l] EXCEPT !.pc = "link", !.again = TRUE])
               /\ reclaim' = [reclaim EXCEPT ![launch[l].a] = Nobody]
      <4>1. launch'[l].pc = "link"
        BY <3>2, Stepped
      <4>2. QED
        BY <1>0, <3>1, <3>2, <4>1
    <3>3. QED
      BY <3>1, <3>2
  <2>5. QED
    BY <1>1, <2>1, <2>2, <2>3, <2>4 DEF Claim
<1>2. ASSUME NEW l \in Launchers, Killed(l)
      PROVE  Goal
  <2>1. /\ Becomes(l, Idle)
        /\ reclaim' = [b \in Aliases |-> IF reclaim[b] = l THEN Nobody ELSE reclaim[b]]
    BY <1>2 DEF Killed
  <2>2. launch'[l].pc = "idle"
    BY <2>1, Others DEF Idle
  <2>3. QED
    BY <2>1, <2>2
<1>3. ASSUME NEW l \in Launchers, \/ Command(l) \/ (Launch(l) /\ ~Killed(l))
                                  \/ \E b \in Aliases : ReserveAlias(l, b)
      PROVE  UNCHANGED reclaim
  BY <1>3, Zenon DEF Command, Apply, ResumeAnchor, StartChild, OnlyPlans, Launch,
                     RecordCoordinator, Fork, Undo, Unreserve, ReserveAlias
<1>4. ASSUME NEW p \in Procs, Boot(p) \/ JoinLooks(p) \/ Join(p) \/ Clear(p) \/ Arm(p) \/ Exit(p)
      PROVE  UNCHANGED reclaim
  BY <1>4, Zenon DEF Boot, JoinLooks, Join, Clear, Arm, Exit, Launching
<1>5. ASSUME World
      PROVE  UNCHANGED reclaim
  BY <1>5, Zenon DEF World, RecordBootstrapCoordinator, StartByHand, Expire, Rename, Save
<1>6. QED
  BY <1>1, <1>2, <1>3, <1>4, <1>5, Groups

\* Who comes to look at a corpse, or to replace it, has its lock.
LEMMA ActLocks ==
  ASSUME TypeOK, Locked, NEW l \in Launchers, Acts(l), launch'[l].pc \in {"peek", "swap"}
  PROVE  LET a == launch'[l].a IN
         /\ reclaim'[a] = l
         /\ launch'[l].pc = "swap" => marker'[a] # NoMarker /\ ~marker'[a].fresh
<1> DEFINE at == launch[l].a
<1>0. at \in Aliases /\ reclaim \in [Aliases -> Names]
  BY LauncherAt DEF TypeOK
<1>1. ASSUME NEW b, Done(l, b)
      PROVE  FALSE
  BY <1>1, DoneRests DEF Rests
<1>2. ASSUME NEW pc \in {"link", "claimed", "undo", "unreserve"},
             Step(l, pc) \/ Becomes(l, [launch[l] EXCEPT !.pc = pc, !.again = TRUE])
      PROVE  FALSE
  BY <1>2, Stepped
<1>3. ASSUME NEW b, NEW pc \in {"claimed", "taken"}, Takes(l, pc, b)
      PROVE  FALSE
  BY <1>3, Chose
<1>4. ~Link(l)
  <2>1. SUFFICES ASSUME Link(l) PROVE FALSE
    OBVIOUS
  <2>2. PICK b \in Aliases : Takes(l, "claimed", b) \/ Takes(l, "taken", b)
    BY <2>1, Zenon DEF Link, Takes
  <2>3. QED
    BY <2>2, <1>3
<1>5. ~Swap(l)
  BY <1>2, Zenon DEF Swap
<1>6. \A b \in Aliases : ~ReserveAlias(l, b)
  BY <1>1, <1>3, Zenon DEF ReserveAlias, Takes
<1>7. ~Launch(l)
  <2>1. ~RecordCoordinator(l)
    <3>1. SUFFICES ASSUME RecordCoordinator(l) PROVE FALSE
      OBVIOUS
    <3>2. ASSUME NEW wrote \in Coords,
                 Becomes(l, [launch[l] EXCEPT !.pc = "recorded", !.prev = coord[at],
                                              !.wrote = wrote])
          PROVE  FALSE
      BY <3>2, Wrote
    <3>3. QED
      BY <3>1, <3>2, <1>1, <1>2, Recording
  <2>2. ~Fork(l) /\ ~Undo(l) /\ ~Unreserve(l)
    BY <1>1, <1>2, Zenon DEF Fork, Undo, Unreserve
  <2>3. ~Killed(l)
    BY Others DEF Killed, Idle
  <2>4. QED
    BY <2>1, <2>2, <2>3 DEF Launch
<1>8. CASE Taken(l)
  <2>1. UNCHANGED marker /\ Step(l, "peek") /\ reclaim' = [reclaim EXCEPT ![at] = l]
    BY <1>1, <1>2, <1>8 DEF Taken
  <2>2. launch'[l].pc = "peek" /\ launch'[l].a = at
    BY <2>1, Stepped
  <2>3. QED
    BY <1>0, <2>1, <2>2
<1>9. CASE Peek(l)
  <2>1. /\ UNCHANGED <<marker, reclaim>> /\ Step(l, "swap") /\ launch[l].pc = "peek"
        /\ marker[at] # NoMarker /\ ~marker[at].fresh
    BY <1>2, <1>9 DEF Peek, At
  <2>2. launch'[l].pc = "swap" /\ launch'[l].a = at
    BY <2>1, Stepped
  <2>3. QED
    BY <2>1, <2>2 DEF Locked
<1>10. QED
  BY <1>4, <1>5, <1>6, <1>7, <1>8, <1>9 DEF Acts, Claim

LEMMA LockedStep ==
  ASSUME TypeOK, Locked, Next
  PROVE  Locked'
<1> SUFFICES ASSUME NEW l \in Launchers, launch'[l].pc \in {"peek", "swap"}
             PROVE  LET a == launch'[l].a IN
                    /\ reclaim'[a] = l
                    /\ launch'[l].pc = "swap" => marker'[a] # NoMarker /\ ~marker'[a].fresh
  BY DEF Locked
<1>1. CASE Acts(l)
  BY <1>1, ActLocks
<1>2. CASE Command(l)
  BY <1>2, CommandMoves
<1>3. CASE Keeps(l)
  <2> DEFINE a == launch[l].a
  <2>1. /\ launch'[l].a = a /\ launch'[l].pc = launch[l].pc /\ a \in Aliases
        /\ reclaim[a] = l /\ l # Nobody
        /\ launch[l].pc = "swap" => marker[a] # NoMarker /\ ~marker[a].fresh
    BY <1>3, LauncherAt, Blanks DEF Keeps, Locked
  <2>2. ASSUME NEW k \in Launchers, launch[k].pc \in {"peek", "swap"}, launch[k].a = a
        PROVE  k = l
    BY <2>1, <2>2 DEF Locked
  <2> HIDE DEF a
  <2>3. reclaim'[a] = l
    BY <2>1, <2>2, ReclaimSteps
  <2>4. launch[l].pc = "swap" => marker'[a] = marker[a]
    BY <2>1, <2>2, MarkerSteps
  <2>5. QED
    BY <2>1, <2>3, <2>4
<1>4. QED
  BY <1>1, <1>2, <1>3, LauncherStep

(* ------------------------------------------------------- one on the way -- *)

\* Nobody comes to stand behind a marker, and those who do have it as it was.
LEMMA GuardStays ==
  ASSUME Guarded,
         \A l \in Launchers, a \in Aliases : Holds(l, a)' =>
            /\ Holds(l, a) /\ launch'[l].plan[a].sid = launch[l].plan[a].sid
            /\ marker'[a] = marker[a],
         \A p \in Procs, a \in Aliases : Carries(p, a)' =>
            Carries(p, a) /\ proc'[p].sid = proc[p].sid /\ marker'[a] = marker[a]
  PROVE  Guarded'
<1>1. ASSUME NEW l \in Launchers, NEW a \in Aliases, Holds(l, a)'
      PROVE  /\ marker'[a].by = l /\ marker'[a].fresh /\ marker'[a].sid = launch'[l].plan[a].sid
             /\ \A p \in Procs : ~Carries(p, a)'
  BY <1>1 DEF Guarded
<1>2. ASSUME NEW p \in Procs, NEW a \in Aliases, Carries(p, a)'
      PROVE  /\ marker'[a].fresh /\ marker'[a].sid = proc'[p].sid
             /\ \A q \in Procs : Carries(q, a)' => q = p
  BY <1>2 DEF Guarded
<1> HIDE DEF Holds, Carries
<1>3. QED
  BY <1>1, <1>2 DEF Guarded

\* A launcher that has the same peer and stage holds what it held.
LEMMA KeepsHolds ==
  ASSUME NEW l, NEW a, Keeps(l), Holds(l, a)'
  PROVE  Holds(l, a) /\ launch'[l].plan[a].sid = launch[l].plan[a].sid
BY DEF Keeps, Holds

\* A process that has not come any nearer to the bus carries what it carried.
LEMMA SameCarries ==
  ASSUME NEW p, NEW a, proc'[p] = proc[p], p \in late => p \in late', Carries(p, a)'
  PROVE  Carries(p, a) /\ proc'[p].sid = proc[p].sid
BY DEF Carries, Coming

\* A launcher that takes no marker and starts no window leaves the guards.
LEMMA LauncherGuards ==
  ASSUME TypeOK, Guarded, NEW l \in Launchers, UNCHANGED <<marker, proc, late>>,
         \A k \in Launchers : k # l => Keeps(k),
         \A a \in Aliases : Holds(l, a)' =>
            Holds(l, a) /\ launch'[l].plan[a].sid = launch[l].plan[a].sid
  PROVE  Guarded'
<1>1. \A k \in Launchers, a \in Aliases : Holds(k, a)' =>
         /\ Holds(k, a) /\ launch'[k].plan[a].sid = launch[k].plan[a].sid
         /\ marker'[a] = marker[a]
  BY KeepsHolds
<1>2. \A p \in Procs, a \in Aliases : Carries(p, a)' =>
         Carries(p, a) /\ proc'[p].sid = proc[p].sid /\ marker'[a] = marker[a]
  BY SameCarries
<1>3. QED
  BY <1>1, <1>2, GuardStays

\* A marker that was not fresh guards nobody, so it may become anybody's.
LEMMA TakesGuard ==
  ASSUME TypeOK, Guarded, NEW l \in Launchers, NEW a \in Aliases, ~marker[a].fresh,
         marker' = [marker EXCEPT ![a] = MyMarker(l, a)], UNCHANGED <<proc, late>>,
         launch'[l].a = a, launch'[l].plan = launch[l].plan,
         \A k \in Launchers : k # l => Keeps(k)
  PROVE  Guarded'
<1>1. marker'[a] = MyMarker(l, a) /\ \A b \in Aliases : b # a => marker'[b] = marker[b]
  BY DEF TypeOK
<1>2. /\ MyMarker(l, a).by = l /\ MyMarker(l, a).fresh
      /\ MyMarker(l, a).sid = launch[l].plan[a].sid
  BY MyMarkerTyped
<1>3. ASSUME NEW p \in Procs, NEW b \in Aliases, Carries(p, b)'
      PROVE  Carries(p, b) /\ proc'[p].sid = proc[p].sid /\ b # a
  <2>1. Carries(p, b) /\ proc'[p].sid = proc[p].sid
    BY <1>3, SameCarries
  <2>2. QED
    BY <2>1 DEF Guarded
<1>4. ASSUME NEW k \in Launchers, NEW b \in Aliases, Holds(k, b)', k # l
      PROVE  Holds(k, b) /\ launch'[k].plan[b].sid = launch[k].plan[b].sid /\ b # a
  <2>1. Holds(k, b) /\ launch'[k].plan[b].sid = launch[k].plan[b].sid
    BY <1>4, KeepsHolds
  <2>2. QED
    BY <2>1 DEF Guarded
<1>5. \A b \in Aliases : Holds(l, b)' => b = a
  BY DEF Holds
<1>6. ASSUME NEW k \in Launchers, NEW b \in Aliases, Holds(k, b)'
      PROVE  /\ marker'[b].by = k /\ marker'[b].fresh /\ marker'[b].sid = launch'[k].plan[b].sid
             /\ \A p \in Procs : ~Carries(p, b)'
  <2>1. CASE k = l
    BY <1>1, <1>2, <1>3, <1>5, <1>6, <2>1
  <2>2. CASE k # l
    <3>1. Holds(k, b) /\ launch'[k].plan[b].sid = launch[k].plan[b].sid /\ b # a
      BY <1>4, <1>6, <2>2
    <3>2. QED
      BY <1>1, <1>3, <3>1 DEF Guarded
  <2>3. QED
    BY <2>1, <2>2
<1>7. ASSUME NEW p \in Procs, NEW b \in Aliases, Carries(p, b)'
      PROVE  /\ marker'[b].fresh /\ marker'[b].sid = proc'[p].sid
             /\ \A q \in Procs : Carries(q, b)' => q = p
  <2>1. Carries(p, b) /\ proc'[p].sid = proc[p].sid /\ b # a
    BY <1>3, <1>7
  <2>2. \A q \in Procs : Carries(q, b)' => Carries(q, b)
    BY <1>3
  <2>3. QED
    BY <1>1, <2>1, <2>2 DEF Guarded
<1> HIDE DEF Holds, Carries
<1>8. QED
  BY <1>6, <1>7 DEF Guarded

\* A marker that stops guarding leaves nobody behind it.
LEMMA UnguardedGuards ==
  ASSUME TypeOK, Guarded, NEW a \in Aliases, Unguarded(a),
         \A b \in Aliases : b # a => marker'[b] = marker[b],
         \A p \in Procs : \A b \in Aliases : (Coming(p) /\ proc[p].a = b)' =>
            Coming(p) /\ proc[p].a = b /\ proc'[p].sid = proc[p].sid
                      /\ proc'[p].how = proc[p].how
  PROVE  Guarded'
<1>1. ASSUME NEW l \in Launchers, NEW b \in Aliases, Holds(l, b)'
      PROVE  /\ Holds(l, b) /\ launch'[l].plan[b].sid = launch[l].plan[b].sid
             /\ marker'[b] = marker[b]
  <2>1. Keeps(l)
    BY UnguardedTyped DEF Keeps
  <2>2. Holds(l, b) /\ launch'[l].plan[b].sid = launch[l].plan[b].sid
    BY <1>1, <2>1, KeepsHolds
  <2>3. b # a
    <3>1. SUFFICES ASSUME b = a PROVE FALSE
      OBVIOUS
    <3>2. launch[l].pc \in {"claimed", "recorded"} /\ launch[l].a = a /\ marker[a].by = l
      BY <2>2, <3>1 DEF Holds, Guarded
    <3>3. launch'[l] = [launch[l] EXCEPT !.lost = TRUE]
      BY <3>2, UnguardedTyped
    <3>4. launch'[l].lost
      <4>1. launch[l] \in Launches
        BY DEF TypeOK
      <4>2. QED
        BY <3>3, <4>1 DEF Launches
    <3>5. QED
      BY <1>1, <3>4 DEF Holds
  <2>4. QED
    BY <2>2, <2>3
<1>2. ASSUME NEW p \in Procs, NEW b \in Aliases, Carries(p, b)'
      PROVE  Carries(p, b) /\ proc'[p].sid = proc[p].sid /\ marker'[b] = marker[b]
  <2>1. late' = late \cup {q \in Procs : Coming(q) /\ proc[q].sid = marker[a].sid}
    BY DEF Unguarded
  <2>2. (Coming(p) /\ proc[p].a = b)' /\ p \notin late' /\ proc'[p].how \in Returns
    BY <1>2 DEF Carries
  <2>3. Carries(p, b) /\ proc'[p].sid = proc[p].sid
    BY <2>1, <2>2 DEF Carries
  <2>4. b # a
    BY <2>1, <2>2, <2>3 DEF Guarded, Carries
  <2>5. QED
    BY <2>3, <2>4
<1>3. QED
  BY <1>1, <1>2, GuardStays

\* What a step of a launcher on the marker does to the guards.
LEMMA ClaimGuards ==
  ASSUME TypeOK, Guarded, Locked, NEW l \in Launchers, Claim(l)
  PROVE  Guarded'
<1> DEFINE at == launch[l].a
<1>0. Acts(l) /\ UNCHANGED <<proc, late>> /\ at \in Aliases
  BY LauncherAt, Zenon DEF Acts, Claim, Link, Taken, Peek, Swap, OnlyMarker
<1>1. \A k \in Launchers : k # l => Keeps(k)
  BY <1>0, ActMoves
<1>2. ASSUME UNCHANGED marker, launch'[l].pc \notin {"claimed", "recorded"}
      PROVE  Guarded'
  <2>1. \A a \in Aliases : ~Holds(l, a)'
    BY <1>2 DEF Holds
  <2>2. QED
    BY <1>0, <1>1, <1>2, <2>1, LauncherGuards
<1>3. CASE Link(l)
  <2>1. PICK a \in Aliases :
           \/ /\ marker[a] = NoMarker /\ marker' = [marker EXCEPT ![a] = MyMarker(l, a)]
              /\ Takes(l, "claimed", a)
           \/ UNCHANGED marker /\ Takes(l, "taken", a)
    BY <1>3, Zenon DEF Link, Takes
  <2>2. CASE UNCHANGED marker /\ Takes(l, "taken", a)
    <3>1. launch'[l].pc = "taken"
      BY <2>2, Chose
    <3>2. QED
      BY <2>2, <3>1, <1>2
  <2>3. CASE /\ marker[a] = NoMarker /\ marker' = [marker EXCEPT ![a] = MyMarker(l, a)]
             /\ Takes(l, "claimed", a)
    <3>1. launch'[l].a = a /\ launch'[l].plan = launch[l].plan
      BY <2>3, Chose
    <3>2. ~marker[a].fresh
      BY <2>3 DEF NoMarker
    <3>3. QED
      BY <1>0, <1>1, <2>3, <3>1, <3>2, TakesGuard
  <2>4. QED
    BY <2>1, <2>2, <2>3
<1>4. CASE Taken(l)
  <2>1. UNCHANGED marker /\ \/ Done(l, at) \/ Step(l, "peek")
                            \/ Becomes(l, [launch[l] EXCEPT !.pc = "link", !.again = TRUE])
    BY <1>4 DEF Taken
  <2>2. CASE Done(l, at)
    BY <1>2, <2>1, <2>2, DoneRests DEF Rests
  <2>3. CASE Step(l, "peek")
    <3>1. launch'[l].pc = "peek"
      BY <2>3, Stepped
    <3>2. QED
      BY <1>2, <2>1, <3>1
  <2>4. CASE Becomes(l, [launch[l] EXCEPT !.pc = "link", !.again = TRUE])
    <3>1. launch'[l].pc = "link"
      BY <2>4, Stepped
    <3>2. QED
      BY <1>2, <2>1, <3>1
  <2>5. QED
    BY <2>1, <2>2, <2>3, <2>4
<1>5. CASE Peek(l)
  <2>1. UNCHANGED marker /\ \/ Step(l, "swap")
                            \/ Becomes(l, [launch[l] EXCEPT !.pc = "link", !.again = TRUE])
    BY <1>5 DEF Peek
  <2>2. launch'[l].pc \in {"swap", "link"}
    BY <2>1, Stepped
  <2>3. QED
    BY <1>2, <2>1, <2>2
<1>6. CASE Swap(l)
  <2>1. /\ launch[l].pc = "swap" /\ marker' = [marker EXCEPT ![at] = MyMarker(l, at)]
        /\ Step(l, "claimed")
    BY <1>6 DEF Swap, At
  <2>2. launch'[l].a = at /\ launch'[l].plan = launch[l].plan
    BY <2>1, Stepped
  <2>3. ~marker[at].fresh
    BY <2>1 DEF Locked
  <2> HIDE DEF at
  <2>4. QED
    BY <1>0, <1>1, <2>1, <2>2, <2>3, TakesGuard
<1>7. QED
  BY <1>3, <1>4, <1>5, <1>6 DEF Claim

\* A window that is opened takes its launcher's place behind the marker.
LEMMA ForkGuards ==
  ASSUME TypeOK, Chosen, Named, Guarded, NEW l \in Launchers, Fork(l)
  PROVE  Guarded'
<1> DEFINE at == launch[l].a
<1>0. /\ Acts(l) /\ UNCHANGED marker /\ at \in Aliases /\ launch[l].pc = "recorded"
      /\ (UNCHANGED <<proc, late>> \/ \E p \in Procs : Opens(l, p))
      /\ (Done(l, at) \/ Step(l, "undo"))
  BY LauncherAt, Zenon DEF Acts, Launch, Fork, At
<1>1. \A k \in Launchers : k # l => Keeps(k)
  BY <1>0, ActMoves
<1>2. \A a \in Aliases : ~Holds(l, a)'
  <2>1. launch'[l].pc \in {"idle", "next", "undo"}
    BY <1>0, DoneRests, Stepped DEF Rests
  <2>2. QED
    BY <2>1 DEF Holds
<1>3. CASE UNCHANGED <<proc, late>>
  BY <1>0, <1>1, <1>2, <1>3, LauncherGuards
<1>4. ASSUME NEW p \in Procs, Opens(l, p)
      PROVE  Guarded'
  <2>1. PICK c \in Children :
           /\ c.st = "opening" /\ c.a = at /\ c.how = Mine(l).how
           /\ c.sid = (IF Reserves(Mine(l).how) THEN NoSid ELSE Mine(l).sid)
           /\ proc[p].st = "none" /\ proc' = [proc EXCEPT ![p] = c]
           /\ late' = IF launch[l].lost THEN late \cup {p} ELSE late
    BY <1>0, <1>4, Opened
  <2>2. proc'[p] = c /\ \A q \in Procs : q # p => proc'[q] = proc[q]
    BY <2>1 DEF TypeOK
  <2>3. ASSUME NEW a \in Aliases, Carries(p, a)'
        PROVE  a = at /\ Holds(l, a) /\ proc'[p].sid = launch[l].plan[a].sid
    <3>1. p \notin late' /\ c.how \in Returns /\ a = at
      BY <2>1, <2>2, <2>3 DEF Carries
    <3>2. ~launch[l].lost
      BY <2>1, <3>1
    <3>3. ~Reserves(Mine(l).how)
      BY <2>1, <3>1 DEF Reserves, Returns
    <3>4. QED
      BY <1>0, <2>1, <2>2, <3>1, <3>2, <3>3 DEF Holds, Mine
  <2>4. ASSUME NEW q \in Procs, NEW a \in Aliases, q # p, Carries(q, a)'
        PROVE  Carries(q, a) /\ proc'[q].sid = proc[q].sid
    BY <2>1, <2>2, <2>4, SameCarries
  <2>5. ASSUME NEW k \in Launchers, NEW a \in Aliases, Holds(k, a)'
        PROVE  Holds(k, a) /\ launch'[k].plan[a].sid = launch[k].plan[a].sid /\ k # l
    BY <1>1, <1>2, <2>5, KeepsHolds
  <2>6. ASSUME NEW k \in Launchers, NEW a \in Aliases, Holds(k, a)'
        PROVE  /\ marker'[a].by = k /\ marker'[a].fresh /\ marker'[a].sid = launch'[k].plan[a].sid
               /\ \A q \in Procs : ~Carries(q, a)'
    <3>1. Holds(k, a) /\ launch'[k].plan[a].sid = launch[k].plan[a].sid /\ k # l
      BY <2>5, <2>6
    <3>2. ~Holds(l, a)
      BY <3>1 DEF Guarded
    <3>3. QED
      BY <1>0, <2>3, <2>4, <3>1, <3>2 DEF Guarded
  <2>7. ASSUME NEW q \in Procs, NEW a \in Aliases, Carries(q, a)'
        PROVE  /\ marker'[a].fresh /\ marker'[a].sid = proc'[q].sid
               /\ \A r \in Procs : Carries(r, a)' => r = q
    <3>1. CASE q = p
      <4>1. Holds(l, a) /\ proc'[p].sid = launch[l].plan[a].sid
        BY <2>3, <2>7, <3>1
      <4>2. QED
        BY <1>0, <2>4, <3>1, <4>1 DEF Guarded
    <3>2. CASE q # p
      <4>1. Carries(q, a) /\ proc'[q].sid = proc[q].sid
        BY <2>4, <2>7, <3>2
      <4>2. ~Carries(p, a)'
        BY <2>3, <4>1 DEF Guarded
      <4>3. QED
        BY <1>0, <2>4, <4>1, <4>2 DEF Guarded
    <3>3. QED
      BY <3>1, <3>2
  <2> HIDE DEF Holds, Carries
  <2>8. QED
    BY <2>6, <2>7 DEF Guarded
<1>5. QED
  BY <1>0, <1>3, <1>4

\* The other steps of a launcher leave the guards.
LEMMA LaunchGuards ==
  ASSUME TypeOK, Chosen, Named, Guarded, NEW l \in Launchers,
         Command(l) \/ Launch(l) \/ \E a \in Aliases : ReserveAlias(l, a)
  PROVE  Guarded'
<1> DEFINE at == launch[l].a
<1>1. ASSUME UNCHANGED <<marker, proc, late>>, Command(l) \/ Acts(l),
             launch'[l].pc \notin {"claimed", "recorded"}
      PROVE  Guarded'
  <2>1. \A k \in Launchers : k # l => Keeps(k)
    BY <1>1, CommandMoves, ActMoves
  <2>2. \A a \in Aliases : ~Holds(l, a)'
    BY <1>1 DEF Holds
  <2>3. QED
    BY <1>1, <2>1, <2>2, LauncherGuards
<1>2. CASE Command(l)
  <2>1. UNCHANGED <<marker, proc, late>>
    BY <1>2, Zenon DEF Command, Apply, ResumeAnchor, StartChild, OnlyPlans
  <2>2. QED
    BY <1>1, <1>2, <2>1, CommandMoves
<1>3. ASSUME NEW a \in Aliases, ReserveAlias(l, a)
      PROVE  Guarded'
  <2>1. /\ UNCHANGED <<marker, proc, late>> /\ Acts(l) /\ Reserves(launch[l].plan[a].how)
        /\ Done(l, a) \/ Takes(l, "claimed", a)
    BY <1>3, Zenon DEF ReserveAlias, Acts, Takes
  <2>2. CASE Done(l, a)
    BY <1>1, <2>1, <2>2, DoneRests DEF Rests
  <2>3. CASE Takes(l, "claimed", a)
    <3>1. launch'[l].a = a /\ launch'[l].plan = launch[l].plan
          /\ \A k \in Launchers : k # l => Keeps(k)
      BY <2>3, Chose
    <3>2. \A b \in Aliases : ~Holds(l, b)'
      BY <2>1, <3>1 DEF Holds, Reserves, Returns
    <3>3. QED
      BY <2>1, <3>1, <3>2, LauncherGuards
  <2>4. QED
    BY <2>1, <2>2, <2>3
<1>4. CASE RecordCoordinator(l)
  <2>1. launch[l].pc = "claimed" /\ UNCHANGED <<marker, proc, late>> /\ Acts(l)
    BY <1>4, Recording DEF Acts, Launch
  <2>2. CASE Done(l, at) \/ Step(l, "unreserve")
    <3>1. launch'[l].pc \in {"idle", "next", "unreserve"}
      BY <2>2, DoneRests, Stepped DEF Rests
    <3>2. QED
      BY <1>1, <2>1, <3>1
  <2>3. ASSUME NEW wrote \in Coords,
               Becomes(l, [launch[l] EXCEPT !.pc = "recorded", !.prev = coord[at],
                                            !.wrote = wrote])
        PROVE  Guarded'
    <3>1. /\ launch'[l].a = at /\ launch'[l].plan = launch[l].plan
          /\ launch'[l].lost = launch[l].lost /\ \A k \in Launchers : k # l => Keeps(k)
      BY <2>3, Wrote
    <3>2. \A a \in Aliases : Holds(l, a)' =>
             Holds(l, a) /\ launch'[l].plan[a].sid = launch[l].plan[a].sid
      BY <2>1, <3>1 DEF Holds
    <3>3. QED
      BY <2>1, <3>1, <3>2, LauncherGuards
  <2>4. QED
    BY <1>4, <2>2, <2>3, Recording
<1>5. CASE Undo(l) \/ Unreserve(l) \/ Killed(l)
  <2>1. UNCHANGED <<marker, proc, late>> /\ Acts(l)
    BY <1>5, Zenon DEF Acts, Launch, Undo, Unreserve, Killed
  <2>2. Done(l, at) \/ Step(l, "unreserve") \/ Becomes(l, Idle)
    BY <1>5, Zenon DEF Undo, Unreserve, Killed
  <2>3. launch'[l].pc \in {"idle", "next", "unreserve"}
    <3>1. CASE Done(l, at)
      BY <3>1, DoneRests DEF Rests
    <3>2. CASE Step(l, "unreserve")
      BY <3>2, Stepped
    <3>3. CASE Becomes(l, Idle)
      BY <3>3, Others DEF Idle
    <3>4. QED
      BY <2>2, <3>1, <3>2, <3>3
  <2>4. QED
    BY <1>1, <2>1, <2>3
<1>6. QED
  BY <1>2, <1>3, <1>4, <1>5, ForkGuards DEF Launch

LEMMA QuietGuards ==
  ASSUME Guarded, UNCHANGED <<marker, launch>>,
         \A p \in Procs, a \in Aliases : Carries(p, a)' =>
            Carries(p, a) /\ proc'[p].sid = proc[p].sid
  PROVE  Guarded'
<1>1. \A l \in Launchers, a \in Aliases : Holds(l, a)' =>
         /\ Holds(l, a) /\ launch'[l].plan[a].sid = launch[l].plan[a].sid
         /\ marker'[a] = marker[a]
  BY DEF Holds
<1>2. QED
  BY <1>1, GuardStays

\* What processes and users do leaves the guards, or clears them.
LEMMA ProcessGuards ==
  ASSUME TypeOK, Named, Guarded, NEW p \in Procs,
         Boot(p) \/ JoinLooks(p) \/ Join(p) \/ Clear(p) \/ Arm(p) \/ Exit(p)
  PROVE  Guarded'
<1>0. proc \in [Procs -> Children] /\ proc[p] \in Children
  BY DEF TypeOK
<1>1. CASE Boot(p)
  <2>1. UNCHANGED <<marker, launch, late>> /\ proc[p].st = "opening"
    BY <1>1, Zenon DEF Boot, Launching
  <2>2. PICK s : proc' = [proc EXCEPT ![p].st = "running", ![p].sid = s]
                 /\ (proc[p].sid # NoSid => s = proc[p].sid)
    <3>1. CASE proc[p].sid # NoSid
      <4>1. [proc EXCEPT ![p].st = "running"]
               = [proc EXCEPT ![p].st = "running", ![p].sid = proc[p].sid]
        BY <1>0 DEF Children
      <4>2. QED
        BY <1>1, <3>1, <4>1 DEF Boot
    <3>2. CASE proc[p].sid = NoSid
      BY <1>1, <3>2 DEF Boot
    <3>3. QED
      BY <3>1, <3>2
  <2>3. /\ proc'[p].sid = s /\ proc'[p].how = proc[p].how /\ proc'[p].a = proc[p].a
        /\ \A q \in Procs : q # p => proc'[q] = proc[q]
    BY <1>0, <2>2 DEF Children
  <2>4. ASSUME NEW a \in Aliases, Carries(p, a)'
        PROVE  Carries(p, a) /\ proc'[p].sid = proc[p].sid
    <3>1. Carries(p, a)
      BY <2>1, <2>3, <2>4 DEF Carries, Coming
    <3>2. proc[p].sid # NoSid
      BY <3>1 DEF Carries, Named
    <3>3. QED
      BY <2>2, <2>3, <3>1, <3>2
  <2>5. \A q \in Procs, a \in Aliases : Carries(q, a)' =>
           Carries(q, a) /\ proc'[q].sid = proc[q].sid
    BY <2>1, <2>3, <2>4, SameCarries
  <2>6. QED
    BY <2>1, <2>5, QuietGuards
<1>3. CASE JoinLooks(p) \/ Join(p)
  <2>1. UNCHANGED <<marker, launch, late>>
    BY <1>3, Looking, Joining
  <2>2. /\ Coming(p)' => Coming(p)
        /\ proc'[p].sid = proc[p].sid /\ proc'[p].how = proc[p].how /\ proc'[p].a = proc[p].a
        /\ \A q \in Procs : q # p => proc'[q] = proc[q]
    BY <1>3, Walks DEF Goes, Coming
  <2>3. \A q \in Procs, a \in Aliases : Carries(q, a)' =>
           Carries(q, a) /\ proc'[q].sid = proc[q].sid
    <3>1. ASSUME NEW q \in Procs, NEW a \in Aliases, Carries(q, a)'
          PROVE  Carries(q, a) /\ proc'[q].sid = proc[q].sid
      <4>1. CASE q = p
        BY <2>1, <2>2, <3>1, <4>1 DEF Carries
      <4>2. CASE q # p
        BY <2>1, <2>2, <3>1, <4>2, SameCarries
      <4> QED
        BY <4>1, <4>2
    <3>2. QED
      BY <3>1
  <2>4. QED
    BY <2>1, <2>3, QuietGuards
<1>4. CASE Clear(p)
  <2> DEFINE at == proc[p].a
  <2>1. proc' = [proc EXCEPT ![p].st = "joined"] /\ at \in Aliases
        /\ \/ UNCHANGED <<marker, launch, late>>
           \/ marker' = [marker EXCEPT ![at] = NoMarker] /\ Unguarded(at)
    BY <1>0, <1>4 DEF Clear, Children
  <2>2. ~Coming(p)' /\ \A q \in Procs : q # p => proc'[q] = proc[q]
    BY <1>0, <2>1 DEF Coming, Children
  <2>3. \A q \in Procs, a \in Aliases : (Coming(q) /\ proc[q].a = a)' =>
           q # p /\ Coming(q) /\ proc[q].a = a /\ proc'[q] = proc[q]
    BY <2>2 DEF Coming
  <2>4. CASE UNCHANGED <<marker, launch, late>>
    <3>1. \A q \in Procs, a \in Aliases : Carries(q, a)' =>
             Carries(q, a) /\ proc'[q].sid = proc[q].sid
      BY <2>3, <2>4 DEF Carries
    <3>2. QED
      BY <2>4, <3>1, QuietGuards
  <2>5. CASE marker' = [marker EXCEPT ![at] = NoMarker] /\ Unguarded(at)
    <3>1. \A b \in Aliases : b # at => marker'[b] = marker[b]
      BY <2>5 DEF TypeOK
    <3>2. \A q \in Procs : \A b \in Aliases : (Coming(q) /\ proc[q].a = b)' =>
             Coming(q) /\ proc[q].a = b /\ proc'[q].sid = proc[q].sid
                       /\ proc'[q].how = proc[q].how
      BY <2>3
    <3> HIDE DEF at
    <3>3. QED
      BY <2>1, <2>5, <3>1, <3>2, UnguardedGuards
  <2>6. QED
    BY <2>1, <2>4, <2>5
<1>5. CASE Arm(p)
  <2>1. UNCHANGED <<marker, launch, late, proc>>
    BY <1>5, Zenon DEF Arm, Launching
  <2>2. QED
    BY <2>1, SameCarries, QuietGuards
<1>6. CASE Exit(p)
  <2>1. UNCHANGED <<marker, launch>> /\ late' = late \ {p}
        /\ proc' = [proc EXCEPT ![p] = [NoProc EXCEPT !.st = "dead"]]
    BY <1>6, Zenon DEF Exit
  <2>2. ~Coming(p)' /\ \A q \in Procs : q # p => proc'[q] = proc[q]
    BY <1>0, <2>1 DEF Coming, NoProc
  <2>3. ASSUME NEW q \in Procs, NEW a \in Aliases, Carries(q, a)'
        PROVE  Carries(q, a) /\ proc'[q].sid = proc[q].sid
    <3>1. q # p
      BY <2>2, <2>3 DEF Carries
    <3>2. QED
      BY <2>1, <2>2, <2>3, <3>1, SameCarries
  <2>4. QED
    BY <2>1, <2>3, QuietGuards
<1>7. QED
  BY <1>1, <1>3, <1>4, <1>5, <1>6

LEMMA WorldGuards ==
  ASSUME TypeOK, Guarded, World
  PROVE  Guarded'
<1>0. proc \in [Procs -> Children]
  BY DEF TypeOK
<1>1. ASSUME NEW p \in Procs, NEW a \in Aliases, StartByHand(p, a)
      PROVE  Guarded'
  <2>1. UNCHANGED <<marker, launch, late>>
    BY <1>1, Zenon DEF StartByHand
  <2>2. PICK s : proc' = [proc EXCEPT ![p] = [st |-> "running", a |-> a, sid |-> s, how |-> "hand", birth |-> ""]]
    BY <1>1, Zenon DEF StartByHand
  <2>3. proc'[p].how = "hand" /\ \A q \in Procs : q # p => proc'[q] = proc[q]
    BY <1>0, <2>2
  <2>4. ASSUME NEW q \in Procs, NEW b \in Aliases, Carries(q, b)'
        PROVE  Carries(q, b) /\ proc'[q].sid = proc[q].sid
    <3>1. q # p
      BY <2>3, <2>4 DEF Carries, Returns
    <3>2. QED
      BY <2>1, <2>3, <2>4, <3>1, SameCarries
  <2>5. QED
    BY <2>1, <2>4, QuietGuards
<1>2. ASSUME NEW a \in Aliases, Expire(a)
      PROVE  Guarded'
  <2>1. UNCHANGED proc /\ \/ UNCHANGED <<marker, launch, late>>
                          \/ marker' = [marker EXCEPT ![a].fresh = FALSE] /\ Unguarded(a)
    BY <1>2, Zenon DEF Expire
  <2>2. CASE UNCHANGED <<marker, launch, late>>
    BY <2>1, <2>2, SameCarries, QuietGuards
  <2>3. CASE marker' = [marker EXCEPT ![a].fresh = FALSE] /\ Unguarded(a)
    <3>1. \A b \in Aliases : b # a => marker'[b] = marker[b]
      BY <2>3 DEF TypeOK
    <3>2. \A q \in Procs : \A b \in Aliases : (Coming(q) /\ proc[q].a = b)' =>
             Coming(q) /\ proc[q].a = b /\ proc'[q].sid = proc[q].sid
                       /\ proc'[q].how = proc[q].how
      BY <2>1 DEF Coming
    <3>3. QED
      BY <2>3, <3>1, <3>2, UnguardedGuards
  <2>4. QED
    BY <2>1, <2>2, <2>3
<1>3. ASSUME \/ \E l \in Launchers, a \in Aliases : RecordBootstrapCoordinator(l, a)
             \/ \E a \in Aliases, b \in Aliases : Rename(a, b)
             \/ Save
      PROVE  Guarded'
  <2>1. UNCHANGED <<marker, launch, late, proc>>
    BY <1>3, Zenon DEF RecordBootstrapCoordinator, Rename, Save
  <2>2. QED
    BY <2>1, SameCarries, QuietGuards
<1>4. QED
  BY <1>1, <1>2, <1>3 DEF World

LEMMA GuardedStep ==
  ASSUME TypeOK, Chosen, Named, Guarded, Locked, Next
  PROVE  Guarded'
BY Groups, ClaimGuards, LaunchGuards, ProcessGuards, WorldGuards

(* -------------------------------------------------------- births and failures -- *)

FileGood(a) == file[a].mode = "none" => file[a].sid = NoSid /\ file[a].origin = ""
SeatGood(a) == /\ seat[a].sid = Reserved => seat[a].origin \in {"fork", "fresh"}
               /\ seat[a].sid \in ledger => seat[a].origin = "fork" \/ seat[a].sid \in blurred

LEMMA Unrecorded ==
  ASSUME TypeOK
  PROVE  /\ NoSeat.sid = NoSid /\ NoSid # Reserved /\ NoSid \notin ledger /\ Reserved \notin ledger
         /\ \A p \in Procs : proc[p].sid # Reserved
<1>1. NoSeat.sid = NoSid
  BY DEF NoSeat
<1>2. NoSid \notin Sessions /\ Reserved \notin Sessions /\ NoSid # Reserved
  BY Blanks DEF Sessions, Reserved
<1>3. ledger \subseteq Sessions /\ \A p \in Procs : proc[p].sid \in Ids
  BY Numbers DEF TypeOK
<1>4. QED
  BY <1>1, <1>2, <1>3, Blanks

\* What a save makes of a peer that is not in the file.
LEMMA SavedGood ==
  ASSUME TypeOK, Save, NEW a \in Aliases, FileGood(a)
  PROVE  /\ FileGood(a)'
         /\ file[a].mode = "none" /\ file'[a].mode # "template" =>
               \/ file'[a].sid = NoSid
               \/ file'[a].sid = seat[a].sid /\ seat[a].origin \in {"fresh", "joined"}
<1>1. /\ file'[a].sid = Saved(a).sid /\ file'[a].origin = Saved(a).origin
      /\ \/ file'[a].mode = Saved(a).mode
         \/ Saved(a).mode # "none" /\ file'[a].mode \in Modes
            /\ (file'[a].mode = "template" \/ Saved(a).origin \in {"fresh", "joined"})
  BY Saving
<1>2. CASE file[a].mode # "none"
  BY <1>1, <1>2, SavedPeer DEF FileGood, Modes
<1>3. CASE file[a].mode = "none" /\ seat[a] = NoSeat
  BY <1>1, <1>3, SavedPeer DEF FileGood
<1>4. CASE file[a].mode = "none" /\ seat[a] # NoSeat
  <2>1. /\ Saved(a).sid = (IF seat[a].sid = Reserved THEN NoSid ELSE seat[a].sid)
        /\ Saved(a).origin = seat[a].origin
        /\ Saved(a).mode = (IF Saved(a).sid # NoSid /\ Saved(a).origin \in {"fresh", "joined"}
                            THEN "resume" ELSE "template")
    BY <1>4, SavedPeer DEF FileGood
  <2>2. file'[a].mode # "none"
    BY <1>1, <2>1 DEF Modes
  <2>3. QED
    BY <1>1, <2>1, <2>2 DEF FileGood
<1>5. QED
  BY <1>2, <1>3, <1>4

\* A registration a join writes.
LEMMA JoinMarks ==
  ASSUME TypeOK, Named, Alone, \A a \in Aliases : SeatGood(a), NEW p \in Procs, Join(p)
  PROVE  \A a \in Aliases : SeatGood(a)'
<1>1. CASE Refused(p)
  BY <1>1 DEF Refused, SeatGood
<1>2. ASSUME NEW st \in {"arrived", "joined"}, Takes1(p, st)
      PROVE  \A a \in Aliases : SeatGood(a)'
  <2> DEFINE at == proc[p].a
             s == proc[p].sid
             birth == proc[p].birth
             r == [sid |-> s, origin |-> birth, listener |-> "never"]
  <2>0. r.sid = s /\ r.origin = birth
    OBVIOUS
  <2>1. /\ at \in Aliases /\ s # Reserved /\ seat \in [Aliases -> Seats]
        /\ seat' = [seat EXCEPT ![at] = r]
        /\ ledger' = IF birth = "fork" THEN ledger \cup {s} ELSE ledger
        /\ blurred' = IF birth = "fresh" /\ s \in ledger THEN blurred \cup {s} ELSE blurred
    BY <1>2, ChildTyped, Unrecorded DEF Takes1, TypeOK
  <2>2. s \notin blurred => /\ \A a \in Aliases : seat[a].sid # s
                            /\ s \in ledger => birth \in {"fork", "fresh"}
    BY Joining DEF Alone
  <2> HIDE DEF at, s, birth, r
  <2>3. ASSUME NEW a \in Aliases
        PROVE  SeatGood(a)'
    <3>1. SeatGood(a)
      OBVIOUS
    <3>2. CASE a # at
      <4>1. seat'[a] = seat[a]
        BY <2>1, <3>2
      <4> QED
        BY <2>1, <2>2, <3>1, <4>1 DEF SeatGood
    <3>3. CASE a = at
      <4>1. seat'[a] = r
        BY <2>1, <3>3
      <4> QED
        BY <2>0, <2>1, <2>2, <4>1 DEF SeatGood
    <3> QED
      BY <3>2, <3>3
  <2> QED
    BY <2>3
<1> QED
  BY <1>1, <1>2, Joining

LEMMA JoinEnds ==
  ASSUME TypeOK, NEW p \in Procs, Join(p)
  PROVE  /\ blurred \subseteq blurred' /\ ledger' \subseteq ledger \cup {proc[p].sid}
         /\ proc[p].st = "joining" /\ proc'[p].st # "joining"
<1>1. /\ proc[p].st = "joining"
      /\ blurred \subseteq blurred' /\ ledger' \subseteq ledger \cup {proc[p].sid}
  BY Joining DEF Refused, Takes1
<1>2. \E st \in {"running", "arrived", "joined"} :
         proc' = [proc EXCEPT ![p].st = st, ![p].birth = ""]
  BY Joining DEF Refused, Takes1
<1>3. ASSUME NEW st \in {"running", "arrived", "joined"},
             proc' = [proc EXCEPT ![p].st = st, ![p].birth = ""]
      PROVE  proc'[p].st = st
  BY <1>3, ChildTyped, Going DEF Goes, Stations, Origins
<1> QED
  BY <1>1, <1>2, <1>3

\* Only a look adds to the overlaps, only a join to the ledger.
LEMMA OnlyJoins ==
  ASSUME Next, \A p \in Procs : ~JoinLooks(p) /\ ~Join(p)
  PROVE  UNCHANGED <<ledger, blurred>>
<1>1. ASSUME NEW l \in Launchers, \/ Command(l) \/ Claim(l) \/ Launch(l)
                                  \/ \E a \in Aliases : ReserveAlias(l, a)
      PROVE  UNCHANGED <<ledger, blurred>>
  BY <1>1, Zenon DEF Command, Apply, ResumeAnchor, StartChild, OnlyPlans, Launch,
                     Claim, Link, Taken, Peek, Swap, OnlyMarker, ReserveAlias,
                     RecordCoordinator, Fork, Undo, Unreserve, Killed
<1>2. ASSUME NEW p \in Procs, Boot(p) \/ Clear(p) \/ Arm(p) \/ Exit(p)
      PROVE  UNCHANGED <<ledger, blurred>>
  BY <1>2, Zenon DEF Boot, Clear, Arm, Exit
<1>3. ASSUME World
      PROVE  UNCHANGED <<ledger, blurred>>
  BY <1>3, Zenon DEF World, RecordBootstrapCoordinator, StartByHand, Expire, Rename, Save
<1> QED
  BY <1>1, <1>2, <1>3, Groups

LEMMA SeatsStayMarked ==
  ASSUME TypeOK, Named, Alone, Next, \A a \in Aliases : SeatGood(a)
  PROVE  \A a \in Aliases : SeatGood(a)'
<1>0. /\ \A a \in Aliases : Pruned[a] \in {seat[a], NoSeat} /\ seat[a] \in Seats
      /\ Pruned \in [Aliases -> Seats] /\ seat \in [Aliases -> Seats]
      /\ NoSeat.sid = NoSid /\ NoSid # Reserved /\ NoSid \notin ledger /\ Reserved \notin ledger
  BY PrunedTyped, Unrecorded DEF TypeOK
<1>1. ASSUME UNCHANGED <<ledger, blurred>>,
             \A a \in Aliases : \/ seat'[a].sid = NoSid
                                \/ seat'[a].sid = Reserved /\ seat'[a].origin \in {"fork", "fresh"}
                                \/ \E b \in Aliases : /\ seat'[a].sid = seat[b].sid
                                                      /\ seat'[a].origin = seat[b].origin
      PROVE  \A a \in Aliases : SeatGood(a)'
  <2>1. ASSUME NEW a \in Aliases
        PROVE  SeatGood(a)'
    <3>1. CASE \/ seat'[a].sid = NoSid
               \/ seat'[a].sid = Reserved /\ seat'[a].origin \in {"fork", "fresh"}
      BY <1>0, <1>1, <3>1 DEF SeatGood
    <3>2. ASSUME NEW b \in Aliases, seat'[a].sid = seat[b].sid, seat'[a].origin = seat[b].origin
          PROVE  SeatGood(a)'
      <4>1. SeatGood(b)
        OBVIOUS
      <4>2. QED
        BY <1>1, <3>2, <4>1 DEF SeatGood
    <3>3. QED
      BY <1>1, <3>1, <3>2
  <2>2. QED
    BY <2>1
<1>2. ASSUME NEW l \in Launchers, NEW b \in Aliases, ReserveAlias(l, b)
      PROVE  \A a \in Aliases : SeatGood(a)'
  <2>1. UNCHANGED <<ledger, blurred>>
    BY <1>2, Zenon DEF ReserveAlias
  <2>2. PICK r : /\ seat' = Pruned \/ seat' = [Pruned EXCEPT ![b] = r]
                 /\ r.sid = Reserved /\ r.origin \in {"fork", "fresh"}
    <3> DEFINE r == [NoSeat EXCEPT !.sid = Reserved, !.origin = BornAs(launch[l].plan[b].how)]
    <3>1. r.sid = Reserved /\ r.origin \in {"fork", "fresh"}
      BY DEF NoSeat, BornAs
    <3>2. seat' = Pruned \/ seat' = [Pruned EXCEPT ![b] = r]
      BY <1>2 DEF ReserveAlias
    <3> HIDE DEF r
    <3>3. QED
      BY <3>1, <3>2
  <2>3. QED
    BY <1>0, <1>1, <2>1, <2>2
<1>3. ASSUME NEW l \in Launchers, Unreserve(l)
      PROVE  \A a \in Aliases : SeatGood(a)'
  <2>1. UNCHANGED <<ledger, blurred>>
        /\ (UNCHANGED seat \/ seat' = [seat EXCEPT ![launch[l].a] = NoSeat])
    BY <1>3 DEF Unreserve
  <2>2. QED
    BY <1>0, <1>1, <2>1
<1>4. ASSUME NEW p \in Procs, Arm(p)
      PROVE  \A a \in Aliases : SeatGood(a)'
  <2>1. UNCHANGED <<ledger, blurred>>
    BY <1>4, Zenon DEF Arm
  <2>2. PICK b \in Aliases : seat' = [seat EXCEPT ![b].listener = "alive"]
    BY <1>4 DEF Arm
  <2>3. \A a \in Aliases : seat'[a].sid = seat[a].sid /\ seat'[a].origin = seat[a].origin
    BY <1>0, <2>2 DEF Seats
  <2>4. QED
    BY <1>1, <2>1, <2>3
<1>5. ASSUME NEW p \in Procs, Exit(p)
      PROVE  \A a \in Aliases : SeatGood(a)'
  <2>1. UNCHANGED <<ledger, blurred>>
    BY <1>5, Zenon DEF Exit
  <2>2. \A a \in Aliases : seat'[a].sid = seat[a].sid /\ seat'[a].origin = seat[a].origin
    BY <1>0, <1>5 DEF Exit, Seats
  <2>3. QED
    BY <1>1, <2>1, <2>2
<1>6. ASSUME NEW b \in Aliases, NEW c \in Aliases, Rename(b, c)
      PROVE  \A a \in Aliases : SeatGood(a)'
  <2>1. /\ UNCHANGED <<ledger, blurred>>
        /\ seat' = [seat EXCEPT ![c] = Renamed(seat[b]), ![b] = NoSeat]
    BY <1>6, Zenon DEF Rename
  <2>2. \A a \in Aliases : seat'[a] \in {seat[a], Renamed(seat[b]), NoSeat}
    BY <1>0, <2>1
  <2>3. Renamed(seat[b]).sid = seat[b].sid /\ Renamed(seat[b]).origin = seat[b].origin
    BY RenamedIs
  <2>4. QED
    BY <1>0, <1>1, <2>1, <2>2, <2>3
<1>a. ASSUME NEW p \in Procs, JoinLooks(p)
      PROVE  \A a \in Aliases : SeatGood(a)'
  <2>1. /\ seat' = Pruned /\ UNCHANGED ledger /\ blurred \subseteq blurred'
    BY <1>a, Looking
  <2>2. ASSUME NEW a \in Aliases
        PROVE  SeatGood(a)'
    <3>1. SeatGood(a) /\ seat'[a] \in {seat[a], NoSeat}
      BY <1>0, <2>1
    <3> QED
      BY <1>0, <2>1, <3>1 DEF SeatGood
  <2> QED
    BY <2>2
<1>7. ASSUME UNCHANGED <<seat, ledger, blurred>>
      PROVE  \A a \in Aliases : SeatGood(a)'
  BY <1>7 DEF SeatGood
<1>8. ASSUME NEW l \in Launchers, Command(l) \/ Claim(l) \/ (Launch(l) /\ ~Unreserve(l))
      PROVE  UNCHANGED <<seat, ledger, blurred>>
  BY <1>8, Zenon DEF Command, Apply, ResumeAnchor, StartChild, OnlyPlans, Launch,
                     Claim, Link, Taken, Peek, Swap, OnlyMarker,
                     RecordCoordinator, Fork, Undo, Killed
<1>9. ASSUME NEW p \in Procs, Boot(p) \/ Clear(p)
      PROVE  UNCHANGED <<seat, ledger, blurred>>
  BY <1>9, Zenon DEF Boot, Clear
<1>10. ASSUME World, \A b \in Aliases, c \in Aliases : ~Rename(b, c)
       PROVE  UNCHANGED <<seat, ledger, blurred>>
  BY <1>10, Zenon DEF World, RecordBootstrapCoordinator, StartByHand, Expire, Save
<1>11. QED
  BY <1>2, <1>3, <1>4, <1>5, <1>6, <1>a, <1>7, <1>8, <1>9, <1>10, JoinMarks, Groups

LEMMA MarkedStep ==
  ASSUME TypeOK, Named, Marked, Alone, Next
  PROVE  Marked'
<1>1. \A a \in Aliases : SeatGood(a) /\ FileGood(a)
  BY DEF Marked, SeatGood, FileGood
<1>2. \A a \in Aliases : SeatGood(a)'
  BY <1>1, SeatsStayMarked
<1>3. \A a \in Aliases : FileGood(a)'
  <2>1. CASE Save
    BY <1>1, <2>1, SavedGood
  <2>2. CASE ~Save
    BY <1>1, <2>2, OnlySaves DEF FileGood
  <2>3. QED
    BY <2>1, <2>2
<1>4. QED
  BY <1>2, <1>3 DEF Marked, SeatGood, FileGood

\* A look that finds the session nowhere reads the birth that the ledger gives.
LEMMA LooksAlone ==
  ASSUME TypeOK, Named, Alone, \A a \in Aliases : SeatGood(a), NEW p \in Procs, JoinLooks(p)
  PROVE  Alone'
<1>0. /\ seat' = Pruned /\ UNCHANGED ledger /\ blurred \subseteq blurred'
      /\ \A a \in Aliases : Pruned[a] \in {seat[a], NoSeat}
      /\ NoSeat.sid = NoSid /\ proc[p].a \in Aliases /\ proc[p].st = "running"
  BY Looking, PrunedTyped, ChildTyped, Unrecorded
<1>1. \A q \in Procs : q # p => proc'[q] = proc[q]
  BY Walks DEF Goes
<1>2. \A q \in Procs : proc[q].st = "joining" => proc[q].sid # NoSid
  BY DEF Named
<1>3. CASE proc'[p].st # "joining"
  <2>1. \A q \in Procs : proc'[q].st = "joining" => proc'[q] = proc[q]
    BY <1>1, <1>3
  <2> QED
    BY <1>0, <1>2, <2>1 DEF Alone
<1>4. CASE proc'[p].st = "joining"
  <2>1. /\ \A b \in Aliases : Pruned[b].sid # proc[p].sid
        /\ proc' = [proc EXCEPT ![p].st = "joining", ![p].birth = Birth(proc[p].a, proc[p].sid)]
        /\ blurred' = IF Overlapped(p) THEN blurred \cup {proc[p].sid} ELSE blurred
    <3>1. proc' # [proc EXCEPT ![p].st = "joined"]
      BY <1>4 DEF TypeOK, Children
    <3> QED
      BY <3>1, Looking
  <2>2. proc'[p].sid = proc[p].sid /\ proc'[p].birth = Birth(proc[p].a, proc[p].sid)
    BY <2>1 DEF TypeOK, Children
  <2>3. proc[p].sid \in ledger /\ proc[p].sid \notin blurred
           => Birth(proc[p].a, proc[p].sid) \in {"fork", "fresh"}
    <3>1. SeatGood(proc[p].a)
      BY <1>0
    <3> QED
      BY <3>1 DEF SeatGood, Birth
  <2>4. proc[p].sid \notin blurred' =>
           \A q \in Procs : q # p /\ proc[q].st = "joining" => proc[q].sid # proc[p].sid
    BY <2>1 DEF Overlapped
  <2>5. ASSUME NEW q \in Procs, proc'[q].st = "joining", proc'[q].sid \notin blurred'
        PROVE  /\ \A a \in Aliases : seat'[a].sid # proc'[q].sid
               /\ \A o \in Procs : o # q /\ proc'[o].st = "joining" => proc'[o].sid # proc'[q].sid
               /\ proc'[q].sid \in ledger' => proc'[q].birth \in {"fork", "fresh"}
    <3>1. CASE q = p
      <4>0. proc'[q].sid = proc[p].sid
        BY <2>2, <3>1
      <4>1. proc[p].sid \notin blurred' /\ proc[p].sid \notin blurred
        BY <1>0, <2>5, <4>0
      <4>2. \A o \in Procs : o # p /\ proc'[o].st = "joining" => proc'[o].sid # proc[p].sid
        BY <1>1, <2>4, <4>1
      <4>3. \A a \in Aliases : seat'[a].sid # proc[p].sid
        BY <1>0, <2>1
      <4>4. proc[p].sid \in ledger' => proc'[p].birth \in {"fork", "fresh"}
        BY <1>0, <2>2, <2>3, <4>1
      <4> QED
        BY <3>1, <4>0, <4>2, <4>3, <4>4
    <3>2. CASE q # p
      <4>1. proc'[q] = proc[q] /\ proc[q].sid \notin blurred
        BY <1>0, <1>1, <2>5, <3>2
      <4>2. proc[q].sid # proc[p].sid
        BY <2>1, <2>5, <3>2, <4>1 DEF Overlapped
      <4> QED
        BY <1>0, <1>1, <1>2, <2>2, <2>5, <3>2, <4>1, <4>2 DEF Alone
    <3> QED
      BY <3>1, <3>2
  <2> QED
    BY <2>5 DEF Alone
<1> QED
  BY <1>3, <1>4

LEMMA AloneStep ==
  ASSUME TypeOK, Chosen, Named, Marked, Alone, Next
  PROVE  Alone'
<1>0. \A a \in Aliases : SeatGood(a)
  BY DEF Marked, SeatGood
<1>1. CASE \E p \in Procs : JoinLooks(p)
  BY <1>0, <1>1, LooksAlone
<1>2. CASE \A p \in Procs : ~JoinLooks(p)
  <2>1. \A q \in Procs : proc'[q].st = "joining" => proc'[q] = proc[q]
    <3>1. ASSUME NEW q \in Procs, OneOf(q), proc'[q].st = "joining"
          PROVE  FALSE
      <4>1. Join(q)
        BY <1>2, <3>1 DEF OneOf, Ended, Answered, Asked, Looked, Booted, Born, ByHand
      <4>2. proc'[q].st # "joining"
        BY <4>1, JoinEnds
      <4> QED
        BY <3>1, <4>2
    <3> QED
      BY <3>1, ProcessSteps
  <2>2. blurred \subseteq blurred' /\ \A q \in Procs :
           proc'[q].st = "joining" /\ proc[q].sid \notin blurred /\ proc[q].sid \in ledger'
              => proc[q].sid \in ledger
    <3>1. CASE \A p \in Procs : ~Join(p)
      BY <1>2, <3>1, OnlyJoins
    <3>2. ASSUME NEW p \in Procs, Join(p)
          PROVE  /\ blurred \subseteq blurred' /\ ledger' \subseteq ledger \cup {proc[p].sid}
                 /\ proc[p].st = "joining" /\ proc'[p].st # "joining"
      BY <3>2, JoinEnds
    <3>3. ASSUME NEW p \in Procs, Join(p), NEW q \in Procs, proc'[q].st = "joining",
                 proc[q].sid \notin blurred
          PROVE  proc[q].sid # proc[p].sid
      BY <2>1, <3>2, <3>3 DEF Alone
    <3> QED
      BY <3>1, <3>2, <3>3
  <2>3. ASSUME NEW q \in Procs, proc'[q].st = "joining", proc'[q].sid \notin blurred'
        PROVE  /\ \A a \in Aliases : seat'[a].sid # proc'[q].sid
               /\ \A o \in Procs : o # q /\ proc'[o].st = "joining" => proc'[o].sid # proc'[q].sid
               /\ proc'[q].sid \in ledger' => proc'[q].birth \in {"fork", "fresh"}
    <3>1. /\ proc'[q] = proc[q] /\ proc[q].sid \notin blurred /\ proc[q].sid \notin {NoSid, Reserved}
      BY <2>1, <2>2, <2>3, Unrecorded DEF Named
    <3>2. ASSUME NEW a \in Aliases
          PROVE  seat'[a].sid # proc[q].sid
      BY <2>1, <2>3, <3>1, SeatSteps DEF Alone
    <3> QED
      BY <2>1, <2>2, <2>3, <3>1, <3>2 DEF Alone
  <2> QED
    BY <2>3 DEF Alone
<1> QED
  BY <1>1, <1>2

(* ---------------------------------------------------------------- theorems -- *)

LEMMA Initially ==
  ASSUME Init
  PROVE  IInv
<1>1. /\ seat = [a \in Aliases |-> NoSeat] /\ marker = [a \in Aliases |-> NoMarker]
      /\ reclaim = [a \in Aliases |-> Nobody] /\ coord = [a \in Aliases |-> NoCoord]
      /\ proc = [p \in Procs |-> NoProc] /\ launch = [l \in Launchers |-> Idle]
      /\ ledger = {} /\ sids = 1 /\ left \in Budgets /\ late = {} /\ blurred = {}
  BY DEF Init
<1>2. PICK m \in {"template", "none"} :
         file = [a \in Aliases |-> IF a = Anchor
                     THEN [sid |-> 1, origin |-> "fresh", mode |-> "resume"]
                     ELSE [sid |-> NoSid, origin |-> "", mode |-> m]]
  BY DEF Init
<1>3. 1 \in Ids /\ NoSid \in Ids /\ NoSid # Reserved /\ NoSid <= 1
  BY FormationAssumption, Blanks DEF Ids, Reserved
<1>4. /\ [sid |-> 1, origin |-> "fresh", mode |-> "resume"] \in Peers
      /\ [sid |-> NoSid, origin |-> "", mode |-> m] \in Peers
  BY <1>3 DEF Peers, Origins, Modes
<1>5. left \in [Kinds -> Nat]
  BY <1>1, FormationAssumption DEF Kinds
<1>6. TypeOK
  <2>1. file \in [Aliases -> Peers]
    BY <1>2, <1>4
  <2>2. QED
    BY <1>1, <1>3, <1>5, <2>1, BlankRecords, Blanks DEF TypeOK
<1>7. ASSUME NEW l \in Launchers
      PROVE  /\ launch[l].pc = "idle" /\ launch[l].todo = {}
             /\ \A a \in Aliases : launch[l].plan[a] = Skip
  BY <1>1 DEF Idle
<1>8. Skip.how = "skip" /\ Skip.sid = NoSid
  BY DEF Skip
<1>9. /\ \A a \in Aliases : seat[a] = NoSeat
      /\ \A p \in Procs : proc[p].st = "none" /\ proc[p].sid = NoSid
  BY <1>1 DEF NoProc
<1>10. NoSeat.sid = NoSid
  BY DEF NoSeat
<1>11. \A a \in Aliases : /\ file[a].sid \in {1, NoSid}
                          /\ file[a].mode = "none" => file[a].sid = NoSid /\ file[a].origin = ""
  BY <1>2
<1>12. Chosen /\ Named
  BY <1>7, <1>8, <1>9 DEF Chosen, Named, Coming, Returns
<1>13. HandedOut
  <2>1. sids = 1 /\ NoSid <= sids /\ 1 <= sids
    BY <1>1
  <2>2. \A a \in Aliases : file[a].sid <= sids /\ seat[a].sid <= sids
    BY <1>9, <1>10, <1>11, <2>1
  <2>3. QED
    BY <1>7, <1>8, <1>9, <2>1, <2>2 DEF HandedOut
<1>14. Newborn /\ Guarded /\ Locked /\ OpenRecord
  BY <1>7, <1>9 DEF Newborn, Guarded, Holds, Carries, Coming, Locked, OpenRecord
<1>15. Marked /\ Alone
  BY <1>1, <1>3, <1>9, <1>10, <1>11 DEF Marked, Alone
<1>16. QED
  BY <1>6, <1>12, <1>13, <1>14, <1>15 DEF IInv

LEMMA Stutters ==
  ASSUME IInv, UNCHANGED vars
  PROVE  IInv'
<1>1. TypeOK' /\ Chosen' /\ HandedOut'
  BY DEF IInv, vars, TypeOK, Chosen, HandedOut, Mine
<1>2. Named' /\ Newborn'
  BY DEF IInv, vars, Named, Newborn, Coming
<1>3. Guarded'
  BY DEF IInv, vars, Guarded, Holds, Carries, Coming
<1>4. Locked' /\ Marked' /\ Alone' /\ OpenRecord'
  BY DEF IInv, vars, Locked, Marked, Alone, OpenRecord, Mine
<1>5. QED
  BY <1>1, <1>2, <1>3, <1>4 DEF IInv

\* The inductive invariant: one launcher or one process stands behind a fresh
\* marker, a child that is up and has not joined is known to nobody, a session
\* that joins alone is registered nowhere, and birth and record are as the
\* failing, the joining and the saving code needs them.
THEOREM Inductive == Spec => []IInv
<1>1. Init => IInv
  BY Initially
<1>2. IInv /\ [Next]_vars => IInv'
  <2>1. SUFFICES ASSUME IInv, Next PROVE IInv'
    BY Stutters
  <2>2. TypeOK' /\ Chosen' /\ Named' /\ HandedOut'
    BY <2>1, TypedStep, ChosenStep, NamedStep, HandedOutStep DEF IInv
  <2>3. Newborn' /\ Guarded' /\ Locked'
    BY <2>1, NewbornStep, GuardedStep, LockedStep DEF IInv
  <2>4. Marked' /\ Alone' /\ OpenRecord'
    BY <2>1, MarkedStep, AloneStep, OpenRecordStep DEF IInv
  <2>5. QED
    BY <2>2, <2>3, <2>4 DEF IInv
<1>3. QED
  BY <1>1, <1>2, PTL DEF Spec

\* Every file, record, process and launcher has its type.
THEOREM Types == Spec => []TypeOK
<1>1. IInv => TypeOK
  BY DEF IInv
<1>2. QED
  BY <1>1, Inductive, PTL

\* While a launched child is on its way behind its marker, no second one is
\* launched on its session under its name.
THEOREM OneChild == Spec => []OneChildOnTheWay
<1>1. IInv => OneChildOnTheWay
  <2>1. SUFFICES ASSUME IInv, NEW p \in Procs \ late, NEW q \in Procs \ late, p # q,
                        Coming(p), Coming(q), proc[p].how # "hand", proc[q].how # "hand",
                        proc[p].a = proc[q].a, proc[p].sid # NoSid, proc[p].sid = proc[q].sid
                 PROVE  FALSE
    BY DEF OneChildOnTheWay
  <2>2. \A r \in {p, q} : proc[r].how \in Returns \cup Births /\ proc[r].a \in Aliases
    BY <2>1 DEF IInv, TypeOK, Children, Starts, Returns, Births
  <2>3. ASSUME NEW r \in {p, q}, proc[r].how \in Births
        PROVE  FALSE
    <3>1. proc[r].st \in {"running", "joining"}
      BY <2>1, <2>3 DEF Coming, IInv, Named
    <3>2. QED
      BY <2>1, <2>3, <3>1 DEF IInv, Newborn
  <2>4. Carries(p, proc[p].a) /\ Carries(q, proc[p].a)
    BY <2>1, <2>2, <2>3 DEF Carries
  <2>5. QED
    BY <2>1, <2>2, <2>4 DEF IInv, Guarded
<1>2. QED
  BY <1>1, Inductive, PTL

\* A session recorded as fork-born comes into a formation as a template, unless
\* it answered the placeholder of a fresh launch or two of its joins overlapped.
THEOREM ForksStayForks == Spec => ForkIsNotTakenIn
<1>1. IInv /\ [Next]_vars => [\A a \in Aliases :
         file[a].mode = "none" /\ file'[a].sid \in ledger \ blurred
            => file'[a].mode = "template"]_vars
  <2>1. SUFFICES ASSUME IInv, Next, NEW a \in Aliases, file[a].mode = "none",
                        file'[a].sid \in ledger, file'[a].sid \notin blurred
                 PROVE  file'[a].mode = "template"
    OBVIOUS
  <2>2. TypeOK /\ FileGood(a) /\ SeatGood(a) /\ NoSid \notin ledger
    BY <2>1, Unrecorded DEF IInv, Marked, FileGood, SeatGood
  <2>3. Save
    BY <2>1, <2>2, OnlySaves DEF FileGood
  <2>4. CASE file'[a].sid = seat[a].sid /\ seat[a].origin \in {"fresh", "joined"}
    BY <2>1, <2>2, <2>4 DEF SeatGood
  <2>5. QED
    BY <2>1, <2>2, <2>3, <2>4, SavedGood
<1>2. QED
  BY <1>1, Inductive, PTL DEF Spec, ForkIsNotTakenIn

\* A launcher that leaves an undo on its own account is at the undo or at the
\* placeholder, and no other step moves it.
LEMMA UndoSteps ==
  ASSUME TypeOK, Next, left' = left, NEW l \in Launchers,
         launch[l].pc \in {"undo", "unreserve"}, launch'[l].pc # launch[l].pc
  PROVE  Undo(l) \/ Unreserve(l)
<1>1. ASSUME NEW k \in Launchers, Command(k) \/ Acts(k)
      PROVE  k = l
  BY <1>1, CommandMoves, ActMoves DEF Keeps
<1>2. ~(World \/ \E p \in Procs : Boot(p) \/ JoinLooks(p) \/ Join(p) \/ Clear(p) \/ Arm(p) \/ Exit(p))
  BY RestMoves DEF Keeps
<1>3. ~Killed(l)
  BY UseTyped DEF Killed, Kinds
<1>4. ~Command(l)
  <2>1. Command(l) => launch[l] = Idle
    BY Zenon DEF Command, Apply, ResumeAnchor, StartChild
  <2>2. Idle.pc = "idle"
    BY DEF Idle
  <2>3. QED
    BY <2>1, <2>2
<1>5. ~Claim(l) /\ ~RecordCoordinator(l) /\ ~Fork(l) /\ \A a \in Aliases : ~ReserveAlias(l, a)
  BY DEF Claim, Link, Claiming, Taken, Peek, Swap, RecordCoordinator, Fork, ReserveAlias, Next1, At
<1>6. QED
  BY <1>1, <1>2, <1>3, <1>4, <1>5, Groups DEF Acts, Launch

\* A launch that failed takes neither the registration nor, when the child was no
\* resume, the bound record of a child that answered all the same.
THEOREM FailuresTakeNothing == Spec => FailureTakesNothing
<1>1. IInv /\ [Next]_vars => [\A l \in Launchers : LET a == launch[l].a IN
         launch[l].pc \in {"undo", "unreserve"} /\ launch'[l].pc # launch[l].pc /\ left' = left
            => /\ seat[a].sid \in Sessions => seat'[a] = seat[a]
               /\ Reserves(Mine(l).how) /\ CoordinatorOf(a) # Nobody => coord'[a] = coord[a]]_vars
  <2>1. SUFFICES ASSUME IInv, Next, NEW l \in Launchers, launch[l].pc \in {"undo", "unreserve"},
                        launch'[l].pc # launch[l].pc, left' = left,
                        NEW a, a = launch[l].a
                 PROVE  /\ seat[a].sid \in Sessions => seat'[a] = seat[a]
                        /\ Reserves(Mine(l).how) /\ CoordinatorOf(a) # Nobody => coord'[a] = coord[a]
    OBVIOUS
  <2>2. Undo(l) \/ Unreserve(l)
    BY <2>1, UndoSteps DEF IInv
  <2>3. CASE Unreserve(l)
    <3>1. Reserved \notin Sessions
      BY Blanks
    <3>2. UNCHANGED coord /\ (seat[a].sid # Reserved => seat' = seat)
      BY <2>1, <2>3 DEF Unreserve
    <3>3. QED
      BY <3>1, <3>2
  <2>4. CASE Undo(l)
    <3>1. /\ launch[l].pc = "undo" /\ UNCHANGED seat
          /\ ~SameBytes(coord[a], launch[l].wrote) => coord' = coord
      BY <2>1, <2>4 DEF Undo, At
    <3>2. ASSUME Reserves(Mine(l).how), CoordinatorOf(a) # Nobody
          PROVE  ~SameBytes(coord[a], launch[l].wrote)
      <4>1. launch[l].wrote.sid = NoSid
        BY <2>1, <3>1, <3>2 DEF IInv, OpenRecord
      <4>2. coord[a].sid # NoSid
        BY <3>2 DEF CoordinatorOf
      <4>3. QED
        BY <4>1, <4>2 DEF SameBytes
    <3>3. QED
      BY <3>1, <3>2
  <2>5. QED
    BY <2>2, <2>3, <2>4
<1>2. QED
  BY <1>1, Inductive, PTL DEF Spec, FailureTakesNothing
=============================================================================
