--------------------------- MODULE RecordsProofs ---------------------------
(***************************************************************************)
(* Proofs about Records.  The five kinds of records hardly touch each      *)
(* other: every action is shown once to leave alone the kinds it is not    *)
(* about (lemmas named Frames), and each kind has an invariant of its own  *)
(* that only its few actions can disturb.                                  *)
(***************************************************************************)
EXTENDS Records, TLAPS, FiniteSetTheorems

(* ------------------------------------------------------------ invariant -- *)

\* A permit that was written.
Written == [by : Aliases, what : Grantable, st : {"live", "expired"}, revoked : BOOLEAN]
PermitFine(r) == IF r.st = "none" THEN r = NoPermit ELSE r \in Written

\* TypeOK and more, one part for each kind of record.
SeatsTyped ==
    /\ seat \in [Aliases -> [sid : Sessions \cup {Nobody}, st : {"free", "unarmed", "armed", "dead"}]]
    /\ coord \in [Aliases -> [by : Aliases \cup {Nobody}, sid : Sessions \cup {Nobody}]]
    /\ run \in [Aliases -> 0 .. MaxIds] /\ runs \in 0 .. MaxIds
    /\ ledger \subseteq Events
    /\ \A a \in Aliases : Present(a) => seat[a].sid \in Sessions
GrantsTyped  == grant \in [Ids -> Grants]
PermitsTyped == permit = [p \in Ids |-> permit[p]] /\ \A p \in Ids : PermitFine(permit[p])
DenialsTyped == denial \in [Aliases -> [sid : Sessions \cup {Nobody}, st : {"none", "fresh"}]]
MarksTyped ==
    /\ rows \in [Sessions -> 0 .. MaxRows]
    /\ mark \in [Aliases -> [sid : Sessions \cup {Nobody}, off : 0 .. MaxRows]]
CallsTyped == call = [c \in Calls |-> call[c]] /\ \A c \in Calls : CallFine(call[c])
GhostTyped == ghost \in Ghosts
Typed ==
    /\ SeatsTyped /\ GrantsTyped /\ PermitsTyped /\ DenialsTyped /\ MarksTyped
    /\ CallsTyped /\ GhostTyped

LeftTyped == left \in [Names -> Nat]

\* A grant that is being used or was used is of the session that uses it.
GrantFits(g, s) == grant[g].sid = s /\ grant[g].st \notin {"none", "suspect"}
GrantsFit ==
    /\ ~ghost.twice
    /\ \A c \in Calls : call[c].pc = "take" => GrantFits(call[c].g, call[c].s)
    /\ \A t \in ghost.taken : GrantFits(t.g, t.s)

\* A permit that is being used or was used covers the use.
PermitFits(p, by, u) ==
    /\ permit[p].st # "none" /\ permit[p].by = by
    /\ LET w == permit[p].what IN
       /\ u.action \in w.actions
       /\ NormalizeRepo[w.remote] = NormalizeRepo[u.remote]
       /\ IF w.target # "" THEN w.target = u.target ELSE u.branch \in w.ref.covers
PermitsFit ==
    /\ \A c \in Calls : call[c].pc = "count" => PermitFits(call[c].p, call[c].by, call[c].u)
    /\ \A x \in ghost.asked : PermitFits(x.p, x.by, x.u)

\* A report has told what it is past.
ReportsTold ==
    \A c \in Calls : call[c].pc \in {"report", "mark"} =>
        \A i \in 1 .. call[c].next : <<call[c].s, i>> \in ghost.reported

\* A join has its alias to itself, and its run claimed when it records it.
LocksHold ==
    /\ \A c, d \in Calls :
          /\ call[c].pc \in Joining
          /\ call[d].pc \in Joining
          /\ call[c].a = call[d].a
          => c = d
    /\ \A c \in Calls : call[c].pc \in Joining =>
          /\ seat[call[c].a].sid = call[c].s /\ Present(call[c].a)
          /\ run[call[c].a] = IF call[c].pc = "record" THEN call[c].run ELSE 0

\* Who is present has joined in the ledger, or is joining, or the event is lost.
Accounted(a) ==
    \/ JoinEvent(seat[a].sid, run[a]) \in ledger \cup ghost.lost
    \/ Locked(a)
PresentAccounted == \A a \in Aliases : Present(a) => Accounted(a)

\* A look under the mint lock has seen the run of every live peer, or will: in
\* a peer that is still to be looked at.
Seen(c, id) ==
    \/ id \in call[c].ids
    \/ \E d \in call[c].todo \cup {call[c].at} : d \in Aliases /\ Live(d) /\ run[d] = id
LookSees ==
    ~ghost.apart /\ ~ghost.stirred =>
        \A c \in Calls : call[c].pc = "minting" /\ call[c].listed =>
            \A b \in Aliases \ {call[c].a} : (Live(b) /\ run[b] # 0) => Seen(c, run[b])

\* One call at a time has the mint lock, and what it will claim is the run of
\* all the others.
Minting(c) == call[c].pc = "minting" \/ (call[c].pc = "commit" /\ call[c].own)
OneMint == \A c, d \in Calls : Minting(c) /\ Minting(d) => c = d
Together ==
    ~ghost.apart =>
        /\ \A a, b \in Aliases :
              (Live(a) /\ Live(b) /\ run[a] # 0 /\ run[b] # 0) => run[a] = run[b]
        /\ \A c \in Calls : (call[c].pc = "commit" /\ call[c].own) =>
              \A b \in Aliases \ {call[c].a} : (Live(b) /\ run[b] # 0) => run[b] = call[c].run

IInv ==
    /\ Typed
    /\ GrantsFit
    /\ PermitsFit
    /\ DenialWasTold
    /\ FallbackWasTold /\ ReportsTold
    /\ LocksHold /\ PresentAccounted /\ LeaveNamesItsRun
    /\ OneMint /\ Together /\ LookSees
    /\ LeftTyped

-----------------------------------------------------------------------------
(* What a step leaves alone. *)

NoNewCall(P) == \A c \in Calls : call'[c].pc \in P => call'[c] = call[c]
SameCalls(P) == \A c \in Calls : call[c].pc \in P => call'[c] = call[c]

GrantsAlone  == grant' = grant /\ ghost'.taken = ghost.taken /\ ghost'.twice = ghost.twice
                /\ NoNewCall({"take"})
PermitsAlone == permit' = permit /\ ghost'.asked = ghost.asked /\ NoNewCall({"count"})
DenialsAlone == denial' = denial /\ ghost'.told = ghost.told /\ ghost'.cut = ghost.cut
                /\ SameCalls({"tell", "release"})
MarksAlone   == mark' = mark /\ ghost'.reported = ghost.reported
                /\ NoNewCall({"report", "mark"})
RunsAlone    == UNCHANGED <<seat, run, ledger>> /\ ghost'.apart = ghost.apart
                /\ ghost'.lost = ghost.lost /\ ghost'.stirred = ghost.stirred
                /\ NoNewCall(Joining) /\ SameCalls(Joining)

USE RecordsAssumption DEF Ids, Looks

-----------------------------------------------------------------------------
(* Types. *)

LEMMA PermitsAre == PermitsTyped => permit \in [Ids -> Permits]
<1> SUFFICES ASSUME PermitsTyped PROVE permit \in [Ids -> Permits]
  OBVIOUS
<1>1. ASSUME NEW p \in Ids  PROVE permit[p] \in Permits
  <2>1. PermitFine(permit[p])  BY DEF PermitsTyped
  <2> QED  BY <2>1 DEF PermitFine, Permits, Written
<1> QED  BY <1>1 DEF PermitsTyped

LEMMA TypedTypes == Typed /\ LeftTyped => TypeOK
<1> SUFFICES ASSUME Typed, LeftTyped PROVE TypeOK
  OBVIOUS
<1>1. permit \in [Ids -> Permits]  BY PermitsAre DEF Typed
<1>2. DOMAIN call = Calls /\ \A c \in Calls : CallFine(call[c])  BY DEF Typed, CallsTyped
<1> QED
  BY <1>1, <1>2 DEF Typed, SeatsTyped, GrantsTyped, DenialsTyped, MarksTyped, GhostTyped, LeftTyped, TypeOK

\* A call that moves on leaves the others where they are.
LEMMA Moves ==
    ASSUME CallsTyped, NEW c \in Calls, NEW f, Becomes(c, f)
    PROVE  call'[c] = f /\ \A d \in Calls \ {c} : call'[d] = call[d]
BY DEF CallsTyped, Becomes

LEMMA MovesTyped ==
    ASSUME CallsTyped, NEW c \in Calls, NEW f, CallFine(f), Becomes(c, f)
    PROVE  CallsTyped'
<1>1. call' = [d \in Calls |-> call'[d]]  BY DEF CallsTyped, Becomes
<1>2. \A d \in Calls : CallFine(call'[d])  BY Moves DEF CallsTyped
<1> QED  BY <1>1, <1>2 DEF CallsTyped

LEMMA IdleFine == CallFine(Idle)
BY DEF CallFine, Idle, Pcs, Seating, Joining

\* A command writes some of its events, and nothing else.
LEMMA LogsAdd ==
    ASSUME NEW k, NEW E, Logs(k, E)
    PROVE  ledger \subseteq ledger' /\ ledger' \subseteq ledger \cup E
BY DEF Logs

\* A stir is noted, and no more.
LEMMA StirsNotes ==
    ASSUME GhostTyped, ghost' = Stirs
    PROVE  /\ GhostTyped'
           /\ ghost'.taken = ghost.taken /\ ghost'.twice = ghost.twice /\ ghost'.asked = ghost.asked
           /\ ghost'.told = ghost.told /\ ghost'.cut = ghost.cut /\ ghost'.reported = ghost.reported
           /\ ghost'.lost = ghost.lost /\ ghost'.apart = ghost.apart
           /\ (\E c \in Calls : call[c].pc = "minting") => ghost'.stirred
<1>1. CASE ghost' = ghost  BY <1>1 DEF GhostTyped, Stirs, Ghosts
<1>2. CASE ghost' = [ghost EXCEPT !.stirred = TRUE]  BY <1>2 DEF GhostTyped, Ghosts
<1> QED  BY <1>1, <1>2 DEF Stirs

LEMMA JoinBeginsTyped ==
    ASSUME Typed, NEW c \in Calls, JoinBegins(c)
    PROVE  Typed'
<1> USE DEF Typed
<1> DEFINE Dead == {b \in Aliases : seat[b].st = "dead" /\ ~Locked(b)}
<1>1. SeatsTyped'
  <2>1. ledger' \subseteq Events
    <3>1. \A b \in Dead : LeaveEvent(b) \in Events
      BY DEF SeatsTyped, LeaveEvent, Events, Present
    <3>2. ledger' \subseteq ledger \cup {LeaveEvent(b) : b \in Dead}  BY LogsAdd DEF JoinBegins
    <3> QED  BY <3>1, <3>2 DEF SeatsTyped
  <2>2. \A a \in Aliases : (Present(a) => seat[a].sid \in Sessions)'
    BY DEF JoinBegins, SeatsTyped, NoSeat, Present
  <2> QED  BY <2>1, <2>2 DEF JoinBegins, SeatsTyped, NoSeat, Present
<1>2. CallsTyped'
  <2>1. PICK s \in Sessions, a \in Aliases :
            Becomes(c, [pc |-> "claim", s |-> s, a |-> a, was |-> \E b \in Aliases : Live(b)])
    BY DEF JoinBegins
  <2>2. CallFine([pc |-> "claim", s |-> s, a |-> a, was |-> \E b \in Aliases : Live(b)])
    BY DEF CallFine, Seating, Joining, Pcs
  <2> QED  BY <2>1, <2>2, MovesTyped
<1>3. (GrantsTyped /\ PermitsTyped /\ DenialsTyped /\ MarksTyped /\ GhostTyped)'
  BY DEF JoinBegins, OnlySeats, GrantsTyped, PermitsTyped, DenialsTyped, MarksTyped, GhostTyped
<1> QED  BY <1>1, <1>2, <1>3

\* A call that looks at its peers.
LEMMA LookingTyped ==
    ASSUME CallsTyped, NEW c \in Calls, call[c].pc \in Seating, NEW for \in Looks,
           NEW listed \in BOOLEAN, NEW todo \in SUBSET (Aliases \ {call[c].a}),
           NEW at \in (Aliases \ {call[c].a}) \cup {Nobody}, NEW ids \in SUBSET Ids,
           ~listed => todo = {} /\ at = Nobody /\ ids = {},
           for = "resolve" => call[c].pc \in {"claim", "resolve"},
           Looking(c, for, listed, todo, at, ids)
    PROVE  CallsTyped'
<1> DEFINE a == call[c].a
           s == call[c].s
           was == for = "resolve" /\ call[c].was
<1>1. a \in Aliases /\ s \in Sessions  BY DEF CallsTyped, CallFine
<1>2. was \in BOOLEAN
  <2>1. call[c].pc \in {"claim", "resolve"} => call[c].was \in BOOLEAN
    BY DEF CallsTyped, CallFine
  <2> QED  BY <2>1
<1> DEFINE f == [pc |-> for, s |-> s, a |-> a, was |-> was, listed |-> listed, todo |-> todo,
                 at |-> at, ids |-> ids]
<1>3. Becomes(c, f)  BY DEF Looking
<1>4. CallFine(f)
  <2> HIDE DEF was
  <2>1. f.pc = for /\ f.s = s /\ f.a = a /\ f.was = was /\ f.listed = listed /\ f.todo = todo
        /\ f.at = at /\ f.ids = ids
    OBVIOUS
  <2> HIDE DEF f
  <2> QED  BY <1>1, <1>2, <2>1 DEF CallFine, Seating, Joining, Pcs
<1> HIDE DEF f
<1> QED  BY <1>3, <1>4, MovesTyped

LEMMA JoinClaimsTyped ==
    ASSUME Typed, NEW c \in Calls, JoinClaims(c)
    PROVE  Typed'
<1> USE DEF Typed
<1> DEFINE a == call[c].a
           s == call[c].s
<1>1. a \in Aliases /\ s \in Sessions /\ call[c].pc = "claim"
  BY DEF JoinClaims, CallsTyped, CallFine, Seating
<1>2. SeatsTyped'
  <2>1. CASE seat[a].st = "armed"
    BY <2>1 DEF JoinClaims, OnlySeats, SeatsTyped, Present
  <2>2. CASE seat[a].st # "armed"
    <3>1. Settled(a, s) \in [by : Aliases \cup {Nobody}, sid : Sessions \cup {Nobody}]
      BY <1>1 DEF Settled, SeatsTyped, NoCoord
    <3>2. coord' = [coord EXCEPT ![a] = Settled(a, s)]  BY <2>2 DEF JoinClaims
    <3>3. coord' \in [Aliases -> [by : Aliases \cup {Nobody}, sid : Sessions \cup {Nobody}]]
      BY <3>1, <3>2 DEF SeatsTyped
    <3>4. seat' = [seat EXCEPT ![a] = [sid |-> s, st |-> "unarmed"]]
          /\ run' = [run EXCEPT ![a] = 0] /\ UNCHANGED <<runs, ledger>>
      BY <2>2 DEF JoinClaims
    <3> HIDE DEF a, s
    <3>5. run' \in [Aliases -> 0 .. MaxIds]  BY <1>1, <3>4 DEF SeatsTyped
    <3>6. \A b \in Aliases : (Present(b) => seat[b].sid \in Sessions)'
      BY <1>1, <3>4 DEF SeatsTyped, Present
    <3> QED  BY <1>1, <3>3, <3>4, <3>5, <3>6 DEF SeatsTyped
  <2> QED  BY <2>1, <2>2
<1>3. CallsTyped'
  <2>1. Becomes(c, Idle) \/ Looking(c, "resolve", FALSE, {}, Nobody, {})  BY DEF JoinClaims, Returns
  <2>2. CASE Becomes(c, Idle)  BY <2>2, IdleFine, MovesTyped
  <2>3. CASE Looking(c, "resolve", FALSE, {}, Nobody, {})  BY <1>1, <2>3, LookingTyped DEF Seating
  <2> QED  BY <2>1, <2>2, <2>3
<1>4. GhostTyped'
  <2>1. ghost' = Stirs \/ ghost' = ghost  BY DEF JoinClaims
  <2> QED  BY <2>1, StirsNotes DEF GhostTyped
<1>5. (GrantsTyped /\ PermitsTyped /\ DenialsTyped /\ MarksTyped)'
  BY DEF JoinClaims, OnlySeats, GrantsTyped, PermitsTyped, DenialsTyped, MarksTyped
<1> QED  BY <1>2, <1>3, <1>4, <1>5

LEMMA RecordingFine ==
    ASSUME NEW s \in Sessions, NEW a \in Aliases, NEW id \in 0 .. MaxIds
    PROVE  CallFine([pc |-> "record", s |-> s, a |-> a, run |-> id])
BY DEF CallFine, Seating, Joining, Pcs

LEMMA CommittingFine ==
    ASSUME NEW s \in Sessions, NEW a \in Aliases, NEW id \in Ids, NEW own \in BOOLEAN
    PROVE  CallFine([pc |-> "commit", s |-> s, a |-> a, run |-> id, own |-> own])
BY DEF CallFine, Seating, Joining, Pcs

LEMMA LiveRunsAreIds == ASSUME SeatsTyped, NEW a PROVE LiveRuns(a) \subseteq Ids
BY DEF SeatsTyped, LiveRuns

\* A step that neither touches the records nor moves anything but a call.
LEMMA OnlyRunsTyped ==
    ASSUME Typed, OnlyRuns, CallsTyped', GhostTyped', runs' \in 0 .. MaxIds,
           run' \in [Aliases -> 0 .. MaxIds], ledger' \subseteq Events
    PROVE  Typed'
<1>1. SeatsTyped'  BY DEF Typed, OnlyRuns, SeatsTyped, Present
<1>2. (GrantsTyped /\ PermitsTyped /\ DenialsTyped /\ MarksTyped)'
  BY DEF Typed, OnlyRuns, GrantsTyped, PermitsTyped, DenialsTyped, MarksTyped
<1> QED  BY <1>1, <1>2 DEF Typed

LEMMA JoiningFine ==
    ASSUME CallsTyped, NEW c \in Calls, call[c].pc \in Joining
    PROVE  call[c].a \in Aliases /\ call[c].s \in Sessions
BY DEF CallsTyped, CallFine, Seating

LEMMA MintingFine ==
    ASSUME NEW s \in Sessions, NEW a \in Aliases
    PROVE  CallFine([pc |-> "mint", s |-> s, a |-> a])
BY DEF CallFine, Seating, Joining, Pcs

\* What a call that looks knows.
LEMMA LooksFine ==
    ASSUME CallsTyped, NEW c \in Calls, call[c].pc \in Looks
    PROVE  /\ call[c].pc \in Seating /\ call[c].a \in Aliases /\ call[c].s \in Sessions
           /\ call[c].todo \in SUBSET (Aliases \ {call[c].a})
           /\ call[c].at \in (Aliases \ {call[c].a}) \cup {Nobody} /\ call[c].ids \in SUBSET Ids
BY DEF CallsTyped, CallFine, Seating, Joining

LEMMA ListsTyped ==
    ASSUME Typed, NEW c \in Calls, Lists(c)
    PROVE  Typed'
<1>1. CallsTyped'
  <2>1. call[c].pc \in Looks
        /\ Looking(c, call[c].pc, TRUE, {b \in Aliases \ {call[c].a} : Present(b)}, Nobody, {})
    BY DEF Lists
  <2> QED  BY <2>1, LooksFine, LookingTyped DEF Typed
<1>2. GhostTyped'
  <2>1. ghost' = ghost \/ ghost' = [ghost EXCEPT !.stirred = FALSE]  BY DEF Lists
  <2> QED  BY <2>1 DEF Typed, GhostTyped, Ghosts
<1> QED  BY <1>1, <1>2, OnlyRunsTyped DEF Lists, Typed, SeatsTyped

LEMMA LooksAtTyped ==
    ASSUME Typed, NEW c \in Calls, LooksAt(c)
    PROVE  Typed'
<1>1. call[c].pc \in Looks  BY DEF LooksAt
<1>2. PICK b \in call[c].todo :
          Looking(c, call[c].pc, TRUE, call[c].todo \ {b},
                  IF seat[b].st = "dead" THEN Nobody ELSE b, call[c].ids)
  BY DEF LooksAt
<1>3. CallsTyped'
  <2> DEFINE todo == call[c].todo \ {b}
             at == IF seat[b].st = "dead" THEN Nobody ELSE b
  <2>1. todo \in SUBSET (Aliases \ {call[c].a}) /\ at \in (Aliases \ {call[c].a}) \cup {Nobody}
        /\ call[c].ids \in SUBSET Ids /\ call[c].pc \in Seating
    BY <1>1, LooksFine DEF Typed
  <2>2. Looking(c, call[c].pc, TRUE, todo, at, call[c].ids)  BY <1>2
  <2>3. call[c].pc = "resolve" => call[c].pc \in {"claim", "resolve"}  OBVIOUS
  <2> HIDE DEF todo, at
  <2> QED  BY <1>1, <2>1, <2>2, <2>3, LookingTyped DEF Typed
<1> QED  BY <1>3, OnlyRunsTyped DEF LooksAt, Typed, SeatsTyped, GhostTyped

LEMMA ReadsClaimTyped ==
    ASSUME Typed, NEW c \in Calls, ReadsClaim(c)
    PROVE  Typed'
<1> DEFINE ids == call[c].ids \cup ({run[call[c].at]} \ {0})
<1>1. call[c].pc \in Looks /\ call[c].at # Nobody
      /\ Looking(c, call[c].pc, TRUE, call[c].todo, Nobody, ids)
  BY DEF ReadsClaim
<1>2. CallsTyped'
  <2>1. call[c].at \in Aliases /\ call[c].todo \in SUBSET (Aliases \ {call[c].a})
        /\ call[c].ids \in SUBSET Ids /\ call[c].pc \in Seating
    BY <1>1, LooksFine DEF Typed
  <2>2. ids \in SUBSET Ids  BY <2>1 DEF Typed, SeatsTyped
  <2> HIDE DEF ids
  <2> QED  BY <1>1, <2>1, <2>2, LookingTyped DEF Typed
<1> QED  BY <1>2, OnlyRunsTyped DEF ReadsClaim, Typed, SeatsTyped, GhostTyped

LEMMA ResolveTyped ==
    ASSUME Typed, NEW c \in Calls, Resolve(c)
    PROVE  Typed'
<1>1. call[c].pc = "resolve"  BY DEF Resolve, Looked
<1>2. call[c].a \in Aliases /\ call[c].s \in Sessions /\ call[c].pc \in Seating
  BY <1>1, LooksFine DEF Typed
<1>3. CallsTyped'
  <2>1. CASE Recording(c, 0)
    BY <1>2, <2>1, RecordingFine, MovesTyped DEF Recording, Typed
  <2>2. CASE Looking(c, "adopt", FALSE, {}, Nobody, {})
    BY <1>2, <2>2, LookingTyped DEF Typed
  <2>3. CASE Becomes(c, [pc |-> "mint", s |-> call[c].s, a |-> call[c].a])
    BY <1>2, <2>3, MintingFine, MovesTyped DEF Typed
  <2> QED  BY <2>1, <2>2, <2>3 DEF Resolve
<1> QED  BY <1>3, OnlyRunsTyped DEF Resolve, Typed, SeatsTyped, GhostTyped

LEMMA AdoptTyped ==
    ASSUME Typed, NEW c \in Calls, Adopt(c)
    PROVE  Typed'
<1>1. call[c].pc = "adopt"  BY DEF Adopt, Looked
<1>2. call[c].a \in Aliases /\ call[c].s \in Sessions /\ call[c].ids \in SUBSET Ids
  BY <1>1, LooksFine DEF Typed
<1>3. CallsTyped'
  <2>1. CASE \E id \in call[c].ids : Committing(c, id, FALSE)
    <3>1. PICK id \in Ids : Committing(c, id, FALSE)  BY <1>2, <2>1
    <3> QED  BY <1>2, <3>1, CommittingFine, MovesTyped DEF Committing, Typed
  <2>2. CASE Becomes(c, [pc |-> "mint", s |-> call[c].s, a |-> call[c].a])
    BY <1>2, <2>2, MintingFine, MovesTyped DEF Typed
  <2> QED  BY <2>1, <2>2 DEF Adopt
<1> QED  BY <1>3, OnlyRunsTyped DEF Adopt, Typed, SeatsTyped, GhostTyped

LEMMA AcquireMintLockTyped ==
    ASSUME Typed, NEW c \in Calls, AcquireMintLock(c)
    PROVE  Typed'
<1>1. call[c].pc \in Seating /\ call[c].a \in Aliases /\ call[c].s \in Sessions
  BY JoiningFine DEF AcquireMintLock, Joining, Seating, Typed
<1>2. CallsTyped'
  <2>1. CASE Recording(c, 0)
    BY <1>1, <2>1, RecordingFine, MovesTyped DEF Recording, Typed
  <2>2. CASE Looking(c, "minting", FALSE, {}, Nobody, {})
    BY <1>1, <2>2, LookingTyped DEF Typed
  <2> QED  BY <2>1, <2>2 DEF AcquireMintLock
<1> QED  BY <1>2, OnlyRunsTyped DEF AcquireMintLock, Typed, SeatsTyped, GhostTyped

LEMMA MintTyped ==
    ASSUME Typed, NEW c \in Calls, Mint(c)
    PROVE  Typed'
<1>1. call[c].pc = "minting"  BY DEF Mint, Looked
<1>2. call[c].a \in Aliases /\ call[c].s \in Sessions /\ call[c].ids \in SUBSET Ids
  BY <1>1, LooksFine DEF Typed
<1>3. runs' \in 0 .. MaxIds
  <2>1. runs' = runs \/ (runs < MaxIds /\ runs' = runs + 1)  BY DEF Mint
  <2> QED  BY <2>1 DEF Typed, SeatsTyped
<1>4. CallsTyped'
  <2>1. CASE Recording(c, 0)
    BY <1>2, <2>1, RecordingFine, MovesTyped DEF Recording, Typed
  <2>2. CASE \E id \in Ids : Committing(c, id, TRUE)
    <3>1. PICK id \in Ids : Committing(c, id, TRUE)  BY <2>2
    <3> QED  BY <1>2, <3>1, CommittingFine, MovesTyped DEF Committing, Typed
  <2>3. Recording(c, 0) \/ \E id \in Ids : Committing(c, id, TRUE)
    <3>1. runs < MaxIds => runs + 1 \in Ids  BY DEF Typed, SeatsTyped
    <3> QED  BY <1>2, <3>1 DEF Mint
  <2> QED  BY <2>1, <2>2, <2>3
<1>5. GhostTyped'
  <2> DEFINE apart == ghost.apart \/ (ghost.stirred /\ ~(LiveRuns(call[c].a) \subseteq call[c].ids))
  <2>1. ghost' = [ghost EXCEPT !.apart = apart]  BY DEF Mint
  <2>2. apart \in BOOLEAN  BY DEF Typed, GhostTyped, Ghosts
  <2> HIDE DEF apart
  <2> QED  BY <2>1, <2>2 DEF Typed, GhostTyped, Ghosts
<1> QED  BY <1>3, <1>4, <1>5, OnlyRunsTyped DEF Mint, Typed, SeatsTyped

LEMMA CommitTyped ==
    ASSUME Typed, NEW c \in Calls, Commit(c)
    PROVE  Typed'
<1> DEFINE a == call[c].a
           s == call[c].s
           id == call[c].run
<1>1. a \in Aliases /\ s \in Sessions /\ id \in Ids /\ call[c].own \in BOOLEAN
  BY DEF Commit, Joining, Typed, CallsTyped, CallFine, Seating
<1>2. CallsTyped'
  <2>1. Recording(c, id) \/ Recording(c, 0)  BY DEF Commit
  <2>2. id \in 0 .. MaxIds /\ 0 \in 0 .. MaxIds  BY <1>1
  <2> QED  BY <1>1, <2>1, <2>2, RecordingFine, MovesTyped DEF Recording, Typed
<1>3. GhostTyped'
  <2>1. ghost' = ghost \/ ghost' = [ghost EXCEPT !.apart = ghost.apart \/ (~call[c].own /\ id \notin LiveRuns(a))]
    BY DEF Commit
  <2> QED  BY <2>1 DEF Typed, GhostTyped, Ghosts
<1>4. run' \in [Aliases -> 0 .. MaxIds]
  <2>1. run' = run \/ run' = [run EXCEPT ![a] = id]  BY DEF Commit
  <2> QED  BY <1>1, <2>1 DEF Typed, SeatsTyped
<1> QED  BY <1>2, <1>3, <1>4, OnlyRunsTyped DEF Commit, Typed, SeatsTyped

LEMMA JoinEventFine ==
    ASSUME NEW s \in Sessions, NEW id \in 0 .. MaxIds
    PROVE  JoinEvent(s, id) \in Events
BY DEF JoinEvent, Events

\* An event is lost, and no more.
LEMMA EventLost ==
    ASSUME GhostTyped, NEW e \in Events, ghost' = [ghost EXCEPT !.lost = @ \cup {e}]
    PROVE  /\ GhostTyped'
           /\ ghost'.taken = ghost.taken /\ ghost'.twice = ghost.twice /\ ghost'.asked = ghost.asked
           /\ ghost'.told = ghost.told /\ ghost'.cut = ghost.cut /\ ghost'.reported = ghost.reported
           /\ ghost'.lost = ghost.lost \cup {e} /\ ghost'.apart = ghost.apart
           /\ ghost'.stirred = ghost.stirred
BY DEF GhostTyped, Ghosts

\* A denial's entry is left behind, and no more.
LEMMA EntryCut ==
    ASSUME GhostTyped, NEW a \in Aliases, ghost' = [ghost EXCEPT !.cut = @ \cup {a}]
    PROVE  /\ GhostTyped'
           /\ ghost'.taken = ghost.taken /\ ghost'.twice = ghost.twice /\ ghost'.asked = ghost.asked
           /\ ghost'.told = ghost.told /\ ghost'.cut = ghost.cut \cup {a}
           /\ ghost'.reported = ghost.reported /\ ghost'.lost = ghost.lost
           /\ ghost'.apart = ghost.apart /\ ghost'.stirred = ghost.stirred
BY DEF GhostTyped, Ghosts

LEMMA RecordJoinTyped ==
    ASSUME Typed, NEW c \in Calls, RecordJoin(c)
    PROVE  Typed'
<1>1. call[c].a \in Aliases /\ call[c].s \in Sessions /\ call[c].run \in 0 .. MaxIds
  BY DEF RecordJoin, Joining, Typed, CallsTyped, CallFine, Seating
<1> DEFINE e == JoinEvent(call[c].s, call[c].run)
<1>2. e \in Events  BY <1>1, JoinEventFine
<1>3. CallsTyped'  BY IdleFine, MovesTyped DEF RecordJoin, Returns, Typed
<1>4. \/ ledger' = ledger \cup {e} /\ ghost' = ghost
      \/ ledger' = ledger /\ ghost' = [ghost EXCEPT !.lost = @ \cup {e}]
  BY DEF RecordJoin
<1> HIDE DEF e
<1>5. ledger' \subseteq Events  BY <1>2, <1>4 DEF Typed, SeatsTyped
<1>6. GhostTyped'  BY <1>2, <1>4, EventLost DEF Typed, GhostTyped
<1> QED  BY <1>3, <1>5, <1>6, OnlyRunsTyped DEF RecordJoin, Typed, SeatsTyped

\* What is left of a process that ends where it is.
LEMMA KilledLeaves ==
    ASSUME Typed, NEW c \in Calls, Killed(c)
    PROVE  \/ /\ call[c].pc \in {"tell", "release"} /\ call[c].a \in Aliases
              /\ ghost' = [ghost EXCEPT !.cut = @ \cup {call[c].a}]
           \/ /\ call[c].pc \in Joining
              /\ JoinEvent(call[c].s, run[call[c].a]) \in Events
              /\ ghost' = [ghost EXCEPT !.lost = @ \cup {JoinEvent(call[c].s, run[call[c].a])}]
           \/ call[c].pc \notin {"tell", "release"} \cup Joining /\ ghost' = ghost
<1>1. CASE call[c].pc \in {"tell", "release"}
  <2>1. call[c].a \in Aliases  BY <1>1 DEF Typed, CallsTyped, CallFine
  <2> QED  BY <1>1, <2>1 DEF Killed, Joining
<1>2. CASE call[c].pc \in Joining
  <2>1. call[c].a \in Aliases /\ call[c].s \in Sessions  BY <1>2, JoiningFine DEF Typed
  <2>2. run[call[c].a] \in 0 .. MaxIds  BY <2>1 DEF Typed, SeatsTyped
  <2> QED  BY <1>2, <2>1, <2>2, JoinEventFine DEF Killed, Joining
<1>3. CASE call[c].pc \notin {"tell", "release"} \cup Joining
  BY <1>3 DEF Killed
<1> QED  BY <1>1, <1>2, <1>3

LEMMA KilledTyped ==
    ASSUME Typed, NEW c \in Calls, Killed(c)
    PROVE  Typed'
<1>1. CallsTyped'  BY IdleFine, MovesTyped DEF Killed, Returns, Typed
<1>2. GhostTyped'  BY KilledLeaves, EntryCut, EventLost DEF Typed, GhostTyped
<1> QED  BY <1>1, <1>2, OnlyRunsTyped DEF Killed, Typed, SeatsTyped

\* A step of the registry, of calls aside.
LEMMA OnlySeatsTyped ==
    ASSUME Typed, OnlySeats, SeatsTyped', UNCHANGED call, GhostTyped', MarksTyped'
    PROVE  Typed'
BY DEF Typed, OnlySeats, GrantsTyped, PermitsTyped, DenialsTyped, CallsTyped

LEMMA LeaveTyped ==
    ASSUME Typed, NEW a \in Aliases, Leave(a)
    PROVE  Typed'
<1>1. SeatsTyped'
  <2>1. ledger' \subseteq Events
    <3>1. LeaveEvent(a) \in Events  BY DEF Leave, Present, Typed, SeatsTyped, LeaveEvent, Events
    <3>2. ledger' \subseteq ledger \cup {LeaveEvent(a)}  BY LogsAdd DEF Leave
    <3> QED  BY <3>1, <3>2 DEF Typed, SeatsTyped
  <2> QED  BY <2>1 DEF Leave, Typed, SeatsTyped, NoSeat, Present
<1>2. GhostTyped'  BY StirsNotes DEF Leave, Typed
<1> QED  BY <1>1, <1>2, OnlySeatsTyped DEF Leave, OnlySeats, Typed, MarksTyped

LEMMA RenameTyped ==
    ASSUME Typed, NEW a \in Aliases, NEW b \in Aliases, Rename(a, b)
    PROVE  Typed'
<1> DEFINE moved == [seat[a] EXCEPT !.st = IF @ = "armed" THEN "dead" ELSE @]
<1>1. moved \in [sid : Sessions, st : {"unarmed", "dead"}]
  BY DEF Rename, Present, Typed, SeatsTyped
<1>2. seat' = [seat EXCEPT ![a] = NoSeat, ![b] = moved]  BY DEF Rename
<1> HIDE DEF moved
<1>3. SeatsTyped'
  <2>1. seat' \in [Aliases -> [sid : Sessions \cup {Nobody}, st : {"free", "unarmed", "armed", "dead"}]]
    BY <1>1, <1>2 DEF Typed, SeatsTyped, NoSeat
  <2>2. coord' \in [Aliases -> [by : Aliases \cup {Nobody}, sid : Sessions \cup {Nobody}]]
    BY DEF Rename, Typed, SeatsTyped, NoCoord
  <2>3. run' \in [Aliases -> 0 .. MaxIds]  BY DEF Rename, Typed, SeatsTyped
  <2>4. \A x \in Aliases : (Present(x) => seat[x].sid \in Sessions)'
    BY <1>1, <1>2 DEF Typed, SeatsTyped, NoSeat, Present
  <2>5. runs' = runs /\ ledger' = ledger  BY DEF Rename
  <2> QED  BY <2>1, <2>2, <2>3, <2>4, <2>5 DEF Typed, SeatsTyped
<1>4. MarksTyped'
  BY DEF Rename, OnlySeats, Typed, MarksTyped, NoMark
<1>5. GhostTyped'  BY StirsNotes DEF Rename, Typed
<1> QED  BY <1>3, <1>4, <1>5, OnlySeatsTyped DEF Rename, Typed

LEMMA DiesTyped ==
    ASSUME Typed, NEW a \in Aliases, Dies(a)
    PROVE  Typed'
<1>1. SeatsTyped'  BY DEF Dies, Live, Typed, SeatsTyped, Present
<1>2. GhostTyped'  BY StirsNotes DEF Dies, Typed
<1> QED  BY <1>1, <1>2, OnlySeatsTyped DEF Dies, OnlySeats, Typed, MarksTyped

LEMMA ArmTyped ==
    ASSUME Typed, NEW a \in Aliases, Arm(a)
    PROVE  Typed'
<1>1. SeatsTyped'  BY DEF Arm, Typed, SeatsTyped, Present
<1>2. GhostTyped'  BY DEF Arm, Typed, GhostTyped, Ghosts
<1> QED  BY <1>1, <1>2, OnlySeatsTyped DEF Arm, OnlySeats, Typed, MarksTyped

LEMMA AssignTyped ==
    ASSUME Typed, NEW a \in Aliases, NEW b \in Aliases, Assign(a, b)
    PROVE  Typed'
<1>1. SeatsTyped'
  <2>1. PICK s \in {seat[a].sid, Nobody} : coord' = [coord EXCEPT ![a] = [by |-> b, sid |-> s]]
    BY DEF Assign
  <2>2. s \in Sessions \cup {Nobody}  BY DEF Typed, SeatsTyped
  <2>3. coord' \in [Aliases -> [by : Aliases \cup {Nobody}, sid : Sessions \cup {Nobody}]]
    BY <2>1, <2>2 DEF Typed, SeatsTyped
  <2> QED  BY <2>3 DEF Assign, Typed, SeatsTyped, Present
<1> QED  BY <1>1, OnlySeatsTyped DEF Assign, OnlySeats, Typed, GhostTyped, MarksTyped

\* A marker on a grant leaves a grant.
LEMMA GrantUsed ==
    ASSUME NEW r \in Grants, NEW s \in Sessions
    PROVE  [r EXCEPT !.used = s] \in Grants
BY DEF Grants

LEMMA GrantEnds ==
    ASSUME NEW r \in Grants
    PROVE  [r EXCEPT !.revoked = TRUE] \in Grants /\ [r EXCEPT !.st = "expired"] \in Grants
BY DEF Grants

LEMMA OnlyGrantsTyped ==
    ASSUME Typed, OnlyGrants, GrantsTyped', CallsTyped', GhostTyped'
    PROVE  Typed'
BY DEF Typed, OnlyGrants, SeatsTyped, Present, PermitsTyped, DenialsTyped, MarksTyped

LEMMA GrantAsksTyped ==
    ASSUME Typed, NEW c \in Calls, GrantAsks(c)
    PROVE  Typed'
<1>1. PICK a \in Aliases, once \in BOOLEAN :
          Live(a) /\ Becomes(c, [pc |-> "confirm", a |-> a, s |-> seat[a].sid, once |-> once])
  BY DEF GrantAsks
<1>2. seat[a].sid \in Sessions  BY <1>1 DEF Live, Present, Typed, SeatsTyped
<1>3. CallFine([pc |-> "confirm", a |-> a, s |-> seat[a].sid, once |-> once])
  BY <1>2 DEF CallFine, Seating, Joining, Pcs
<1>4. CallsTyped'  BY <1>1, <1>3, MovesTyped DEF Typed
<1> QED  BY <1>4, OnlyGrantsTyped DEF GrantAsks, Typed, GrantsTyped, GhostTyped

LEMMA GrantConfirmedTyped ==
    ASSUME Typed, NEW c \in Calls, GrantConfirmed(c)
    PROVE  Typed'
<1>1. CallsTyped'  BY IdleFine, MovesTyped DEF GrantConfirmed, Returns, Typed
<1>2. GrantsTyped'
  <2>1. CASE UNCHANGED grant  BY <2>1 DEF Typed, GrantsTyped
  <2>2. CASE ~UNCHANGED grant
    <3> DEFINE r(st) == [NoGrant EXCEPT !.a = call[c].a, !.sid = call[c].s,
                                        !.once = call[c].once, !.st = st]
    <3>1. PICK g \in Ids, st \in {"suspect", "live"} : grant' = [grant EXCEPT ![g] = r(st)]
      BY <2>2 DEF GrantConfirmed, Fresh
    <3>2. call[c].a \in Aliases /\ call[c].s \in Sessions /\ call[c].once \in BOOLEAN
      BY DEF GrantConfirmed, Typed, CallsTyped, CallFine
    <3>3. r(st) \in Grants  BY <3>2 DEF Grants, NoGrant
    <3> QED  BY <3>1, <3>3 DEF Typed, GrantsTyped
  <2> QED  BY <2>1, <2>2
<1> QED  BY <1>1, <1>2, OnlyGrantsTyped DEF GrantConfirmed, Typed, GhostTyped

LEMMA UseGrantTyped ==
    ASSUME Typed, NEW c \in Calls, UseGrant(c)
    PROVE  Typed'
<1>1. PICK s \in Sessions, g \in Ids : Becomes(c, [pc |-> "take", s |-> s, g |-> g])
  BY DEF UseGrant
<1>2. CallFine([pc |-> "take", s |-> s, g |-> g])  BY DEF CallFine, Seating, Joining, Pcs
<1>3. CallsTyped'  BY <1>1, <1>2, MovesTyped DEF Typed
<1> QED  BY <1>3, OnlyGrantsTyped DEF UseGrant, Typed, GrantsTyped, GhostTyped

LEMMA TakeGrantTyped ==
    ASSUME Typed, NEW c \in Calls, TakeGrant(c)
    PROVE  Typed'
<1>1. CallsTyped'  BY IdleFine, MovesTyped DEF TakeGrant, Returns, Typed
<1>2. call[c].g \in Ids /\ call[c].s \in Sessions
  BY DEF TakeGrant, Typed, CallsTyped, CallFine
<1>3. GrantsTyped'
  <2> DEFINE q == [grant[call[c].g] EXCEPT !.used = call[c].s]
  <2>1. q \in Grants  BY <1>2, GrantUsed DEF Typed, GrantsTyped
  <2>2. grant' = grant \/ grant' = [grant EXCEPT ![call[c].g] = q]  BY DEF TakeGrant
  <2> HIDE DEF q
  <2> QED  BY <1>2, <2>1, <2>2 DEF Typed, GrantsTyped
<1>4. GhostTyped'
  <2> DEFINE twice == grant[call[c].g].once /\ grant[call[c].g].used # Nobody
  <2>1. ghost' = ghost
        \/ ghost' = [ghost EXCEPT !.taken = ghost.taken \cup {[g |-> call[c].g, s |-> call[c].s]},
                                  !.twice = ghost.twice \/ twice]
    BY DEF TakeGrant, Took
  <2>2. ghost.twice \in BOOLEAN  BY DEF Typed, GhostTyped, Ghosts
  <2>3. twice \in BOOLEAN
    <3>1. grant[call[c].g].once \in BOOLEAN  BY <1>2 DEF Typed, GrantsTyped, Grants
    <3> QED  BY <3>1
  <2> DEFINE taken == ghost.taken \cup {[g |-> call[c].g, s |-> call[c].s]}
  <2>4. taken \in SUBSET [g : Ids, s : Sessions]  BY <1>2 DEF Typed, GhostTyped, Ghosts
  <2>5. (ghost.twice \/ twice) \in BOOLEAN  BY <2>2, <2>3
  <2> DEFINE both == ghost.twice \/ twice
  <2>6. ghost' = ghost \/ ghost' = [ghost EXCEPT !.taken = taken, !.twice = both]  BY <2>1
  <2>7. ghost \in Ghosts  BY DEF Typed, GhostTyped
  <2> HIDE DEF taken, both
  <2>8. CASE ghost' = [ghost EXCEPT !.taken = taken, !.twice = both]
    <3>1. both \in BOOLEAN  BY <2>5 DEF both
    <3> QED  BY <2>4, <2>7, <2>8, <3>1 DEF Ghosts, GhostTyped
  <2> QED  BY <2>6, <2>7, <2>8 DEF GhostTyped
<1> QED  BY <1>1, <1>3, <1>4, OnlyGrantsTyped DEF TakeGrant

LEMMA RevokeGrantTyped ==
    ASSUME Typed, NEW g \in Ids, RevokeGrant(g)
    PROVE  Typed'
<1>1. GrantsTyped'
  <2> DEFINE q == [grant[g] EXCEPT !.revoked = TRUE]
  <2>1. q \in Grants  BY GrantEnds DEF Typed, GrantsTyped
  <2>2. grant' = [grant EXCEPT ![g] = q]  BY DEF RevokeGrant
  <2> HIDE DEF q
  <2> QED  BY <2>1, <2>2 DEF Typed, GrantsTyped
<1> QED  BY <1>1, OnlyGrantsTyped DEF RevokeGrant, Typed, CallsTyped, GhostTyped

LEMMA GrantExpiresTyped ==
    ASSUME Typed, NEW g \in Ids, GrantExpires(g)
    PROVE  Typed'
<1>1. GrantsTyped'
  <2> DEFINE q == [grant[g] EXCEPT !.st = "expired"]
  <2>1. q \in Grants  BY GrantEnds DEF Typed, GrantsTyped
  <2>2. grant' = [grant EXCEPT ![g] = q]  BY DEF GrantExpires
  <2> HIDE DEF q
  <2> QED  BY <2>1, <2>2 DEF Typed, GrantsTyped
<1> QED  BY <1>1, OnlyGrantsTyped DEF GrantExpires, Typed, CallsTyped, GhostTyped

LEMMA OnlyPermitsTyped ==
    ASSUME Typed, OnlyPermits, PermitsTyped', CallsTyped', GhostTyped'
    PROVE  Typed'
BY DEF Typed, OnlyPermits, SeatsTyped, Present, GrantsTyped, DenialsTyped, MarksTyped

LEMMA NewPermitTyped ==
    ASSUME Typed, NEW c \in Calls, NewPermit(c)
    PROVE  Typed'
<1>1. PICK a \in Aliases, what \in Grantable : Becomes(c, [pc |-> "file", by |-> a, what |-> what])
  BY DEF NewPermit
<1>2. CallFine([pc |-> "file", by |-> a, what |-> what])  BY DEF CallFine, Seating, Joining, Pcs
<1>3. CallsTyped'  BY <1>1, <1>2, MovesTyped DEF Typed
<1> QED  BY <1>3, OnlyPermitsTyped DEF NewPermit, Typed, PermitsTyped, GhostTyped

LEMMA WritePermitTyped ==
    ASSUME Typed, NEW c \in Calls, WritePermit(c)
    PROVE  Typed'
<1>1. CallsTyped'  BY IdleFine, MovesTyped DEF WritePermit, Returns, Typed
<1>2. PermitsTyped'
  <2> DEFINE q == [by |-> call[c].by, what |-> call[c].what, st |-> "live", revoked |-> FALSE]
  <2>1. PICK p \in Ids : permit' = [permit EXCEPT ![p] = q]  BY DEF WritePermit, Fresh
  <2>2. call[c].by \in Aliases /\ call[c].what \in Grantable
    BY DEF WritePermit, Typed, CallsTyped, CallFine
  <2>3. PermitFine(q)  BY <2>2 DEF PermitFine, Written
  <2> HIDE DEF q
  <2> QED  BY <2>1, <2>3 DEF Typed, PermitsTyped
<1> QED  BY <1>1, <1>2, OnlyPermitsTyped DEF WritePermit, Typed, GhostTyped

LEMMA CoordinatorIsAlias ==
    ASSUME SeatsTyped, NEW a \in Aliases
    PROVE  CoordinatorOf(a) \in Aliases \cup {Nobody}
BY DEF SeatsTyped, CoordinatorOf

LEMMA UsePermitTyped ==
    ASSUME Typed, NEW c \in Calls, UsePermit(c)
    PROVE  Typed'
<1>1. PICK a \in Aliases, u \in Asks, p \in Ids :
          /\ CoordinatorOf(a) # Nobody
          /\ Becomes(c, [pc |-> "count", p |-> p, by |-> CoordinatorOf(a), u |-> u])
  BY DEF UsePermit
<1>2. CoordinatorOf(a) \in Aliases  BY <1>1, CoordinatorIsAlias DEF Typed
<1>3. CallFine([pc |-> "count", p |-> p, by |-> CoordinatorOf(a), u |-> u])
  BY <1>2 DEF CallFine, Seating, Joining, Pcs
<1>4. CallsTyped'  BY <1>1, <1>3, MovesTyped DEF Typed
<1> QED  BY <1>4, OnlyPermitsTyped DEF UsePermit, Typed, PermitsTyped, GhostTyped

LEMMA CountUseTyped ==
    ASSUME Typed, NEW c \in Calls, CountUse(c)
    PROVE  Typed'
<1>1. CallsTyped'  BY IdleFine, MovesTyped DEF CountUse, Returns, Typed
<1>2. GhostTyped'
  <2> DEFINE x == [p |-> call[c].p, by |-> call[c].by, u |-> call[c].u]
  <2>1. x \in Uses  BY DEF CountUse, Typed, CallsTyped, CallFine, Uses
  <2>2. ghost' = ghost \/ ghost' = [ghost EXCEPT !.asked = ghost.asked \cup {x}]
    BY DEF CountUse
  <2> HIDE DEF x
  <2> QED  BY <2>1, <2>2 DEF Typed, GhostTyped, Ghosts
<1> QED  BY <1>1, <1>2, OnlyPermitsTyped DEF CountUse, Typed, PermitsTyped

LEMMA RevokePermitTyped ==
    ASSUME Typed, NEW p \in Ids, RevokePermit(p)
    PROVE  Typed'
<1>1. PermitsTyped'
  <2> DEFINE q == [permit[p] EXCEPT !.revoked = TRUE]
  <2>1. permit[p] \in Written  BY DEF RevokePermit, Typed, PermitsTyped, PermitFine
  <2>2. q \in Written /\ q.st # "none"  BY <2>1 DEF Written
  <2>3. permit' = [permit EXCEPT ![p] = q]  BY DEF RevokePermit
  <2> HIDE DEF q
  <2> QED  BY <2>2, <2>3 DEF Typed, PermitsTyped, PermitFine
<1> QED  BY <1>1, OnlyPermitsTyped DEF RevokePermit, Typed, CallsTyped, GhostTyped

LEMMA PermitExpiresTyped ==
    ASSUME Typed, NEW p \in Ids, PermitExpires(p)
    PROVE  Typed'
<1>1. PermitsTyped'
  <2> DEFINE q == [permit[p] EXCEPT !.st = "expired"]
  <2>1. permit[p] \in Written  BY DEF PermitExpires, Typed, PermitsTyped, PermitFine
  <2>2. q \in Written /\ q.st # "none"  BY <2>1 DEF Written
  <2>3. permit' = [permit EXCEPT ![p] = q]  BY DEF PermitExpires
  <2> HIDE DEF q
  <2> QED  BY <2>2, <2>3 DEF Typed, PermitsTyped, PermitFine
<1> QED  BY <1>1, OnlyPermitsTyped DEF PermitExpires, Typed, CallsTyped, GhostTyped

LEMMA OnlyDenialsTyped ==
    ASSUME Typed, OnlyDenials, DenialsTyped', CallsTyped', GhostTyped'
    PROVE  Typed'
BY DEF Typed, OnlyDenials, SeatsTyped, Present, GrantsTyped, PermitsTyped, MarksTyped

LEMMA ClaimDeniedTyped ==
    ASSUME Typed, NEW c \in Calls, ClaimDenied(c)
    PROVE  Typed'
<1>1. PICK a \in Aliases :
          LET s == seat[a].sid IN
          /\ Present(a) /\ CoordinatorOf(a) # Nobody
          /\ \/ Telling(c, a, s) /\ UNCHANGED <<denial, ghost>>
             \/ UNCHANGED <<denial, call, ghost>>
             \/ /\ denial' = [denial EXCEPT ![a] = [sid |-> s, st |-> "fresh"]]
                /\ Telling(c, a, s)
                /\ ghost' = [ghost EXCEPT !.told = @ \ {<<a, s>>}, !.cut = @ \ {a}]
  BY DEF ClaimDenied
<1> DEFINE s == seat[a].sid
<1>2. s \in Sessions  BY <1>1 DEF Typed, SeatsTyped
<1>3. CallsTyped'
  <2> DEFINE f == [pc |-> "tell", a |-> a, s |-> s, to |-> CoordinatorOf(a)]
  <2>1. CallFine(f)
    <3>1. CoordinatorOf(a) \in Aliases  BY <1>1, CoordinatorIsAlias DEF Typed
    <3> HIDE DEF s
    <3> QED  BY <1>2, <3>1 DEF CallFine, Seating, Joining, Pcs
  <2>2. UNCHANGED call \/ Becomes(c, f)  BY <1>1 DEF Telling
  <2> QED  BY <2>1, <2>2, MovesTyped DEF Typed, CallsTyped
<1>4. DenialsTyped'  BY <1>1, <1>2 DEF Typed, DenialsTyped
<1>5. GhostTyped'
  <2> DEFINE told == ghost.told \ {<<a, s>>}
             cut == ghost.cut \ {a}
  <2>1. ghost' = ghost \/ ghost' = [ghost EXCEPT !.told = told, !.cut = cut]
    BY <1>1
  <2>2. told \in SUBSET (Aliases \X Sessions) /\ cut \in SUBSET Aliases
    BY DEF Typed, GhostTyped, Ghosts
  <2>3. ghost \in Ghosts  BY DEF Typed, GhostTyped
  <2> HIDE DEF told, cut
  <2>4. CASE ghost' = [ghost EXCEPT !.told = told, !.cut = cut]
    BY <2>2, <2>3, <2>4 DEF Ghosts, GhostTyped
  <2> QED  BY <2>1, <2>3, <2>4 DEF GhostTyped
<1> QED  BY <1>3, <1>4, <1>5, OnlyDenialsTyped DEF ClaimDenied

LEMMA TellDeniedTyped ==
    ASSUME Typed, NEW c \in Calls, TellDenied(c)
    PROVE  Typed'
<1>1. call[c].a \in Aliases /\ call[c].s \in Sessions
  BY DEF TellDenied, Typed, CallsTyped, CallFine
<1>2. CallsTyped'
  <2> DEFINE f == [pc |-> "release", a |-> call[c].a, s |-> call[c].s]
  <2>1. CallFine(f)  BY <1>1 DEF CallFine, Seating, Joining, Pcs
  <2>2. Becomes(c, f) \/ Becomes(c, Idle)  BY DEF TellDenied, Returns
  <2> QED  BY <2>1, <2>2, IdleFine, MovesTyped DEF Typed
<1>3. GhostTyped'  BY <1>1 DEF TellDenied, Typed, GhostTyped, Ghosts
<1> QED  BY <1>2, <1>3, OnlyDenialsTyped DEF TellDenied, Typed, DenialsTyped

LEMMA ReleaseDeniedTyped ==
    ASSUME Typed, NEW c \in Calls, ReleaseDenied(c)
    PROVE  Typed'
<1>1. call[c].a \in Aliases  BY DEF ReleaseDenied, Typed, CallsTyped, CallFine
<1>2. CallsTyped'  BY IdleFine, MovesTyped DEF ReleaseDenied, Returns, Typed
<1>3. GhostTyped'
  <2>1. ghost' = ghost \/ ghost' = [ghost EXCEPT !.cut = @ \cup {call[c].a}]  BY DEF ReleaseDenied
  <2> QED  BY <1>1, <2>1, EntryCut DEF Typed, GhostTyped
<1>4. DenialsTyped'  BY <1>1 DEF ReleaseDenied, Typed, DenialsTyped, NoDenial
<1> QED  BY <1>2, <1>3, <1>4, OnlyDenialsTyped DEF ReleaseDenied

LEMMA WindowPassesTyped ==
    ASSUME Typed, NEW a \in Aliases, WindowPasses(a)
    PROVE  Typed'
<1>1. DenialsTyped'  BY DEF WindowPasses, Typed, DenialsTyped, NoDenial
<1> QED  BY <1>1, OnlyDenialsTyped DEF WindowPasses, Typed, CallsTyped, GhostTyped

LEMMA OnlyMarksTyped ==
    ASSUME Typed, OnlyMarks, MarksTyped', CallsTyped', GhostTyped'
    PROVE  Typed'
BY DEF Typed, OnlyMarks, SeatsTyped, Present, GrantsTyped, PermitsTyped, DenialsTyped

LEMMA FallTyped ==
    ASSUME Typed, NEW s \in Sessions, Fall(s)
    PROVE  Typed'
<1>1. MarksTyped'  BY DEF Fall, Typed, MarksTyped
<1> QED  BY <1>1, OnlyMarksTyped DEF Fall, Typed, CallsTyped, GhostTyped

LEMMA StopTyped ==
    ASSUME Typed, NEW c \in Calls, Stop(c)
    PROVE  Typed'
<1>1. PICK a \in Aliases :
          LET s == seat[a].sid
              from == IF mark[a].sid = s THEN mark[a].off ELSE 0 IN
          /\ Present(a) /\ RegressionRecipient(a) # Nobody /\ rows[s] > from
          /\ Becomes(c, [pc |-> "report", a |-> a, s |-> s, to |-> RegressionRecipient(a),
                         from |-> from, next |-> from, end |-> rows[s]])
  BY DEF Stop
<1> DEFINE s == seat[a].sid
           from == IF mark[a].sid = s THEN mark[a].off ELSE 0
           f == [pc |-> "report", a |-> a, s |-> s, to |-> RegressionRecipient(a),
                 from |-> from, next |-> from, end |-> rows[s]]
<1>2. s \in Sessions  BY <1>1 DEF Typed, SeatsTyped
<1>3. from \in Nat /\ rows[s] \in 0 .. MaxRows /\ from < rows[s]
  BY <1>1, <1>2 DEF Typed, MarksTyped
<1>4. CallFine(f)
  <2>1. RegressionRecipient(a) \in Aliases
    BY <1>1, CoordinatorIsAlias DEF RegressionRecipient, Typed
  <2> HIDE DEF from, s
  <2> QED  BY <1>2, <1>3, <2>1 DEF CallFine, Seating, Joining, Pcs, s
<1>5. CallsTyped'  BY <1>1, <1>4, MovesTyped DEF Typed
<1> QED  BY <1>5, OnlyMarksTyped DEF Stop, Typed, MarksTyped, GhostTyped

\* A report tells one more, or goes on to its mark.
LEMMA ReportReaches ==
    ASSUME CallsTyped, NEW c \in Calls, Report(c)
    PROVE  \E n \in {call[c].next, call[c].next + 1}, pc \in {"report", "mark"} :
              /\ pc = "report" => n # call[c].end
              /\ Becomes(c, [call[c] EXCEPT !.next = n, !.pc = pc])
<1> DEFINE f(n, pc) == [call[c] EXCEPT !.next = n, !.pc = pc]
<1>1. call[c].pc = "report"  BY DEF Report
<1>2. CASE Reached(c, call[c].next, TRUE)
  <2>1. Becomes(c, f(call[c].next, "mark"))  BY <1>2 DEF Reached
  <2> QED  BY <2>1
<1>3. CASE Reached(c, call[c].next + 1, FALSE)
  <2>1. CASE call[c].next + 1 = call[c].end
    <3>1. Becomes(c, f(call[c].next + 1, "mark"))  BY <1>3, <2>1 DEF Reached
    <3> QED  BY <3>1
  <2>2. CASE call[c].next + 1 # call[c].end
    <3>1. Becomes(c, f(call[c].next + 1, "report"))  BY <1>1, <1>3, <2>2 DEF Reached
    <3> QED  BY <2>2, <3>1
  <2> QED  BY <2>1, <2>2
<1>4. Reached(c, call[c].next, TRUE) \/ Reached(c, call[c].next + 1, FALSE)
  BY Zenon DEF Report
<1> QED  BY <1>2, <1>3, <1>4

LEMMA ReportTyped ==
    ASSUME Typed, NEW c \in Calls, Report(c)
    PROVE  Typed'
<1>1. /\ call[c].a \in Aliases /\ call[c].s \in Sessions /\ call[c].to \in Aliases
      /\ call[c].from \in Nat /\ call[c].next \in Nat /\ call[c].end \in 0 .. MaxRows
      /\ call[c].from <= call[c].next /\ call[c].next < call[c].end
  BY DEF Report, Typed, CallsTyped, CallFine
<1>2. CallsTyped'
  <2>1. CallFine(call[c]) /\ call[c].pc = "report"  BY DEF Report, Typed, CallsTyped
  <2> DEFINE f(n, pc) == [call[c] EXCEPT !.next = n, !.pc = pc]
  <2>2. ASSUME NEW n \in {call[c].next, call[c].next + 1}, NEW pc \in {"report", "mark"},
               pc = "report" => n # call[c].end
        PROVE  CallFine(f(n, pc))
    <3>1. {"pc", "a", "s", "to", "from", "next", "end"} \subseteq DOMAIN call[c]
      BY <2>1 DEF CallFine
    <3>2. DOMAIN f(n, pc) = DOMAIN call[c]
      OBVIOUS
    <3>3. /\ f(n, pc).pc = pc /\ f(n, pc).next = n /\ f(n, pc).a = call[c].a
          /\ f(n, pc).s = call[c].s /\ f(n, pc).to = call[c].to
          /\ f(n, pc).from = call[c].from /\ f(n, pc).end = call[c].end
      BY <3>1
    <3> HIDE DEF f
    <3> QED  BY <1>1, <2>2, <3>1, <3>2, <3>3 DEF CallFine, Seating, Joining, Pcs
  <2>3. PICK n \in {call[c].next, call[c].next + 1}, pc \in {"report", "mark"} :
            (pc = "report" => n # call[c].end) /\ Becomes(c, f(n, pc))
    BY ReportReaches DEF Typed
  <2> HIDE DEF f
  <2> QED  BY <2>2, <2>3, MovesTyped DEF Typed
<1>3. GhostTyped'
  <2> DEFINE reported == ghost.reported \cup {<<call[c].s, call[c].next + 1>>}
  <2>1. reported \in SUBSET (Sessions \X Nat)  BY <1>1 DEF Typed, GhostTyped, Ghosts
  <2>2. ghost' = ghost \/ ghost' = [ghost EXCEPT !.reported = reported]  BY DEF Report
  <2> HIDE DEF reported
  <2> QED  BY <2>1, <2>2 DEF Typed, GhostTyped, Ghosts
<1> QED  BY <1>2, <1>3, OnlyMarksTyped DEF Report, Typed, MarksTyped

LEMMA WriteMarkTyped ==
    ASSUME Typed, NEW c \in Calls, WriteMark(c)
    PROVE  Typed'
<1>1. /\ call[c].a \in Aliases /\ call[c].s \in Sessions
      /\ call[c].next \in 0 .. MaxRows
  BY DEF WriteMark, Typed, CallsTyped, CallFine
<1>2. CallsTyped'  BY IdleFine, MovesTyped DEF WriteMark, Returns, Typed
<1>3. MarksTyped'
  <2>1. rows' = rows
        /\ (mark' = mark \/ mark' = [mark EXCEPT ![call[c].a] = [sid |-> call[c].s, off |-> call[c].next]])
    BY DEF WriteMark
  <2> QED  BY <1>1, <2>1 DEF Typed, MarksTyped
<1> QED  BY <1>2, <1>3, OnlyMarksTyped DEF WriteMark, Typed, GhostTyped

\* A step of a join.
JoinStepOf(c) ==
    \/ JoinBegins(c) \/ JoinClaims(c) \/ Lists(c) \/ LooksAt(c) \/ ReadsClaim(c) \/ Resolve(c)
    \/ Adopt(c) \/ AcquireMintLock(c) \/ Mint(c) \/ Commit(c) \/ RecordJoin(c)

\* Every step keeps the types.
LEMMA StepTyped == Typed /\ [Next]_vars => Typed'
<1> SUFFICES ASSUME Typed, [Next]_vars PROVE Typed'
  OBVIOUS
<1>1. ASSUME NEW c \in Calls, JoinStepOf(c) \/ Killed(c)
      PROVE  Typed'
  BY <1>1, JoinBeginsTyped, JoinClaimsTyped, ListsTyped, LooksAtTyped, ReadsClaimTyped,
     ResolveTyped, AdoptTyped, AcquireMintLockTyped, MintTyped, CommitTyped, RecordJoinTyped,
     KilledTyped DEF JoinStepOf
<1>2. ASSUME NEW c \in Calls, GrantAsks(c) \/ GrantConfirmed(c) \/ UseGrant(c) \/ TakeGrant(c)
                              \/ NewPermit(c) \/ WritePermit(c) \/ UsePermit(c) \/ CountUse(c)
      PROVE  Typed'
  BY <1>2, GrantAsksTyped, GrantConfirmedTyped, UseGrantTyped, TakeGrantTyped, NewPermitTyped,
     WritePermitTyped, UsePermitTyped, CountUseTyped
<1>3. ASSUME NEW c \in Calls, ClaimDenied(c) \/ TellDenied(c) \/ ReleaseDenied(c)
                              \/ Stop(c) \/ Report(c) \/ WriteMark(c)
      PROVE  Typed'
  BY <1>3, ClaimDeniedTyped, TellDeniedTyped, ReleaseDeniedTyped, StopTyped, ReportTyped,
     WriteMarkTyped
<1>4. ASSUME NEW a \in Aliases, Leave(a) \/ Dies(a) \/ Arm(a) \/ WindowPasses(a)
      PROVE  Typed'
  BY <1>4, LeaveTyped, DiesTyped, ArmTyped, WindowPassesTyped
<1>5. ASSUME NEW a \in Aliases, NEW b \in Aliases, Rename(a, b) \/ Assign(a, b)
      PROVE  Typed'
  BY <1>5, RenameTyped, AssignTyped
<1>6. ASSUME NEW i \in Ids, RevokeGrant(i) \/ GrantExpires(i) \/ RevokePermit(i) \/ PermitExpires(i)
      PROVE  Typed'
  BY <1>6, RevokeGrantTyped, GrantExpiresTyped, RevokePermitTyped, PermitExpiresTyped
<1>7. ASSUME NEW s \in Sessions, Fall(s)
      PROVE  Typed'
  BY <1>7, FallTyped
<1>8. CASE UNCHANGED vars
  BY <1>8 DEF vars, Typed, SeatsTyped, Present, GrantsTyped, PermitsTyped, DenialsTyped,
       MarksTyped, CallsTyped, GhostTyped
<1> QED
  BY <1>1, <1>2, <1>3, <1>4, <1>5, <1>6, <1>7, <1>8 DEF Next, JoinStepOf

\* The channel at first is empty, or every alias has joined it.
LEMMA InitSeats ==
    ASSUME Init
    PROVE  /\ seat \in [Aliases -> [sid : Sessions \cup {Nobody}, st : {"free", "armed"}]]
           /\ \A a \in Aliases : Present(a) =>
                 seat[a].sid \in Sessions /\ JoinEvent(seat[a].sid, 0) \in ledger
           /\ \A e \in ledger : \E s \in Sessions : e = JoinEvent(s, 0)
<1>1. CASE seat = [a \in Aliases |-> NoSeat] /\ ledger = {}
  BY <1>1 DEF NoSeat, Present
<1>2. ASSUME NEW f \in Seatings,
             seat = [a \in Aliases |-> [sid |-> f[a], st |-> "armed"]],
             ledger = {JoinEvent(f[a], 0) : a \in Aliases}
      PROVE  /\ seat \in [Aliases -> [sid : Sessions \cup {Nobody}, st : {"free", "armed"}]]
             /\ \A a \in Aliases : Present(a) =>
                   seat[a].sid \in Sessions /\ JoinEvent(seat[a].sid, 0) \in ledger
             /\ \A e \in ledger : \E s \in Sessions : e = JoinEvent(s, 0)
  <2>1. \A a \in Aliases : f[a] \in Sessions  BY DEF Seatings
  <2>2. \A a \in Aliases : seat[a].sid = f[a]  BY <1>2
  <2> QED  BY <1>2, <2>1, <2>2
<1> QED  BY <1>1, <1>2 DEF Init

\* The channel is empty or full, and no call is under way.
LEMMA InitTyped == Init => Typed
<1> SUFFICES ASSUME Init PROVE Typed
  OBVIOUS
<1>4. SeatsTyped
  <2>1. coord = [a \in Aliases |-> NoCoord] /\ run = [a \in Aliases |-> 0] /\ runs = 0
    BY DEF Init
  <2>2. ledger \subseteq Events
    <3>1. \A s \in Sessions : JoinEvent(s, 0) \in Events  BY JoinEventFine
    <3> QED  BY <3>1, InitSeats
  <2> QED  BY <2>1, <2>2, InitSeats DEF SeatsTyped, NoCoord
<1>5. GrantsTyped
  <2>1. NoGrant \in Grants  BY DEF Grants, NoGrant
  <2>2. grant = [g \in Ids |-> NoGrant]  BY DEF Init
  <2> QED  BY <2>1, <2>2 DEF GrantsTyped
<1>6. PermitsTyped
  <2>1. permit = [p \in Ids |-> NoPermit]  BY DEF Init
  <2> QED  BY <2>1 DEF PermitsTyped, PermitFine, NoPermit
<1>7. DenialsTyped /\ MarksTyped
  BY DEF Init, DenialsTyped, NoDenial, MarksTyped, NoMark
<1>8. CallsTyped
  BY IdleFine DEF Init, CallsTyped
<1>9. GhostTyped
  BY DEF Init, GhostTyped, NoGhost, Ghosts
<1> QED
  BY <1>4, <1>5, <1>6, <1>7, <1>8, <1>9 DEF Typed

-----------------------------------------------------------------------------
(* Frames. *)

\* Where a step of a join takes its call.
LEMMA JoinMoves ==
    ASSUME NEW c \in Calls, JoinStepOf(c)
    PROVE  \E f : /\ Becomes(c, f)
                  /\ f.pc \in Seating \cup {"idle"} /\ call[c].pc \in Seating \cup {"idle"}
<1> USE DEF Seating, Joining
<1>1. CASE JoinBegins(c)
  <2>1. call[c].pc = "idle"  BY <1>1 DEF JoinBegins, Idle
  <2>2. \E f : Becomes(c, f) /\ f.pc = "claim"  BY <1>1 DEF JoinBegins
  <2> QED  BY <2>1, <2>2
<1>2. CASE JoinClaims(c)  BY <1>2 DEF JoinClaims, Returns, Looking, Idle
<1>3. CASE Lists(c)  BY <1>3 DEF Lists, Looking
<1>4. CASE LooksAt(c)  BY <1>4 DEF LooksAt, Looking
<1>5. CASE ReadsClaim(c)  BY <1>5 DEF ReadsClaim, Looking
<1>6. CASE Resolve(c)  BY <1>6 DEF Resolve, Looked, Looking, Recording
<1>7. CASE Adopt(c)  BY <1>7 DEF Adopt, Looked, Committing
<1>8. CASE AcquireMintLock(c)  BY <1>8 DEF AcquireMintLock, Looking, Recording
<1>9. CASE Mint(c)  BY <1>9 DEF Mint, Looked, Recording, Committing
<1>10. CASE Commit(c)  BY <1>10 DEF Commit, Recording
<1>11. CASE RecordJoin(c)  BY <1>11 DEF RecordJoin, Returns, Idle
<1> QED
  BY <1>1, <1>2, <1>3, <1>4, <1>5, <1>6, <1>7, <1>8, <1>9, <1>10, <1>11 DEF JoinStepOf

\* A join leaves everything but the registry and the runs alone.
LEMMA JoinsFrame ==
    ASSUME Typed, NEW c \in Calls, JoinStepOf(c)
    PROVE  GrantsAlone /\ PermitsAlone /\ DenialsAlone /\ MarksAlone
<1>1. UNCHANGED <<grant, permit, denial, mark>>
  BY DEF JoinStepOf, JoinBegins, JoinClaims, Lists, LooksAt, ReadsClaim, Resolve, Adopt,
         AcquireMintLock, Mint, Commit, RecordJoin, OnlySeats, OnlyRuns
<1>2. /\ ghost'.taken = ghost.taken /\ ghost'.twice = ghost.twice /\ ghost'.asked = ghost.asked
      /\ ghost'.told = ghost.told /\ ghost'.cut = ghost.cut /\ ghost'.reported = ghost.reported
  <2>1. CASE ghost' = ghost  BY <2>1
  <2>2. CASE JoinClaims(c)
    <3>1. ghost' = Stirs \/ ghost' = ghost  BY <2>2 DEF JoinClaims
    <3> QED  BY <3>1, StirsNotes DEF Typed
  <2>3. CASE Lists(c)
    <3>1. ghost' = ghost \/ ghost' = [ghost EXCEPT !.stirred = FALSE]  BY <2>3 DEF Lists
    <3> QED  BY <3>1 DEF Typed, GhostTyped, Ghosts
  <2>4. CASE Mint(c)
    <3>1. \E x : ghost' = [ghost EXCEPT !.apart = x]  BY <2>4 DEF Mint
    <3> QED  BY <3>1 DEF Typed, GhostTyped, Ghosts
  <2>5. CASE Commit(c)
    <3>1. ghost' = ghost \/ \E x : ghost' = [ghost EXCEPT !.apart = x]  BY <2>5 DEF Commit
    <3> QED  BY <3>1 DEF Typed, GhostTyped, Ghosts
  <2>6. CASE RecordJoin(c)
    <3>1. ghost' = ghost \/ \E x : ghost' = [ghost EXCEPT !.lost = x]  BY <2>6 DEF RecordJoin
    <3> QED  BY <3>1 DEF Typed, GhostTyped, Ghosts
  <2> QED
    BY <2>1, <2>2, <2>3, <2>4, <2>5, <2>6
       DEF JoinStepOf, JoinBegins, LooksAt, ReadsClaim, Resolve, Adopt, AcquireMintLock
<1>3. PICK f : /\ Becomes(c, f)
               /\ f.pc \in Seating \cup {"idle"} /\ call[c].pc \in Seating \cup {"idle"}
  BY JoinMoves
<1>4. call'[c].pc \in Seating \cup {"idle"} /\ call[c].pc \in Seating \cup {"idle"}
      /\ \A d \in Calls \ {c} : call'[d] = call[d]
  BY <1>3, Moves DEF Typed
<1> QED
  BY <1>1, <1>2, <1>4 DEF GrantsAlone, PermitsAlone, DenialsAlone, MarksAlone, NoNewCall, SameCalls,
     Seating, Joining

\* So does a command about grants, with what the other kinds of records are.
LEMMA GrantsFrame ==
    ASSUME Typed, NEW c \in Calls,
           GrantAsks(c) \/ GrantConfirmed(c) \/ UseGrant(c) \/ TakeGrant(c)
    PROVE  PermitsAlone /\ DenialsAlone /\ MarksAlone /\ RunsAlone
<1> USE DEF Typed, CallsTyped, GhostTyped, Ghosts, Becomes, GrantsAlone, PermitsAlone, DenialsAlone,
            MarksAlone, RunsAlone, NoNewCall, SameCalls, Joining
<1>1. CASE GrantAsks(c)
  BY <1>1 DEF GrantAsks, Starts, Idle, OnlyGrants
<1>2. CASE GrantConfirmed(c)
  BY <1>2 DEF GrantConfirmed, Returns, Idle, OnlyGrants
<1>3. CASE UseGrant(c)
  BY <1>3 DEF UseGrant, Starts, Idle, OnlyGrants
<1>4. CASE TakeGrant(c)
  <2>1. UNCHANGED ghost \/ ghost' = Took(c)  BY <1>4 DEF TakeGrant
  <2>2. /\ ghost'.asked = ghost.asked /\ ghost'.told = ghost.told /\ ghost'.cut = ghost.cut
        /\ ghost'.reported = ghost.reported /\ ghost'.apart = ghost.apart
        /\ ghost'.lost = ghost.lost /\ ghost'.stirred = ghost.stirred
    BY <2>1 DEF Took
  <2>3. call[c].pc = "take" /\ call' = [call EXCEPT ![c] = Idle]
        /\ UNCHANGED <<seat, run, ledger, permit, denial, mark>>
    BY <1>4 DEF TakeGrant, Returns, OnlyGrants
  <2> QED  BY <2>2, <2>3 DEF Idle
<1> QED  BY <1>1, <1>2, <1>3, <1>4

\* Commands about permits.
LEMMA PermitsFrame ==
    ASSUME Typed, NEW c \in Calls,
           NewPermit(c) \/ WritePermit(c) \/ UsePermit(c) \/ CountUse(c)
    PROVE  GrantsAlone /\ DenialsAlone /\ MarksAlone /\ RunsAlone
<1> USE DEF Typed, CallsTyped, GhostTyped, Ghosts, Becomes, GrantsAlone, PermitsAlone, DenialsAlone,
            MarksAlone, RunsAlone, NoNewCall, SameCalls, Joining
<1>1. CASE NewPermit(c)
  BY <1>1 DEF NewPermit, Starts, Idle, OnlyPermits
<1>2. CASE WritePermit(c)
  BY <1>2 DEF WritePermit, Returns, Idle, OnlyPermits
<1>3. CASE UsePermit(c)
  BY <1>3 DEF UsePermit, Starts, Idle, OnlyPermits
<1>4. CASE CountUse(c)
  BY <1>4 DEF CountUse, Returns, Idle, OnlyPermits
<1> QED  BY <1>1, <1>2, <1>3, <1>4

\* The hook that tells of denials.
LEMMA DenialsFrame ==
    ASSUME Typed, NEW c \in Calls,
           ClaimDenied(c) \/ TellDenied(c) \/ ReleaseDenied(c)
    PROVE  GrantsAlone /\ PermitsAlone /\ MarksAlone /\ RunsAlone
<1> USE DEF Typed, CallsTyped, GhostTyped, Ghosts, Becomes, GrantsAlone, PermitsAlone, DenialsAlone,
            MarksAlone, RunsAlone, NoNewCall, SameCalls, Joining
<1>1. CASE ClaimDenied(c)
  <2>1. PICK a \in Aliases :
            \/ UNCHANGED ghost /\ (UNCHANGED call \/ Telling(c, a, seat[a].sid))
            \/ /\ Telling(c, a, seat[a].sid)
               /\ ghost' = [ghost EXCEPT !.told = @ \ {<<a, seat[a].sid>>}, !.cut = @ \ {a}]
    BY <1>1 DEF ClaimDenied
  <2>2. \A d \in Calls : call'[d] = call[d] \/ (d = c /\ call'[d].pc = "tell")
    BY <2>1 DEF Telling
  <2>3. /\ ghost'.taken = ghost.taken /\ ghost'.twice = ghost.twice /\ ghost'.asked = ghost.asked
        /\ ghost'.reported = ghost.reported /\ ghost'.apart = ghost.apart
        /\ ghost'.lost = ghost.lost /\ ghost'.stirred = ghost.stirred
    BY <2>1
  <2>4. call[c].pc = "idle"
    <3>1. call[c] = Idle  BY <1>1, Zenon DEF ClaimDenied
    <3> QED  BY <3>1 DEF Idle
  <2>5. UNCHANGED <<seat, run, ledger, grant, permit, mark>>  BY <1>1 DEF ClaimDenied, OnlyDenials
  <2>6. /\ NoNewCall({"take"}) /\ NoNewCall({"count"}) /\ NoNewCall({"report", "mark"})
        /\ NoNewCall(Joining) /\ SameCalls(Joining)
    BY <2>2, <2>4
  <2> HIDE DEF NoNewCall, SameCalls
  <2> QED  BY <2>3, <2>5, <2>6
<1>2. CASE TellDenied(c)
  BY <1>2 DEF TellDenied, Returns, Idle, OnlyDenials
<1>3. CASE ReleaseDenied(c)
  BY <1>3 DEF ReleaseDenied, Returns, Idle, OnlyDenials
<1> QED  BY <1>1, <1>2, <1>3

\* The hook that reports fallbacks.
LEMMA FallbacksFrame ==
    ASSUME Typed, NEW c \in Calls,
           Stop(c) \/ Report(c) \/ WriteMark(c)
    PROVE  GrantsAlone /\ PermitsAlone /\ DenialsAlone /\ RunsAlone
<1> USE DEF Typed, CallsTyped, GhostTyped, Ghosts, Becomes, GrantsAlone, PermitsAlone, DenialsAlone,
            MarksAlone, RunsAlone, NoNewCall, SameCalls, Joining
<1>1. CASE Stop(c)
  <2> DEFINE From(a) == IF mark[a].sid = seat[a].sid THEN mark[a].off ELSE 0
             Told(a) == [pc |-> "report", a |-> a, s |-> seat[a].sid, to |-> RegressionRecipient(a),
                         from |-> From(a), next |-> From(a), end |-> rows[seat[a].sid]]
  <2>1. \E a \in Aliases : call' = [call EXCEPT ![c] = Told(a)]
    BY <1>1, Zenon DEF Stop
  <2>2. /\ UNCHANGED <<seat, run, ledger, grant, permit, mark, denial, ghost>>
        /\ call[c].pc = "idle"
    BY <1>1 DEF Stop, Starts, Idle, OnlyMarks
  <2>3. call'[c].pc = "report" /\ \A d \in Calls \ {c} : call'[d] = call[d]
    <3>1. \A a : Told(a).pc = "report"
      OBVIOUS
    <3>2. call = [d \in Calls |-> call[d]]
      OBVIOUS
    <3> HIDE DEF Told
    <3> QED
      BY <2>1, <3>1, <3>2
  <2> QED
    BY <2>2, <2>3
<1>2. CASE Report(c)
  <2>1. "pc" \in DOMAIN call[c]  BY <1>2 DEF Report, CallFine
  <2>2. PICK n \in {call[c].next, call[c].next + 1}, pc \in {"report", "mark"} :
            Becomes(c, [call[c] EXCEPT !.next = n, !.pc = pc])
    BY <1>2, ReportReaches DEF Typed
  <2>3. call'[c].pc \in {"report", "mark"} /\ \A d \in Calls \ {c} : call'[d] = call[d]
    BY <2>1, <2>2
  <2>4. call[c].pc = "report"  BY <1>2 DEF Report
  <2>5. UNCHANGED <<seat, run, ledger, grant, permit, denial>>  BY <1>2 DEF Report, OnlyMarks
  <2>6. /\ ghost'.taken = ghost.taken /\ ghost'.twice = ghost.twice /\ ghost'.asked = ghost.asked
        /\ ghost'.told = ghost.told /\ ghost'.cut = ghost.cut /\ ghost'.apart = ghost.apart
        /\ ghost'.lost = ghost.lost /\ ghost'.stirred = ghost.stirred
    BY <1>2 DEF Report
  <2> QED  BY <2>3, <2>4, <2>5, <2>6
<1>3. CASE WriteMark(c)
  BY <1>3 DEF WriteMark, Returns, Idle, OnlyMarks
<1> QED  BY <1>1, <1>2, <1>3

LEMMA KilledFrame ==
    ASSUME Typed, NEW c \in Calls, Killed(c)
    PROVE  /\ GrantsAlone /\ PermitsAlone /\ MarksAlone
           /\ call[c].pc \notin {"tell", "release"} => DenialsAlone
<1>1. call'[c] = Idle /\ \A d \in Calls \ {c} : call'[d] = call[d]
  BY Moves DEF Killed, Returns, Typed
<1>2. UNCHANGED <<grant, permit, denial, mark>>  BY DEF Killed, OnlyRuns
<1>3. /\ ghost'.taken = ghost.taken /\ ghost'.twice = ghost.twice /\ ghost'.asked = ghost.asked
      /\ ghost'.told = ghost.told /\ ghost'.reported = ghost.reported
      /\ call[c].pc \notin {"tell", "release"} => ghost'.cut = ghost.cut
  BY KilledLeaves, EntryCut, EventLost DEF Typed, Joining
<1> QED
  BY <1>1, <1>2, <1>3 DEF Idle, GrantsAlone, PermitsAlone, DenialsAlone, MarksAlone, NoNewCall, SameCalls

\* What happens to a registration.
LEMMA DeparturesFrame ==
    ASSUME Typed, NEW a \in Aliases, NEW b \in Aliases,
           Leave(a) \/ Dies(a) \/ Arm(a) \/ Rename(a, b)
    PROVE  GrantsAlone /\ PermitsAlone /\ DenialsAlone /\ (MarksAlone \/ Rename(a, b))
<1> USE DEF Typed, CallsTyped, GhostTyped, Ghosts, Becomes, GrantsAlone, PermitsAlone, DenialsAlone,
            MarksAlone, RunsAlone, NoNewCall, SameCalls, Joining
<1>1. CASE Leave(a)
  BY <1>1, StirsNotes DEF Leave, OnlySeats
<1>2. CASE Dies(a)
  BY <1>2, StirsNotes DEF Dies, OnlySeats
<1>3. CASE Arm(a)
  BY <1>3 DEF Arm, OnlySeats
<1>4. CASE Rename(a, b)
  BY <1>4, StirsNotes DEF Rename, OnlySeats
<1> QED  BY <1>1, <1>2, <1>3, <1>4

LEMMA AssignFrame ==
    ASSUME Typed, NEW a \in Aliases, NEW b \in Aliases, Assign(a, b)
    PROVE  GrantsAlone /\ PermitsAlone /\ DenialsAlone /\ MarksAlone /\ RunsAlone
<1> USE DEF Typed, CallsTyped, GhostTyped, Ghosts, Becomes, GrantsAlone, PermitsAlone, DenialsAlone,
            MarksAlone, RunsAlone, NoNewCall, SameCalls, Joining
<1> QED  BY DEF Assign, OnlySeats

LEMMA WindowFrame ==
    ASSUME Typed, NEW a \in Aliases, WindowPasses(a)
    PROVE  GrantsAlone /\ PermitsAlone /\ MarksAlone /\ RunsAlone
<1> USE DEF Typed, CallsTyped, GhostTyped, Ghosts, Becomes, GrantsAlone, PermitsAlone, DenialsAlone,
            MarksAlone, RunsAlone, NoNewCall, SameCalls, Joining
<1> QED  BY DEF WindowPasses, OnlyDenials

LEMMA EndsFrame ==
    ASSUME Typed, NEW i \in Ids,
           RevokeGrant(i) \/ GrantExpires(i) \/ RevokePermit(i) \/ PermitExpires(i)
    PROVE  /\ DenialsAlone /\ MarksAlone /\ RunsAlone
           /\ GrantsAlone \/ RevokeGrant(i) \/ GrantExpires(i)
           /\ PermitsAlone \/ RevokePermit(i) \/ PermitExpires(i)
<1> USE DEF Typed, CallsTyped, GhostTyped, Ghosts, Becomes, GrantsAlone, PermitsAlone, DenialsAlone,
            MarksAlone, RunsAlone, NoNewCall, SameCalls, Joining
<1>1. CASE RevokeGrant(i)
  BY <1>1 DEF RevokeGrant, OnlyGrants
<1>2. CASE GrantExpires(i)
  BY <1>2 DEF GrantExpires, OnlyGrants
<1>3. CASE RevokePermit(i)
  BY <1>3 DEF RevokePermit, OnlyPermits
<1>4. CASE PermitExpires(i)
  BY <1>4 DEF PermitExpires, OnlyPermits
<1> QED  BY <1>1, <1>2, <1>3, <1>4

LEMMA FallFrame ==
    ASSUME Typed, NEW s \in Sessions, Fall(s)
    PROVE  GrantsAlone /\ PermitsAlone /\ DenialsAlone /\ MarksAlone /\ RunsAlone
<1> USE DEF Typed, CallsTyped, GhostTyped, Ghosts, Becomes, GrantsAlone, PermitsAlone, DenialsAlone,
            MarksAlone, RunsAlone, NoNewCall, SameCalls, Joining
<1> QED  BY DEF Fall, OnlyMarks

LEMMA StutterFrame ==
    ASSUME Typed, UNCHANGED vars
    PROVE  GrantsAlone /\ PermitsAlone /\ DenialsAlone /\ MarksAlone /\ RunsAlone
<1> USE DEF Typed, CallsTyped, GhostTyped, Ghosts, Becomes, GrantsAlone, PermitsAlone, DenialsAlone,
            MarksAlone, RunsAlone, NoNewCall, SameCalls, Joining
<1> QED  BY DEF vars

-----------------------------------------------------------------------------
(* Grants. *)

\* What a step does to a grant that is used leaves it with its session.
SameHolders ==
    \A g \in Ids, s \in Sessions : GrantFits(g, s) => GrantFits(g, s)'

LEMMA GrantsQuiet ==
    ASSUME Typed, GrantsFit, SameHolders, NoNewCall({"take"}),
           ghost'.taken = ghost.taken, ghost'.twice = ghost.twice
    PROVE  GrantsFit'
<1>1. \A c \in Calls : call[c].pc = "take" => call[c].g \in Ids /\ call[c].s \in Sessions
  BY DEF Typed, CallsTyped, CallFine
<1>2. \A t \in ghost.taken : t.g \in Ids /\ t.s \in Sessions
  BY DEF Typed, GhostTyped, Ghosts
<1>3. \A c \in Calls : (call[c].pc = "take" => GrantFits(call[c].g, call[c].s))'
  <2> SUFFICES ASSUME NEW c \in Calls, call'[c].pc = "take"
               PROVE  GrantFits(call[c].g, call[c].s)'
    OBVIOUS
  <2>1. call'[c] = call[c]  BY DEF NoNewCall
  <2> QED  BY <1>1, <2>1 DEF GrantsFit, SameHolders, GrantFits
<1>4. \A t \in ghost'.taken : (GrantFits(t.g, t.s))'
  BY <1>2 DEF GrantsFit, SameHolders
<1> QED
  BY <1>3, <1>4 DEF GrantsFit, GrantFits

LEMMA UseGrantKeeps ==
    ASSUME Typed, GrantsFit, NEW c \in Calls, UseGrant(c)
    PROVE  GrantsFit'
<1>1. PICK s \in Sessions, g \in Ids :
          /\ GrantState(g) = "live" /\ s = grant[g].sid
          /\ Becomes(c, [pc |-> "take", s |-> s, g |-> g])
  BY DEF UseGrant
<1>2. grant' = grant /\ ghost' = ghost  BY DEF UseGrant
<1>3. GrantFits(g, s)  BY <1>1 DEF GrantState, GrantFits
<1>4. call'[c] = [pc |-> "take", s |-> s, g |-> g] /\ \A d \in Calls \ {c} : call'[d] = call[d]
  BY <1>1, Moves DEF Typed
<1> QED  BY <1>2, <1>3, <1>4 DEF GrantsFit, GrantFits

LEMMA TakeGrantKeeps ==
    ASSUME Typed, GrantsFit, NEW c \in Calls, TakeGrant(c)
    PROVE  GrantsFit'
<1> DEFINE g == call[c].g
           s == call[c].s
<1>1. g \in Ids /\ s \in Sessions /\ call[c].pc = "take"
  BY DEF TakeGrant, Typed, CallsTyped, CallFine
<1>2. GrantFits(g, s)  BY <1>1 DEF GrantsFit
<1>3. SameHolders
  <2>1. grant' = grant \/ grant' = [grant EXCEPT ![g].used = s]  BY DEF TakeGrant
  <2>2. grant[g] \in Grants /\ grant = [x \in Ids |-> grant[x]]  BY <1>1 DEF Typed, GrantsTyped
  <2>3. \A x \in Ids : grant'[x].sid = grant[x].sid /\ grant'[x].st = grant[x].st
    <3>1. [grant[g] EXCEPT !.used = s].sid = grant[g].sid
          /\ [grant[g] EXCEPT !.used = s].st = grant[g].st
      BY <2>2 DEF Grants
    <3>2. grant' = grant \/ grant' = [grant EXCEPT ![g] = [grant[g] EXCEPT !.used = s]]
      BY <2>1
    <3> HIDE DEF s
    <3>3. \A x \in Ids : \/ grant'[x] = grant[x]
                         \/ x = g /\ grant'[x] = [grant[g] EXCEPT !.used = s]
      BY <1>1, <2>2, <3>2
    <3> QED  BY <3>1, <3>3
  <2> QED  BY <2>3 DEF SameHolders, GrantFits
<1>4. \A d \in Calls : call'[d].pc = "take" => call'[d] = call[d]
  <2>1. call'[c] = Idle /\ \A d \in Calls \ {c} : call'[d] = call[d]
    BY Moves DEF TakeGrant, Returns, Typed
  <2> QED  BY <2>1 DEF Idle
<1>5. CASE grant[g].once /\ grant[g].used # Nobody
  BY <1>3, <1>4, <1>5, GrantsQuiet DEF TakeGrant, NoNewCall
<1>6. CASE ~(grant[g].once /\ grant[g].used # Nobody)
  <2>1. ghost' = [ghost EXCEPT !.taken = ghost.taken \cup {[g |-> g, s |-> s]},
                               !.twice = ghost.twice \/ (grant[g].once /\ grant[g].used # Nobody)]
    BY <1>6 DEF TakeGrant, Took
  <2>2. ghost'.taken = ghost.taken \cup {[g |-> g, s |-> s]} /\ ~ghost'.twice
    BY <1>6, <2>1 DEF Typed, GhostTyped, Ghosts, GrantsFit
  <2>3. \A d \in Calls : (call[d].pc = "take" => GrantFits(call[d].g, call[d].s))'
    <3> SUFFICES ASSUME NEW d \in Calls, call'[d].pc = "take"
                 PROVE  GrantFits(call[d].g, call[d].s)'
      OBVIOUS
    <3>1. call'[d] = call[d]  BY <1>4
    <3>2. call[d].g \in Ids /\ call[d].s \in Sessions  BY <3>1 DEF Typed, CallsTyped, CallFine
    <3> QED  BY <1>3, <3>1, <3>2 DEF GrantsFit, SameHolders, GrantFits
  <2>4. \A t \in ghost'.taken : (GrantFits(t.g, t.s))'
    <3> SUFFICES ASSUME NEW t \in ghost'.taken  PROVE (GrantFits(t.g, t.s))'
      OBVIOUS
    <3>1. t.g \in Ids /\ t.s \in Sessions /\ GrantFits(t.g, t.s)
      BY <1>1, <1>2, <2>2 DEF Typed, GhostTyped, Ghosts, GrantsFit
    <3> QED  BY <1>3, <3>1 DEF SameHolders
  <2> QED  BY <2>2, <2>3, <2>4 DEF GrantsFit
<1> QED  BY <1>5, <1>6

LEMMA GrantsKept == ASSUME Typed, GrantsFit, [Next]_vars PROVE GrantsFit'
<1>1. CASE GrantsAlone
  BY <1>1, GrantsQuiet DEF GrantsAlone, SameHolders, GrantFits
<1>2. ASSUME NEW c \in Calls, UseGrant(c) \/ TakeGrant(c)  PROVE GrantsFit'
  BY <1>2, UseGrantKeeps, TakeGrantKeeps
<1>3. ASSUME NEW c \in Calls, GrantConfirmed(c)  PROVE GrantsFit'
  <2>1. SameHolders
    BY <1>3 DEF GrantConfirmed, Fresh, SameHolders, GrantFits, Typed, GrantsTyped
  <2>2. call'[c] = Idle /\ \A d \in Calls \ {c} : call'[d] = call[d]
    BY <1>3, Moves DEF GrantConfirmed, Returns, Typed
  <2>3. NoNewCall({"take"})  BY <2>2 DEF NoNewCall, Idle
  <2> QED  BY <1>3, <2>1, <2>3, GrantsQuiet DEF GrantConfirmed
<1>4. ASSUME NEW g \in Ids, RevokeGrant(g) \/ GrantExpires(g)  PROVE GrantsFit'
  <2>1. SameHolders
    <3>1. \/ grant' = [grant EXCEPT ![g].revoked = TRUE]
          \/ grant' = [grant EXCEPT ![g].st = "expired"]
      BY <1>4 DEF RevokeGrant, GrantExpires
    <3>2. CASE grant' = [grant EXCEPT ![g].revoked = TRUE]
      BY <3>2 DEF SameHolders, GrantFits, Typed, GrantsTyped, Grants
    <3>3. CASE grant' = [grant EXCEPT ![g].st = "expired"]
      BY <3>3 DEF SameHolders, GrantFits, Typed, GrantsTyped, Grants
    <3> QED  BY <3>1, <3>2, <3>3
  <2>2. UNCHANGED <<call, ghost>>  BY <1>4 DEF RevokeGrant, GrantExpires
  <2> QED  BY <2>1, <2>2, GrantsQuiet DEF NoNewCall
<1>5. \/ GrantsAlone
      \/ \E c \in Calls : UseGrant(c) \/ TakeGrant(c) \/ GrantConfirmed(c)
      \/ \E g \in Ids : RevokeGrant(g) \/ GrantExpires(g)
  <2>1. ASSUME NEW c \in Calls, JoinStepOf(c)
        PROVE  GrantsAlone
    BY <2>1, JoinsFrame
  <2>2. ASSUME NEW c \in Calls, NewPermit(c) \/ WritePermit(c) \/ UsePermit(c) \/ CountUse(c)
        PROVE  GrantsAlone
    BY <2>2, PermitsFrame
  <2>3. ASSUME NEW c \in Calls, ClaimDenied(c) \/ TellDenied(c) \/ ReleaseDenied(c)
        PROVE  GrantsAlone
    BY <2>3, DenialsFrame
  <2>4. ASSUME NEW c \in Calls, Stop(c) \/ Report(c) \/ WriteMark(c)  PROVE GrantsAlone
    BY <2>4, FallbacksFrame
  <2>5. ASSUME NEW c \in Calls, Killed(c)  PROVE GrantsAlone
    BY <2>5, KilledFrame
  <2>6. ASSUME NEW c \in Calls, GrantAsks(c)  PROVE GrantsAlone
    BY <2>6, Moves DEF GrantAsks, OnlyGrants, Typed, GrantsAlone, NoNewCall
  <2>7. ASSUME NEW a \in Aliases, Leave(a) \/ Dies(a) \/ Arm(a) \/ WindowPasses(a)
        PROVE  GrantsAlone
    BY <2>7, DeparturesFrame, WindowFrame
  <2>8. ASSUME NEW a \in Aliases, NEW b \in Aliases, Rename(a, b) \/ Assign(a, b)
        PROVE  GrantsAlone
    BY <2>8, DeparturesFrame, AssignFrame
  <2>9. ASSUME NEW i \in Ids, RevokePermit(i) \/ PermitExpires(i)  PROVE GrantsAlone
    BY <2>9 DEF RevokePermit, PermitExpires, OnlyPermits, GrantsAlone, NoNewCall
  <2>10. ASSUME NEW s \in Sessions, Fall(s)  PROVE GrantsAlone
    BY <2>10, FallFrame
  <2>11. CASE UNCHANGED vars
    BY <2>11, StutterFrame
  <2> QED
    BY <2>1, <2>2, <2>3, <2>4, <2>5, <2>6, <2>7, <2>8, <2>9, <2>10, <2>11 DEF Next, JoinStepOf
<1> QED
  BY <1>1, <1>2, <1>3, <1>4, <1>5

-----------------------------------------------------------------------------
(* Written. *)

SameWords == \A p \in Ids : permit[p].st # "none" =>
    permit'[p].st # "none" /\ permit'[p].by = permit[p].by /\ permit'[p].what = permit[p].what

NewUsesFit == \A x \in ghost'.asked \ ghost.asked : x \in Uses /\ PermitFits(x.p, x.by, x.u)

LEMMA PermitsQuiet ==
    ASSUME Typed, PermitsFit, SameWords, NoNewCall({"count"}), NewUsesFit
    PROVE  PermitsFit'
<1>1. \A c \in Calls : call[c].pc = "count" =>
          call[c].p \in Ids /\ call[c].by \in Aliases /\ call[c].u \in Asks
  BY DEF Typed, CallsTyped, CallFine
<1>2. \A x \in ghost.asked : x \in Uses
  BY DEF Typed, GhostTyped, Ghosts
<1>3. \A p \in Ids, by \in Aliases, u \in Asks : PermitFits(p, by, u) => PermitFits(p, by, u)'
  BY DEF SameWords, PermitFits
<1>4. ASSUME NEW c \in Calls, call'[c].pc = "count"
      PROVE  PermitFits(call[c].p, call[c].by, call[c].u)'
  <2>1. call'[c] = call[c]  BY <1>4 DEF NoNewCall
  <2>2. PICK p \in Ids, by \in Aliases, u \in Asks :
            call[c].p = p /\ call[c].by = by /\ call[c].u = u
    BY <1>1, <1>4, <2>1
  <2>3. PermitFits(p, by, u)  BY <1>4, <2>1, <2>2 DEF PermitsFit
  <2>4. PermitFits(p, by, u)'  BY <1>3, <2>3
  <2> QED  BY <2>1, <2>2, <2>4 DEF PermitFits
<1>5. ASSUME NEW x \in ghost'.asked  PROVE PermitFits(x.p, x.by, x.u)'
  <2>1. x \in Uses /\ PermitFits(x.p, x.by, x.u)  BY <1>2 DEF PermitsFit, NewUsesFit
  <2>2. x.p \in Ids /\ x.by \in Aliases /\ x.u \in Asks  BY <2>1 DEF Uses
  <2> QED  BY <1>3, <2>1, <2>2
<1> QED
  BY <1>4, <1>5 DEF PermitsFit

LEMMA UsePermitKeeps ==
    ASSUME Typed, PermitsFit, NEW c \in Calls, UsePermit(c)
    PROVE  PermitsFit'
<1>1. PICK a \in Aliases, u \in Asks, p \in Ids :
          /\ CoordinatorOf(a) # Nobody /\ Covers(p, CoordinatorOf(a), u)
          /\ Becomes(c, [pc |-> "count", p |-> p, by |-> CoordinatorOf(a), u |-> u])
  BY DEF UsePermit
<1>2. PICK by \in Aliases : by = CoordinatorOf(a)
  BY <1>1, CoordinatorIsAlias DEF Typed
<1>3. permit' = permit /\ ghost' = ghost  BY DEF UsePermit
<1>4. permit[p].st # "none"  BY <1>1 DEF Covers, PermitState, Typed, PermitsTyped, PermitFine, NoPermit
<1>5. PermitFits(p, by, u)  BY <1>1, <1>2, <1>4 DEF Covers, PermitFits
<1>6. call'[c] = [pc |-> "count", p |-> p, by |-> by, u |-> u]
      /\ \A d \in Calls \ {c} : call'[d] = call[d]
  BY <1>1, <1>2, Moves DEF Typed
<1>7. PermitFits(p, by, u)'  BY <1>3, <1>5 DEF PermitFits
<1>8. ASSUME NEW d \in Calls, call'[d].pc = "count"
      PROVE  PermitFits(call[d].p, call[d].by, call[d].u)'
  <2>1. CASE d = c
    <3>1. call'[d].p = p /\ call'[d].by = by /\ call'[d].u = u  BY <1>6, <2>1
    <3> QED  BY <1>7, <3>1 DEF PermitFits
  <2>2. CASE d # c
    <3>1. call'[d] = call[d] /\ PermitFits(call[d].p, call[d].by, call[d].u)
      BY <1>6, <1>8, <2>2 DEF PermitsFit
    <3> QED  BY <1>3, <3>1 DEF PermitFits
  <2> QED  BY <2>1, <2>2
<1>9. \A x \in ghost'.asked : PermitFits(x.p, x.by, x.u)'
  BY <1>3 DEF PermitsFit, PermitFits
<1> QED  BY <1>8, <1>9 DEF PermitsFit

LEMMA CountUseKeeps ==
    ASSUME Typed, PermitsFit, NEW c \in Calls, CountUse(c)
    PROVE  PermitsFit'
<1> DEFINE x == [p |-> call[c].p, by |-> call[c].by, u |-> call[c].u]
<1>1. call'[c] = Idle /\ \A d \in Calls \ {c} : call'[d] = call[d]
  BY Moves DEF CountUse, Returns, Typed
<1>2. NoNewCall({"count"})  BY <1>1 DEF NoNewCall, Idle
<1>3. SameWords  BY DEF CountUse, SameWords
<1>4. x \in Uses /\ PermitFits(x.p, x.by, x.u)
  BY DEF CountUse, Typed, CallsTyped, CallFine, Uses, PermitsFit
<1> HIDE DEF x
<1>5. ghost' = ghost \/ ghost' = [ghost EXCEPT !.asked = ghost.asked \cup {x}]
  BY DEF CountUse, x
<1>6. ghost'.asked \subseteq ghost.asked \cup {x}
  BY <1>5 DEF Typed, GhostTyped, Ghosts
<1>7. NewUsesFit  BY <1>4, <1>6 DEF NewUsesFit
<1> QED  BY <1>2, <1>3, <1>7, PermitsQuiet

LEMMA PermitsKept == ASSUME Typed, PermitsFit, [Next]_vars PROVE PermitsFit'
<1>1. CASE PermitsAlone
  BY <1>1, PermitsQuiet DEF PermitsAlone, SameWords, NewUsesFit
<1>2. ASSUME NEW c \in Calls, UsePermit(c) \/ CountUse(c)  PROVE PermitsFit'
  BY <1>2, UsePermitKeeps, CountUseKeeps
<1>3. ASSUME NEW c \in Calls, WritePermit(c)  PROVE PermitsFit'
  <2>1. SameWords
    BY <1>3 DEF WritePermit, Fresh, SameWords, Typed, PermitsTyped
  <2>2. call'[c] = Idle /\ \A d \in Calls \ {c} : call'[d] = call[d]
    BY <1>3, Moves DEF WritePermit, Returns, Typed
  <2>3. NoNewCall({"count"})  BY <2>2 DEF NoNewCall, Idle
  <2> QED  BY <1>3, <2>1, <2>3, PermitsQuiet DEF WritePermit, NewUsesFit
<1>4. ASSUME NEW p \in Ids, RevokePermit(p) \/ PermitExpires(p)  PROVE PermitsFit'
  <2>1. permit[p] \in Written
    BY <1>4 DEF RevokePermit, PermitExpires, Typed, PermitsTyped, PermitFine
  <2>2. SameWords
    <3>1. permit' = [permit EXCEPT ![p] = [permit[p] EXCEPT !.revoked = TRUE]]
          \/ permit' = [permit EXCEPT ![p] = [permit[p] EXCEPT !.st = "expired"]]
      BY <1>4 DEF RevokePermit, PermitExpires
    <3>2. /\ [permit[p] EXCEPT !.revoked = TRUE].by = permit[p].by
          /\ [permit[p] EXCEPT !.revoked = TRUE].what = permit[p].what
          /\ [permit[p] EXCEPT !.revoked = TRUE].st = permit[p].st
          /\ [permit[p] EXCEPT !.st = "expired"].by = permit[p].by
          /\ [permit[p] EXCEPT !.st = "expired"].what = permit[p].what
          /\ [permit[p] EXCEPT !.st = "expired"].st = "expired"
      BY <2>1 DEF Written
    <3>3. permit = [q \in Ids |-> permit[q]]  BY DEF Typed, PermitsTyped
    <3> QED  BY <3>1, <3>2, <3>3 DEF SameWords
  <2>3. UNCHANGED <<call, ghost>>  BY <1>4 DEF RevokePermit, PermitExpires
  <2> QED  BY <2>2, <2>3, PermitsQuiet DEF NoNewCall, NewUsesFit
<1>5. \/ PermitsAlone
      \/ \E c \in Calls : UsePermit(c) \/ CountUse(c) \/ WritePermit(c)
      \/ \E p \in Ids : RevokePermit(p) \/ PermitExpires(p)
  <2>1. ASSUME NEW c \in Calls, JoinStepOf(c)
        PROVE  PermitsAlone
    BY <2>1, JoinsFrame
  <2>2. ASSUME NEW c \in Calls, GrantAsks(c) \/ GrantConfirmed(c) \/ UseGrant(c) \/ TakeGrant(c)
        PROVE  PermitsAlone
    BY <2>2, GrantsFrame
  <2>3. ASSUME NEW c \in Calls, ClaimDenied(c) \/ TellDenied(c) \/ ReleaseDenied(c)
        PROVE  PermitsAlone
    BY <2>3, DenialsFrame
  <2>4. ASSUME NEW c \in Calls, Stop(c) \/ Report(c) \/ WriteMark(c)  PROVE PermitsAlone
    BY <2>4, FallbacksFrame
  <2>5. ASSUME NEW c \in Calls, Killed(c)  PROVE PermitsAlone
    BY <2>5, KilledFrame
  <2>6. ASSUME NEW c \in Calls, NewPermit(c)  PROVE PermitsAlone
    BY <2>6, Moves DEF NewPermit, OnlyPermits, Typed, PermitsAlone, NoNewCall
  <2>7. ASSUME NEW a \in Aliases, Leave(a) \/ Dies(a) \/ Arm(a) \/ WindowPasses(a)
        PROVE  PermitsAlone
    BY <2>7, DeparturesFrame, WindowFrame
  <2>8. ASSUME NEW a \in Aliases, NEW b \in Aliases, Rename(a, b) \/ Assign(a, b)
        PROVE  PermitsAlone
    BY <2>8, DeparturesFrame, AssignFrame
  <2>9. ASSUME NEW i \in Ids, RevokeGrant(i) \/ GrantExpires(i)  PROVE PermitsAlone
    BY <2>9 DEF RevokeGrant, GrantExpires, OnlyGrants, PermitsAlone, NoNewCall
  <2>10. ASSUME NEW s \in Sessions, Fall(s)  PROVE PermitsAlone
    BY <2>10, FallFrame
  <2>11. CASE UNCHANGED vars
    BY <2>11, StutterFrame
  <2> QED
    BY <2>1, <2>2, <2>3, <2>4, <2>5, <2>6, <2>7, <2>8, <2>9, <2>10, <2>11 DEF Next, JoinStepOf
<1> QED
  BY <1>1, <1>2, <1>3, <1>4, <1>5

LEMMA ActionsFinite == IsFiniteSet(Actions)
<1>1. IsFiniteSet({})  BY FS_EmptySet
<1>2. IsFiniteSet({} \cup {"push"})  BY <1>1, FS_AddElement, Zenon
<1>3. IsFiniteSet(({} \cup {"push"}) \cup {"merge"})  BY <1>2, FS_AddElement, Zenon
<1>4. IsFiniteSet((({} \cup {"push"}) \cup {"merge"}) \cup {"effort"})
  BY <1>3, FS_AddElement, Zenon
<1>5. Actions = (({} \cup {"push"}) \cup {"merge"}) \cup {"effort"}
  BY DEF Actions, RefActions, TargetActions
<1> QED  BY <1>4, <1>5

LEMMA OneAction ==
    ASSUME NEW S \in SUBSET Actions, Cardinality(S) = 1
    PROVE  \A x, y \in S : x = y
<1>1. IsFiniteSet(S)  BY ActionsFinite, FS_Subset
<1>2. PICK z : S = {z}  BY <1>1, FS_Singleton
<1> QED  BY <1>2

\* A permit for a merge names nothing but the merge and its target; a permit
\* for pushes has no target, and covers a default branch only by its name.
LEMMA WordsAllow ==
    ASSUME NEW w \in Grantable, NEW u \in Asks, u.action \in w.actions,
           IF w.target # "" THEN w.target = u.target ELSE u.branch \in w.ref.covers
    PROVE  /\ u.action \in TargetActions => w.actions = {u.action} /\ w.target = u.target
           /\ u.action \in RefActions =>
                 /\ u.branch \in w.ref.covers
                 /\ u.branch = "main" => w.ref.covers = {"main"}
<1>1. w \in Requests /\ FillPermitScope(w)  BY DEF Grantable
<1>2. w.actions \subseteq Actions /\ w.ref \in Refs  BY <1>1 DEF Requests
<1>3. CASE u.action \in TargetActions
  <2>1. u.action \in w.actions \cap TargetActions  BY <1>3
  <2>2. Cardinality(w.actions) = 1 /\ w.target # ""  BY <1>1, <2>1 DEF FillPermitScope
  <2>3. w.actions = {u.action}
    <3>1. \A x, y \in w.actions : x = y
      <4>1. w.actions \in SUBSET Actions  BY <1>2
      <4> QED  BY <2>2, <4>1, OneAction
    <3> QED  BY <2>1, <3>1
  <2>4. w.target = u.target  BY <2>2
  <2> QED  BY <1>3, <2>3, <2>4 DEF TargetActions, RefActions
<1>4. CASE u.action \in RefActions
  <2>1. w.actions \cap TargetActions = {}
    <3>1. SUFFICES ASSUME w.actions \cap TargetActions # {} PROVE FALSE
      OBVIOUS
    <3>2. Cardinality(w.actions) = 1  BY <1>1, <3>1 DEF FillPermitScope
    <3>3. "push" \in w.actions /\ "merge" \in w.actions
      BY <1>4, <3>1 DEF RefActions, TargetActions
    <3>4. "push" # "merge"  OBVIOUS
    <3> QED  BY <1>2, <3>2, <3>3, <3>4, OneAction
  <2>2. "effort" \notin w.actions  BY <1>1, <1>4, <2>1 DEF FillPermitScope, RefActions
  <2>3. w.target = "" /\ w.ref # NoRef /\ CheckRefPattern(w.ref)
    BY <1>1, <2>1, <2>2 DEF FillPermitScope
  <2>4. u.branch \in w.ref.covers  BY <2>3
  <2>5. ASSUME u.branch = "main"  PROVE w.ref.covers = {"main"}
    <3> DEFINE name == [covers |-> {"main"}, exact |-> TRUE]
               topics == [covers |-> {"topic"}, exact |-> FALSE]
               both == [covers |-> Branches, exact |-> FALSE]
    <3>1. w.ref \in {NoRef, name, topics, both}  BY <1>2 DEF Refs
    <3>2. w.ref # NoRef  BY <2>3
    <3>3. ~CheckRefPattern(both)  BY DEF CheckRefPattern, Branches
    <3>4. name.covers = {"main"} /\ topics.covers = {"topic"}  OBVIOUS
    <3> HIDE DEF name, topics, both
    <3>5. w.ref # topics
      <4>1. "main" \in w.ref.covers  BY <2>4, <2>5
      <4>2. "main" \notin topics.covers  BY <3>4
      <4> QED  BY <4>1, <4>2
    <3>6. w.ref # both  BY <2>3, <3>3
    <3>7. w.ref = name  BY <3>1, <3>2, <3>5, <3>6
    <3> QED  BY <3>4, <3>7
  <2> QED  BY <1>4, <2>4, <2>5 DEF RefActions, TargetActions
<1> QED  BY <1>3, <1>4 DEF Asks

LEMMA FitsAllows == Typed /\ PermitsFit => UseIsWithinItsWords
<1> SUFFICES ASSUME Typed, PermitsFit, NEW x \in ghost.asked
             PROVE  LET w == permit[x.p].what IN
                    /\ permit[x.p].by = x.by /\ NormalizeRepo[w.remote] = NormalizeRepo[x.u.remote]
                    /\ x.u.action \in TargetActions => w.actions = {x.u.action} /\ w.target = x.u.target
                    /\ x.u.action \in RefActions =>
                          /\ x.u.branch \in w.ref.covers
                          /\ x.u.branch = "main" => w.ref.covers = {"main"}
  BY DEF UseIsWithinItsWords
<1>1. x \in Uses /\ PermitFits(x.p, x.by, x.u)  BY DEF Typed, GhostTyped, Ghosts, PermitsFit
<1>2. x.p \in Ids /\ x.u \in Asks  BY <1>1 DEF Uses
<1>3. permit[x.p].what \in Grantable
  BY <1>1, <1>2 DEF PermitFits, Typed, PermitsTyped, PermitFine, Written
<1> QED  BY <1>1, <1>2, <1>3, WordsAllow DEF PermitFits

-----------------------------------------------------------------------------
(* Denials. *)

\* A call that still has to tell of a denial.
Tells(c, a, s) == call[c].pc \in {"tell", "release"} /\ call[c].a = a /\ call[c].s = s
Told(a) ==
    \/ <<a, denial[a].sid>> \in ghost.told
    \/ a \in ghost.cut
    \/ \E c \in Calls : Tells(c, a, denial[a].sid)

LEMMA ToldIs == DenialWasTold <=> \A a \in Aliases : denial[a].st = "fresh" => Told(a)
BY DEF DenialWasTold, Told, Tells

LEMMA ToldThen == (\A a \in Aliases : denial'[a].st = "fresh" => Told(a)') => DenialWasTold'
BY DEF DenialWasTold, Told, Tells

LEMMA DenialsQuiet ==
    ASSUME DenialWasTold, DenialsAlone
    PROVE  DenialWasTold'
<1> SUFFICES ASSUME NEW a \in Aliases, denial'[a].st = "fresh"
             PROVE  Told(a)'
  BY ToldThen
<1>1. denial' = denial /\ ghost'.told = ghost.told /\ ghost'.cut = ghost.cut  BY DEF DenialsAlone
<1>2. Told(a)  BY <1>1, ToldIs
<1>3. ASSUME NEW c \in Calls, Tells(c, a, denial[a].sid)  PROVE Tells(c, a, denial[a].sid)'
  BY <1>1, <1>3 DEF DenialsAlone, SameCalls, Tells
<1> QED  BY <1>1, <1>2, <1>3 DEF Told

LEMMA ClaimDeniedKeeps ==
    ASSUME Typed, DenialWasTold, NEW c \in Calls, ClaimDenied(c)
    PROVE  DenialWasTold'
<1>1. PICK a \in Aliases :
          \/ UNCHANGED <<denial, ghost>> /\ (UNCHANGED call \/ Telling(c, a, seat[a].sid))
          \/ /\ denial' = [denial EXCEPT ![a] = [sid |-> seat[a].sid, st |-> "fresh"]]
             /\ Telling(c, a, seat[a].sid)
             /\ ghost' = [ghost EXCEPT !.told = @ \ {<<a, seat[a].sid>>}, !.cut = @ \ {a}]
  BY DEF ClaimDenied
<1>2. call[c].pc = "idle"
  <2>1. call[c] = Idle  BY Zenon DEF ClaimDenied
  <2> QED  BY <2>1 DEF Idle
<1>3. \A d \in Calls \ {c} : call'[d] = call[d]  BY <1>1, Moves DEF Telling, Typed
<1>4. ASSUME NEW b \in Aliases, NEW s, NEW d \in Calls, Tells(d, b, s)
      PROVE  call'[d] = call[d]
  BY <1>2, <1>3, <1>4 DEF Tells
<1>5. CASE UNCHANGED <<denial, ghost>>
  <2> SUFFICES ASSUME NEW b \in Aliases, denial'[b].st = "fresh"
               PROVE  Told(b)'
    BY ToldThen
  <2>1. Told(b)  BY <1>5, ToldIs
  <2>2. ASSUME NEW d \in Calls, Tells(d, b, denial[b].sid)  PROVE Tells(d, b, denial[b].sid)'
    BY <1>4, <1>5, <2>2 DEF Tells
  <2> QED  BY <1>5, <2>1, <2>2 DEF Told
<1>6. CASE /\ denial' = [denial EXCEPT ![a] = [sid |-> seat[a].sid, st |-> "fresh"]]
           /\ Telling(c, a, seat[a].sid)
           /\ ghost' = [ghost EXCEPT !.told = @ \ {<<a, seat[a].sid>>}, !.cut = @ \ {a}]
  <2> SUFFICES ASSUME NEW b \in Aliases, denial'[b].st = "fresh"
               PROVE  Told(b)'
    BY ToldThen
  <2>1. CASE b = a
    <3>1. denial'[a].sid = seat[a].sid  BY <1>6 DEF Typed, DenialsTyped
    <3>2. call'[c] = [pc |-> "tell", a |-> a, s |-> seat[a].sid, to |-> CoordinatorOf(a)]
      BY <1>6, Moves DEF Telling, Typed
    <3>3. Tells(c, b, denial[b].sid)'  BY <2>1, <3>1, <3>2 DEF Tells
    <3> QED  BY <3>3 DEF Told
  <2>2. CASE b # a
    <3>1. denial'[b] = denial[b]  BY <1>6, <2>2 DEF Typed, DenialsTyped
    <3>2. Told(b)  BY <3>1, ToldIs
    <3>3. /\ ghost'.told = ghost.told \ {<<a, seat[a].sid>>}
          /\ ghost'.cut = ghost.cut \ {a}
      BY <1>6 DEF Typed, GhostTyped, Ghosts
    <3>4. ASSUME NEW d \in Calls, Tells(d, b, denial[b].sid)  PROVE Tells(d, b, denial[b].sid)'
      BY <1>4, <3>1, <3>4 DEF Tells
    <3> QED  BY <2>2, <3>1, <3>2, <3>3, <3>4 DEF Told
  <2> QED  BY <2>1, <2>2
<1> QED  BY <1>1, <1>5, <1>6

\* The step of a call that ends or goes on, when what it had to tell is told,
\* given up with its entry, cut short, or still to be told.
LEMMA TellingMoves ==
    ASSUME Typed, DenialWasTold, NEW c \in Calls,
           \A d \in Calls \ {c} : call'[d] = call[d],
           \A b \in Aliases : denial'[b].st = "fresh" => denial'[b] = denial[b],
           ghost.told \subseteq ghost'.told, ghost.cut \subseteq ghost'.cut,
           \A b \in Aliases : denial'[b].st = "fresh" /\ Tells(c, b, denial[b].sid) => Told(b)'
    PROVE  DenialWasTold'
<1> SUFFICES ASSUME NEW b \in Aliases, denial'[b].st = "fresh"
             PROVE  Told(b)'
  BY ToldThen
<1>1. denial'[b] = denial[b] /\ Told(b)  BY ToldIs
<1>2. ASSUME NEW d \in Calls \ {c}, Tells(d, b, denial[b].sid)  PROVE Tells(d, b, denial[b].sid)'
  BY <1>1, <1>2 DEF Tells
<1> QED  BY <1>1, <1>2 DEF Told

LEMMA TellDeniedKeeps ==
    ASSUME Typed, DenialWasTold, NEW c \in Calls, TellDenied(c)
    PROVE  DenialWasTold'
<1>1. denial' = denial  BY DEF TellDenied
<1>2. CASE /\ Becomes(c, [pc |-> "release", a |-> call[c].a, s |-> call[c].s])
           /\ UNCHANGED ghost
  <2>1. call'[c] = [pc |-> "release", a |-> call[c].a, s |-> call[c].s]
        /\ \A d \in Calls \ {c} : call'[d] = call[d]
    BY <1>2, Moves DEF Typed
  <2>2. ASSUME NEW b \in Aliases, Tells(c, b, denial[b].sid)  PROVE Told(b)'
    <3>1. Tells(c, b, denial[b].sid)'  BY <1>1, <2>1, <2>2 DEF Tells
    <3> QED  BY <3>1 DEF Told
  <2> QED  BY <1>1, <1>2, <2>1, <2>2, TellingMoves
<1>3. CASE /\ Returns(c)
           /\ ghost' = [ghost EXCEPT !.told = @ \cup {<<call[c].a, call[c].s>>}]
  <2>1. call'[c] = Idle /\ \A d \in Calls \ {c} : call'[d] = call[d]
    BY <1>3, Moves DEF Returns, Typed
  <2>2. ghost'.told = ghost.told \cup {<<call[c].a, call[c].s>>} /\ ghost'.cut = ghost.cut
    BY <1>3 DEF Typed, GhostTyped, Ghosts
  <2>3. ASSUME NEW b \in Aliases, Tells(c, b, denial[b].sid)  PROVE Told(b)'
    BY <1>1, <2>2, <2>3 DEF Told, Tells
  <2> QED  BY <1>1, <2>1, <2>2, <2>3, TellingMoves
<1> QED  BY <1>2, <1>3 DEF TellDenied

LEMMA ReleaseDeniedKeeps ==
    ASSUME Typed, DenialWasTold, NEW c \in Calls, ReleaseDenied(c)
    PROVE  DenialWasTold'
<1> DEFINE a == call[c].a
<1>1. call'[c] = Idle /\ \A d \in Calls \ {c} : call'[d] = call[d]
  BY Moves DEF ReleaseDenied, Returns, Typed
<1>2. CASE denial' = [denial EXCEPT ![a] = NoDenial] /\ UNCHANGED ghost
  <2>1. \A b \in Aliases : denial'[b].st = "fresh" => b # a /\ denial'[b] = denial[b]
    BY <1>2 DEF Typed, DenialsTyped, NoDenial
  <2> QED  BY <1>1, <1>2, <2>1, TellingMoves DEF Tells
<1>3. CASE ghost' = [ghost EXCEPT !.cut = @ \cup {a}] /\ UNCHANGED denial
  <2>1. ghost'.told = ghost.told /\ ghost'.cut = ghost.cut \cup {a}
    BY <1>3 DEF Typed, GhostTyped, Ghosts
  <2>2. ASSUME NEW b \in Aliases, Tells(c, b, denial[b].sid)  PROVE Told(b)'
    BY <2>1, <2>2 DEF Told, Tells
  <2> QED  BY <1>1, <1>3, <2>1, <2>2, TellingMoves
<1> QED  BY <1>2, <1>3 DEF ReleaseDenied

LEMMA KilledTells ==
    ASSUME Typed, DenialWasTold, NEW c \in Calls, Killed(c)
    PROVE  DenialWasTold'
<1>1. call'[c] = Idle /\ \A d \in Calls \ {c} : call'[d] = call[d]
  BY Moves DEF Killed, Returns, Typed
<1>2. denial' = denial  BY DEF Killed, OnlyRuns
<1>3. /\ ghost'.told = ghost.told /\ ghost.cut \subseteq ghost'.cut
      /\ call[c].pc \in {"tell", "release"} => call[c].a \in ghost'.cut
  BY KilledLeaves, EntryCut, EventLost DEF Typed, Joining
<1>4. ASSUME NEW b \in Aliases, Tells(c, b, denial[b].sid)  PROVE Told(b)'
  BY <1>3, <1>4 DEF Told, Tells
<1> QED  BY <1>1, <1>2, <1>3, <1>4, TellingMoves

LEMMA DenialsKept == ASSUME Typed, DenialWasTold, [Next]_vars PROVE DenialWasTold'
<1>1. CASE DenialsAlone
  BY <1>1, DenialsQuiet
<1>2. ASSUME NEW c \in Calls, ClaimDenied(c) \/ TellDenied(c) \/ ReleaseDenied(c) \/ Killed(c)
      PROVE  DenialWasTold'
  BY <1>2, ClaimDeniedKeeps, TellDeniedKeeps, ReleaseDeniedKeeps, KilledTells
<1>3. ASSUME NEW a \in Aliases, WindowPasses(a)  PROVE DenialWasTold'
  <2> SUFFICES ASSUME NEW b \in Aliases, denial'[b].st = "fresh"
               PROVE  Told(b)'
    BY ToldThen
  <2>1. denial'[b] = denial[b] /\ UNCHANGED <<call, ghost>>
    BY <1>3 DEF WindowPasses, Typed, DenialsTyped, NoDenial
  <2>2. Told(b)  BY <2>1, ToldIs
  <2> QED  BY <2>1, <2>2 DEF Told, Tells
<1>4. \/ DenialsAlone
      \/ \E c \in Calls : ClaimDenied(c) \/ TellDenied(c) \/ ReleaseDenied(c) \/ Killed(c)
      \/ \E a \in Aliases : WindowPasses(a)
  <2>1. ASSUME NEW c \in Calls, JoinStepOf(c)
        PROVE  DenialsAlone
    BY <2>1, JoinsFrame
  <2>2. ASSUME NEW c \in Calls, GrantAsks(c) \/ GrantConfirmed(c) \/ UseGrant(c) \/ TakeGrant(c)
        PROVE  DenialsAlone
    BY <2>2, GrantsFrame
  <2>3. ASSUME NEW c \in Calls, NewPermit(c) \/ WritePermit(c) \/ UsePermit(c) \/ CountUse(c)
        PROVE  DenialsAlone
    BY <2>3, PermitsFrame
  <2>4. ASSUME NEW c \in Calls, Stop(c) \/ Report(c) \/ WriteMark(c)  PROVE DenialsAlone
    BY <2>4, FallbacksFrame
  <2>5. ASSUME NEW a \in Aliases, Leave(a) \/ Dies(a) \/ Arm(a)  PROVE DenialsAlone
    BY <2>5, DeparturesFrame
  <2>6. ASSUME NEW a \in Aliases, NEW b \in Aliases, Rename(a, b) \/ Assign(a, b)
        PROVE  DenialsAlone
    BY <2>6, DeparturesFrame, AssignFrame
  <2>7. ASSUME NEW i \in Ids, RevokeGrant(i) \/ GrantExpires(i) \/ RevokePermit(i) \/ PermitExpires(i)
        PROVE  DenialsAlone
    BY <2>7, EndsFrame
  <2>8. ASSUME NEW s \in Sessions, Fall(s)  PROVE DenialsAlone
    BY <2>8, FallFrame
  <2>9. CASE UNCHANGED vars
    BY <2>9, StutterFrame
  <2> QED
    BY <2>1, <2>2, <2>3, <2>4, <2>5, <2>6, <2>7, <2>8, <2>9 DEF Next, JoinStepOf
<1> QED
  BY <1>1, <1>2, <1>3, <1>4

-----------------------------------------------------------------------------
(* Fallbacks. *)

ToldUpTo(s, n) == \A i \in 1 .. n : <<s, i>> \in ghost.reported

LEMMA MarksAre == /\ FallbackWasTold <=> \A a \in Aliases : ToldUpTo(mark[a].sid, mark[a].off)
                  /\ ReportsTold <=> \A c \in Calls : call[c].pc \in {"report", "mark"} =>
                                        ToldUpTo(call[c].s, call[c].next)
BY DEF FallbackWasTold, ReportsTold, ToldUpTo

LEMMA MarksThen ==
    /\ (\A a \in Aliases : ToldUpTo(mark[a].sid, mark[a].off)') => FallbackWasTold'
    /\ (\A c \in Calls : call'[c].pc \in {"report", "mark"} => ToldUpTo(call[c].s, call[c].next)')
          => ReportsTold'
BY DEF FallbackWasTold, ReportsTold, ToldUpTo

\* What was told stays told.
LEMMA ToldStays ==
    ASSUME ghost.reported \subseteq ghost'.reported, NEW s, NEW n, ToldUpTo(s, n)
    PROVE  ToldUpTo(s, n)'
BY DEF ToldUpTo

LEMMA MarksStay ==
    ASSUME FallbackWasTold, mark' = mark, ghost.reported \subseteq ghost'.reported
    PROVE  FallbackWasTold'
BY DEF FallbackWasTold

LEMMA ReportsStay ==
    ASSUME ReportsTold, NoNewCall({"report", "mark"}), ghost.reported \subseteq ghost'.reported
    PROVE  ReportsTold'
BY DEF ReportsTold, NoNewCall

LEMMA RenameMarks ==
    ASSUME Typed, FallbackWasTold, ReportsTold,
           NEW a \in Aliases, NEW b \in Aliases, Rename(a, b)
    PROVE  FallbackWasTold' /\ ReportsTold'
<1>1. mark' = [mark EXCEPT ![a] = NoMark, ![b] = mark[a]] /\ UNCHANGED call
      /\ ghost'.reported = ghost.reported
  BY StirsNotes DEF Rename, Typed
<1>2. ReportsTold'  BY <1>1 DEF ReportsTold
<1>3. \A x \in Aliases : mark'[x] = mark[x] \/ mark'[x] = mark[a] \/ mark'[x].off = 0
  BY <1>1 DEF Typed, MarksTyped, NoMark
<1>4. FallbackWasTold'
  BY <1>1, <1>3 DEF FallbackWasTold
<1> QED  BY <1>2, <1>4

LEMMA StopMarks ==
    ASSUME Typed, FallbackWasTold, ReportsTold, NEW c \in Calls, Stop(c)
    PROVE  FallbackWasTold' /\ ReportsTold'
<1>1. PICK a \in Aliases, from \in Nat :
          /\ from = IF mark[a].sid = seat[a].sid THEN mark[a].off ELSE 0
          /\ Becomes(c, [pc |-> "report", a |-> a, s |-> seat[a].sid, to |-> RegressionRecipient(a),
                         from |-> from, next |-> from, end |-> rows[seat[a].sid]])
  BY DEF Stop, Typed, MarksTyped
<1>2. UNCHANGED <<mark, ghost>>  BY DEF Stop
<1>3. \A i \in 1 .. from : <<seat[a].sid, i>> \in ghost.reported
  BY <1>1 DEF FallbackWasTold
<1>4. /\ call'[c].s = seat[a].sid /\ call'[c].next = from
      /\ \A d \in Calls \ {c} : call'[d] = call[d]
  BY <1>1, Moves DEF Typed
<1>5. ReportsTold'  BY <1>2, <1>3, <1>4 DEF ReportsTold
<1>6. FallbackWasTold'  BY <1>2 DEF FallbackWasTold
<1> QED  BY <1>5, <1>6

LEMMA ReportMarks ==
    ASSUME Typed, FallbackWasTold, ReportsTold, NEW c \in Calls, Report(c)
    PROVE  FallbackWasTold' /\ ReportsTold'
<1> DEFINE s == call[c].s
           n0 == call[c].next
<1>1. /\ call[c].pc = "report" /\ n0 \in Nat
      /\ {"pc", "a", "s", "to", "from", "next", "end"} \subseteq DOMAIN call[c]
  BY DEF Report, Typed, CallsTyped, CallFine
<1>2. mark' = mark  BY DEF Report
<1>3. PICK n \in {n0, n0 + 1} :
          /\ call'[c].s = s /\ call'[c].next = n
          /\ \A d \in Calls \ {c} : call'[d] = call[d]
          /\ ghost.reported \subseteq ghost'.reported
          /\ n = n0 + 1 => <<s, n>> \in ghost'.reported
  <2>1. ASSUME NEW n, NEW last, Reached(c, n, last)
        PROVE  /\ call'[c].s = s /\ call'[c].next = n
               /\ \A d \in Calls \ {c} : call'[d] = call[d]
    <3> DEFINE f == [call[c] EXCEPT !.next = n, !.pc = IF last \/ n = call[c].end THEN "mark" ELSE @]
    <3>1. f.s = s /\ f.next = n  BY <1>1
    <3>2. Becomes(c, f)  BY <2>1 DEF Reached
    <3> HIDE DEF f
    <3>3. call'[c] = f /\ \A d \in Calls \ {c} : call'[d] = call[d]  BY <3>2, Moves DEF Typed
    <3> QED  BY <3>1, <3>3
  <2>2. CASE Reached(c, n0, TRUE) /\ UNCHANGED ghost
    <3>1. call'[c].s = s /\ call'[c].next = n0 /\ \A d \in Calls \ {c} : call'[d] = call[d]
      BY <2>1, <2>2
    <3>2. n0 # n0 + 1 /\ ghost.reported \subseteq ghost'.reported  BY <1>1, <2>2
    <3> QED  BY <3>1, <3>2
  <2>3. CASE /\ Reached(c, n0 + 1, FALSE)
             /\ ghost' = [ghost EXCEPT !.reported = @ \cup {<<s, n0 + 1>>}]
    <3>1. ghost'.reported = ghost.reported \cup {<<s, n0 + 1>>}
      BY <2>3 DEF Typed, GhostTyped, Ghosts
    <3>2. call'[c].s = s /\ call'[c].next = n0 + 1 /\ \A d \in Calls \ {c} : call'[d] = call[d]
      BY <2>1, <2>3
    <3>3. ghost.reported \subseteq ghost'.reported /\ <<s, n0 + 1>> \in ghost'.reported  BY <3>1
    <3> HIDE DEF s, n0
    <3> QED  BY <3>2, <3>3
  <2>4. \/ Reached(c, n0, TRUE) /\ UNCHANGED ghost
        \/ /\ Reached(c, n0 + 1, FALSE)
           /\ ghost' = [ghost EXCEPT !.reported = @ \cup {<<s, n0 + 1>>}]
    BY Zenon DEF Report
  <2> QED  BY <2>2, <2>3, <2>4
<1>4. \A i \in 1 .. n : <<s, i>> \in ghost'.reported
  <2>1. \A i \in 1 .. n0 : <<s, i>> \in ghost.reported  BY <1>1 DEF ReportsTold
  <2> QED  BY <1>1, <1>3, <2>1
<1>5. FallbackWasTold'  BY <1>2, <1>3, MarksStay
<1>6. ReportsTold'  BY <1>3, <1>4 DEF ReportsTold
<1> QED  BY <1>5, <1>6

LEMMA WriteMarkMarks ==
    ASSUME Typed, FallbackWasTold, ReportsTold, NEW c \in Calls, WriteMark(c)
    PROVE  FallbackWasTold' /\ ReportsTold'
<1> DEFINE a == call[c].a
<1>1. call[c].pc = "mark" /\ a \in Aliases  BY DEF WriteMark, Typed, CallsTyped, CallFine
<1>2. ghost' = ghost  BY DEF WriteMark
<1>3. call'[c] = Idle /\ \A d \in Calls \ {c} : call'[d] = call[d]
  BY Moves DEF WriteMark, Returns, Typed
<1>4. ReportsTold'  BY <1>2, <1>3, ReportsStay DEF NoNewCall, Idle
<1>5. mark' = mark \/ mark' = [mark EXCEPT ![a] = [sid |-> call[c].s, off |-> call[c].next]]
  BY DEF WriteMark
<1>6. ToldUpTo(call[c].s, call[c].next)  BY <1>1, MarksAre
<1>7. FallbackWasTold'
  BY <1>2, <1>5, <1>6 DEF FallbackWasTold, ToldUpTo, Typed, MarksTyped
<1> QED  BY <1>4, <1>7

LEMMA MarksKept ==
    ASSUME Typed, FallbackWasTold, ReportsTold, [Next]_vars
    PROVE  FallbackWasTold' /\ ReportsTold'
<1>1. CASE MarksAlone
  BY <1>1, MarksStay, ReportsStay DEF MarksAlone
<1>2. ASSUME NEW c \in Calls, Stop(c) \/ Report(c) \/ WriteMark(c)
      PROVE  FallbackWasTold' /\ ReportsTold'
  BY <1>2, StopMarks, ReportMarks, WriteMarkMarks
<1>3. ASSUME NEW a \in Aliases, NEW b \in Aliases, Rename(a, b)
      PROVE  FallbackWasTold' /\ ReportsTold'
  BY <1>3, RenameMarks
<1>4. \/ MarksAlone
      \/ \E c \in Calls : Stop(c) \/ Report(c) \/ WriteMark(c)
      \/ \E a, b \in Aliases : Rename(a, b)
  <2>1. ASSUME NEW c \in Calls, JoinStepOf(c)
        PROVE  MarksAlone
    BY <2>1, JoinsFrame
  <2>2. ASSUME NEW c \in Calls, GrantAsks(c) \/ GrantConfirmed(c) \/ UseGrant(c) \/ TakeGrant(c)
        PROVE  MarksAlone
    BY <2>2, GrantsFrame
  <2>3. ASSUME NEW c \in Calls, NewPermit(c) \/ WritePermit(c) \/ UsePermit(c) \/ CountUse(c)
        PROVE  MarksAlone
    BY <2>3, PermitsFrame
  <2>4. ASSUME NEW c \in Calls, ClaimDenied(c) \/ TellDenied(c) \/ ReleaseDenied(c)
        PROVE  MarksAlone
    BY <2>4, DenialsFrame
  <2>5. ASSUME NEW c \in Calls, Killed(c)  PROVE MarksAlone
    BY <2>5, KilledFrame
  <2>6. ASSUME NEW a \in Aliases, Leave(a) \/ Dies(a) \/ Arm(a) \/ WindowPasses(a)
        PROVE  MarksAlone
    <3>1. CASE WindowPasses(a)  BY <3>1, WindowFrame
    <3>2. CASE Leave(a) \/ Dies(a) \/ Arm(a)
      <4>1. CASE Leave(a) \/ Dies(a)
        BY <4>1, StirsNotes DEF Leave, Dies, MarksAlone, NoNewCall, Typed
      <4>2. CASE Arm(a)
        BY <4>2 DEF Arm, MarksAlone, NoNewCall, Typed, GhostTyped, Ghosts
      <4> QED  BY <3>2, <4>1, <4>2
    <3> QED  BY <2>6, <3>1, <3>2
  <2>7. ASSUME NEW a \in Aliases, NEW b \in Aliases, Assign(a, b)  PROVE MarksAlone
    BY <2>7, AssignFrame
  <2>8. ASSUME NEW i \in Ids, RevokeGrant(i) \/ GrantExpires(i) \/ RevokePermit(i) \/ PermitExpires(i)
        PROVE  MarksAlone
    BY <2>8, EndsFrame
  <2>9. ASSUME NEW s \in Sessions, Fall(s)  PROVE MarksAlone
    BY <2>9, FallFrame
  <2>10. CASE UNCHANGED vars
    BY <2>10, StutterFrame
  <2> QED
    BY <2>1, <2>2, <2>3, <2>4, <2>5, <2>6, <2>7, <2>8, <2>9, <2>10 DEF Next, JoinStepOf
<1> QED
  BY <1>1, <1>2, <1>3, <1>4

-----------------------------------------------------------------------------
(* Runs. *)

RunsFit == LocksHold /\ PresentAccounted /\ LeaveNamesItsRun /\ OneMint /\ Together /\ LookSees

LostStays   == ghost.lost \subseteq ghost'.lost
SeatKept(a) == /\ seat'[a].sid = seat[a].sid /\ run'[a] = run[a]
               /\ seat[a].st # "free" => seat'[a].st # "free"

LEMMA LocksStay ==
    ASSUME Typed, LocksHold, NoNewCall(Joining),
           \A a \in Aliases : Locked(a) => SeatKept(a)
    PROVE  LocksHold'
<1>1. \A c, d \in Calls :
          (call'[c].pc \in Joining /\ call'[d].pc \in Joining /\ call'[c].a = call'[d].a) => c = d
  BY DEF LocksHold, NoNewCall
<1>2. ASSUME NEW c \in Calls, call'[c].pc \in Joining
      PROVE  /\ seat'[call'[c].a].sid = call'[c].s /\ seat'[call'[c].a].st # "free"
             /\ run'[call'[c].a] = IF call'[c].pc = "record" THEN call'[c].run ELSE 0
  <2>1. call'[c] = call[c]  BY <1>2 DEF NoNewCall
  <2>2. call[c].a \in Aliases  BY <1>2, <2>1, JoiningFine DEF Typed
  <2>3. Locked(call[c].a)  BY <1>2, <2>1 DEF Locked
  <2>4. SeatKept(call[c].a)  BY <2>2, <2>3
  <2> QED  BY <1>2, <2>1, <2>4 DEF LocksHold, SeatKept, Present
<1> QED  BY <1>1, <1>2 DEF LocksHold, Present, Joining

\* A call that holds its lock goes on in the same seat.
LEMMA LocksMove ==
    ASSUME Typed, LocksHold, NEW c \in Calls, call[c].pc \in Joining, seat' = seat,
           call'[c].a = call[c].a, call'[c].s = call[c].s,
           \A d \in Calls \ {c} : call'[d] = call[d],
           \A a \in Aliases \ {call[c].a} : run'[a] = run[a],
           run'[call[c].a] = IF call'[c].pc = "record" THEN call'[c].run ELSE 0
    PROVE  LocksHold'
<1>1. \A d \in Calls : call'[d].pc \in Joining => call[d].pc \in Joining /\ call'[d].a = call[d].a
  OBVIOUS
<1>2. \A d, e \in Calls :
          (call'[d].pc \in Joining /\ call'[e].pc \in Joining /\ call'[d].a = call'[e].a) => d = e
  BY <1>1 DEF LocksHold
<1>3. ASSUME NEW d \in Calls, call'[d].pc \in Joining
      PROVE  /\ seat'[call'[d].a].sid = call'[d].s /\ seat'[call'[d].a].st # "free"
             /\ run'[call'[d].a] = IF call'[d].pc = "record" THEN call'[d].run ELSE 0
  <2>1. CASE d = c  BY <2>1 DEF LocksHold, Present
  <2>2. CASE d # c
    <3>1. call'[d] = call[d]  BY <2>2
    <3>2. call[d].a \in Aliases \ {call[c].a}
      BY <1>3, <2>2, <3>1, JoiningFine DEF LocksHold, Typed
    <3> QED  BY <1>3, <3>1, <3>2 DEF LocksHold, Present
  <2> QED  BY <2>1, <2>2
<1> QED  BY <1>2, <1>3 DEF LocksHold, Present, Joining

LEMMA AccountsStay ==
    ASSUME Typed, PresentAccounted, ledger \subseteq ledger', LostStays,
           \A b \in Aliases : Present(b)' =>
               \/ Accounted(b)'
               \/ \E a \in Aliases : /\ Present(a) /\ (Locked(a) => Locked(b)')
                                     /\ seat'[b].sid = seat[a].sid /\ run'[b] = run[a]
    PROVE  PresentAccounted'
<1>1. ASSUME NEW b \in Aliases, Present(b)'  PROVE Accounted(b)'
  <2>1. CASE \E a \in Aliases : /\ Present(a) /\ (Locked(a) => Locked(b)')
                                /\ seat'[b].sid = seat[a].sid /\ run'[b] = run[a]
    <3>1. PICK a \in Aliases : /\ Present(a) /\ (Locked(a) => Locked(b)')
                               /\ seat'[b].sid = seat[a].sid /\ run'[b] = run[a]
      BY <2>1
    <3>2. Accounted(a)  BY <3>1 DEF PresentAccounted
    <3>3. JoinEvent(seat[b].sid, run[b])' = JoinEvent(seat[a].sid, run[a])  BY <3>1 DEF JoinEvent
    <3>4. CASE Locked(a)  BY <3>1, <3>4 DEF Accounted
    <3>5. CASE JoinEvent(seat[a].sid, run[a]) \in ledger \cup ghost.lost
      BY <3>3, <3>5 DEF Accounted, LostStays
    <3> QED  BY <3>2, <3>4, <3>5 DEF Accounted
  <2> QED  BY <1>1, <2>1
<1> QED  BY <1>1 DEF PresentAccounted

LEMMA LeavesStay ==
    ASSUME LeaveNamesItsRun, ledger \subseteq ledger', LostStays,
           \A e \in ledger' \ ledger : e.event = "leave" =>
               [e EXCEPT !.event = "join"] \in ledger \cup ghost.lost
    PROVE  LeaveNamesItsRun'
BY DEF LeaveNamesItsRun, LostStays

LEMMA MintStays ==
    ASSUME OneMint, \A d \in Calls : Minting(d)' => Minting(d)
    PROVE  OneMint'
BY DEF OneMint

OwnCommit(c) == call[c].pc = "commit" /\ call[c].own

\* Who lives in a run lived in it before, if in another seat.
LEMMA TogetherStays ==
    ASSUME Typed, LocksHold, Together, ghost.apart => ghost'.apart,
           \A d \in Calls : OwnCommit(d)' => call'[d] = call[d],
           \A b \in Aliases : (Live(b)' /\ run'[b] # 0) =>
               \E a \in Aliases : Live(a) /\ run[a] = run'[b]
    PROVE  Together'
<1> SUFFICES ASSUME ~ghost'.apart
             PROVE  /\ \A a, b \in Aliases :
                          (Live(a)' /\ Live(b)' /\ run'[a] # 0 /\ run'[b] # 0) => run'[a] = run'[b]
                    /\ \A c \in Calls : OwnCommit(c)' =>
                          \A b \in Aliases \ {call'[c].a} : (Live(b)' /\ run'[b] # 0) => run'[b] = call'[c].run
  BY DEF Together, OwnCommit, Live
<1>1. ~ghost.apart  OBVIOUS
<1>2. \A a, b \in Aliases :
          (Live(a)' /\ Live(b)' /\ run'[a] # 0 /\ run'[b] # 0) => run'[a] = run'[b]
  BY <1>1 DEF Together
<1>3. ASSUME NEW c \in Calls, OwnCommit(c)', NEW b \in Aliases \ {call'[c].a}, Live(b)', run'[b] # 0
      PROVE  run'[b] = call'[c].run
  <2>1. call'[c] = call[c]  BY <1>3
  <2>2. OwnCommit(c) /\ call[c].a # b  BY <1>3, <2>1 DEF OwnCommit
  <2>3. PICK a \in Aliases : Live(a) /\ run[a] = run'[b]  BY <1>3
  <2>4. run[call[c].a] = 0  BY <2>2 DEF OwnCommit, LocksHold, Joining
  <2>5. a # call[c].a  BY <1>3, <2>3, <2>4
  <2> QED  BY <1>1, <1>3, <2>1, <2>2, <2>3, <2>5 DEF Together, OwnCommit
<1> QED  BY <1>2, <1>3

\* A look goes on while those it saw, or will see, stay where they are.
LEMMA LookStays ==
    ASSUME Typed, LocksHold, LookSees,
           ghost.apart => ghost'.apart, ghost.stirred => ghost'.stirred,
           \A d \in Calls : (call'[d].pc = "minting" /\ call'[d].listed) => call'[d] = call[d],
           \A b \in Aliases : (Live(b) /\ run[b] # 0) => Live(b)' /\ run'[b] = run[b],
           ~ghost'.apart => \A b \in Aliases : (Live(b)' /\ run'[b] # 0) =>
               \E a \in Aliases : Live(a) /\ run[a] = run'[b]
    PROVE  LookSees'
<1> SUFFICES ASSUME ~ghost'.apart, ~ghost'.stirred, NEW c \in Calls,
                    call'[c].pc = "minting", call'[c].listed,
                    NEW b \in Aliases \ {call'[c].a}, Live(b)', run'[b] # 0
             PROVE  Seen(c, run[b])'
  BY DEF LookSees
<1>1. call'[c] = call[c]  OBVIOUS
<1>2. PICK a \in Aliases : Live(a) /\ run[a] = run'[b]  OBVIOUS
<1>3. run[call[c].a] = 0  BY <1>1 DEF LocksHold, Joining
<1>4. a # call[c].a  BY <1>2, <1>3
<1>5. Seen(c, run[a])  BY <1>1, <1>2, <1>4 DEF LookSees
<1>6. CASE run[a] \in call[c].ids  BY <1>1, <1>2, <1>6 DEF Seen
<1>7. CASE \E d \in call[c].todo \cup {call[c].at} : d \in Aliases /\ Live(d) /\ run[d] = run[a]
  <2>1. PICK d \in call[c].todo \cup {call[c].at} : d \in Aliases /\ Live(d) /\ run[d] = run[a]
    BY <1>7
  <2>2. Live(d)' /\ run'[d] = run'[b]  BY <1>2, <2>1
  <2> QED  BY <1>1, <2>1, <2>2 DEF Seen
<1> QED  BY <1>5, <1>6, <1>7 DEF Seen

\* A stir that a look could miss is noted.
LEMMA StirsLook ==
    ASSUME Typed, ghost' = Stirs,
           \A d \in Calls : (call'[d].pc = "minting" /\ call'[d].listed) => call'[d] = call[d]
    PROVE  LookSees'
<1>1. CASE \E d \in Calls : call[d].pc = "minting"
  <2>1. ghost'.stirred  BY <1>1, StirsNotes DEF Typed
  <2> QED  BY <2>1 DEF LookSees
<1>2. CASE ~\E d \in Calls : call[d].pc = "minting"
  BY <1>2 DEF LookSees
<1> QED  BY <1>1, <1>2

LEMMA SameLocks ==
    ASSUME NoNewCall(Joining), SameCalls(Joining)
    PROVE  \A a : (Locked(a))' <=> Locked(a)
<1>1. \A d \in Calls : call'[d].pc \in Joining <=> call[d].pc \in Joining
  BY DEF NoNewCall, SameCalls
<1>2. \A d \in Calls : call[d].pc \in Joining => call'[d].a = call[d].a
  BY DEF SameCalls
<1> QED  BY <1>1, <1>2 DEF Locked, Joining

\* The calls that are about to mint, or to commit what they minted, stay.
LEMMA SameMints ==
    ASSUME NoNewCall(Joining)
    PROVE  \A d \in Calls : /\ Minting(d)' => Minting(d)
                            /\ OwnCommit(d)' => call'[d] = call[d]
                            /\ call'[d].pc = "minting" => call'[d] = call[d]
BY DEF NoNewCall, Joining, Minting, OwnCommit

LEMMA RunsQuiet == ASSUME Typed, RunsFit, RunsAlone PROVE RunsFit'
<1> USE DEF RunsFit
<1>1. UNCHANGED <<seat, run, ledger>> /\ ghost'.apart = ghost.apart /\ LostStays
      /\ ghost'.stirred = ghost.stirred /\ NoNewCall(Joining) /\ SameCalls(Joining)
  BY DEF RunsAlone, LostStays
<1>2. LocksHold'  BY <1>1, LocksStay DEF SeatKept
<1>3. PresentAccounted'  BY <1>1, SameLocks, AccountsStay DEF Present
<1>4. LeaveNamesItsRun'  BY <1>1, LeavesStay
<1>5. OneMint'  BY <1>1, SameMints, MintStays
<1>6. Together'  BY <1>1, SameMints, TogetherStays DEF Live
<1>7. LookSees'  BY <1>1, SameMints, LookStays DEF Live
<1> QED  BY <1>2, <1>3, <1>4, <1>5, <1>6, <1>7

\* What the ledger says of a peer that leaves, nobody joining under its name.
LEMMA LeaveIsNamed ==
    ASSUME PresentAccounted, NEW a \in Aliases, Present(a), ~Locked(a)
    PROVE  [LeaveEvent(a) EXCEPT !.event = "join"] \in ledger \cup ghost.lost
<1>1. [LeaveEvent(a) EXCEPT !.event = "join"] = JoinEvent(seat[a].sid, run[a])
  BY DEF LeaveEvent, JoinEvent
<1> QED  BY <1>1 DEF PresentAccounted, Accounted

LEMMA JoinBeginsRuns == ASSUME Typed, RunsFit, NEW c \in Calls, JoinBegins(c) PROVE RunsFit'
<1> USE DEF RunsFit
<1> DEFINE dead == {b \in Aliases : seat[b].st = "dead" /\ ~Locked(b)}
<1>1. /\ seat' = [b \in Aliases |-> IF b \in dead THEN NoSeat ELSE seat[b]]
      /\ run' = [b \in Aliases |-> IF b \in dead THEN 0 ELSE run[b]]
      /\ ledger \subseteq ledger' /\ ledger' \subseteq ledger \cup {LeaveEvent(b) : b \in dead}
      /\ ghost' = ghost
  BY LogsAdd DEF JoinBegins
<1>2. NoNewCall(Joining) /\ SameCalls(Joining)
  <2>1. PICK f : Becomes(c, f) /\ f.pc = "claim" /\ call[c] = Idle  BY DEF JoinBegins
  <2>2. call'[c] = f /\ \A d \in Calls \ {c} : call'[d] = call[d]  BY <2>1, Moves DEF Typed
  <2> QED  BY <2>1, <2>2 DEF Idle, NoNewCall, SameCalls, Joining
<1>3. LostStays  BY <1>1 DEF LostStays
<1>4. LocksHold'
  <2>1. \A a \in Aliases : Locked(a) => SeatKept(a)  BY <1>1 DEF SeatKept
  <2> QED  BY <1>2, <2>1, LocksStay
<1>5. PresentAccounted'
  <2>1. \A b \in Aliases : seat'[b].st # "free" =>
            /\ Present(b) /\ seat'[b].sid = seat[b].sid /\ run'[b] = run[b]
    BY <1>1 DEF NoSeat, Present
  <2>2. \A b \in Aliases : Locked(b) => Locked(b)'  BY <1>2, SameLocks
  <2> QED  BY <1>1, <1>3, <2>1, <2>2, AccountsStay DEF Present
<1>6. LeaveNamesItsRun'
  <2>1. \A e \in ledger' \ ledger : \E a \in Aliases : Present(a) /\ ~Locked(a) /\ e = LeaveEvent(a)
    BY <1>1 DEF Present
  <2> QED  BY <1>1, <1>3, <2>1, LeaveIsNamed, LeavesStay
<1>7. OneMint'  BY <1>2, SameMints, MintStays
<1>8. \A b \in Aliases : Live(b)' => Live(b) /\ run[b] = run'[b]
  BY <1>1 DEF NoSeat, Live
<1>9. Together'  BY <1>1, <1>2, <1>8, SameMints, TogetherStays
<1>10. LookSees'
  <2>1. \A b \in Aliases : Live(b) => Live(b)' /\ run'[b] = run[b]  BY <1>1 DEF Live
  <2> QED  BY <1>1, <1>2, <1>8, <2>1, SameMints, LookStays
<1> QED  BY <1>4, <1>5, <1>6, <1>7, <1>9, <1>10

LEMMA LeaveRuns == ASSUME Typed, RunsFit, NEW a \in Aliases, Leave(a) PROVE RunsFit'
<1> USE DEF RunsFit
<1>1. /\ Present(a) /\ ~Locked(a) /\ seat' = [seat EXCEPT ![a] = NoSeat] /\ run' = [run EXCEPT ![a] = 0]
      /\ ledger \subseteq ledger' /\ ledger' \subseteq ledger \cup {LeaveEvent(a)}
      /\ call' = call /\ ghost' = Stirs
  BY LogsAdd DEF Leave
<1>2. NoNewCall(Joining) /\ SameCalls(Joining) /\ LostStays /\ ghost'.apart = ghost.apart
  BY <1>1, StirsNotes DEF NoNewCall, SameCalls, LostStays, Typed
<1>3. \A b \in Aliases : /\ b # a => seat'[b] = seat[b] /\ run'[b] = run[b]
                         /\ seat'[a] = NoSeat
  BY <1>1 DEF Typed, SeatsTyped
<1>4. LocksHold'
  <2>1. \A b \in Aliases : Locked(b) => SeatKept(b)  BY <1>1, <1>3 DEF SeatKept
  <2> QED  BY <1>2, <2>1, LocksStay
<1>5. PresentAccounted'
  <2>1. \A b \in Aliases : seat'[b].st # "free" =>
            /\ Present(b) /\ seat'[b].sid = seat[b].sid /\ run'[b] = run[b]
    BY <1>3 DEF NoSeat, Present
  <2>2. \A b \in Aliases : Locked(b) => Locked(b)'  BY <1>2, SameLocks
  <2> QED  BY <1>1, <1>2, <2>1, <2>2, AccountsStay DEF Present
<1>6. LeaveNamesItsRun'  BY <1>1, <1>2, LeaveIsNamed, LeavesStay
<1>7. OneMint'  BY <1>2, SameMints, MintStays
<1>8. Together'
  <2>1. \A b \in Aliases : (seat'[b].st \in {"unarmed", "armed"} /\ run'[b] # 0) =>
            Live(b) /\ run[b] = run'[b]
    BY <1>3 DEF NoSeat, Live
  <2> QED  BY <1>1, <1>2, <2>1, SameMints, TogetherStays DEF Live
<1>9. LookSees'  BY <1>1, StirsLook
<1> QED  BY <1>4, <1>5, <1>6, <1>7, <1>8, <1>9

LEMMA RenameRuns ==
    ASSUME Typed, RunsFit, NEW a \in Aliases, NEW b \in Aliases, Rename(a, b) PROVE RunsFit'
<1> USE DEF RunsFit
<1> DEFINE moved == [seat[a] EXCEPT !.st = IF @ = "armed" THEN "dead" ELSE @]
<1>1. /\ a # b /\ Present(a) /\ ~Locked(a) /\ ~Locked(b)
      /\ seat' = [seat EXCEPT ![a] = NoSeat, ![b] = moved]
      /\ run' = [run EXCEPT ![a] = 0, ![b] = run[a]]
      /\ UNCHANGED <<ledger, call>> /\ ghost' = Stirs
  BY DEF Rename
<1>2. NoNewCall(Joining) /\ SameCalls(Joining) /\ LostStays /\ ghost'.apart = ghost.apart
  BY <1>1, StirsNotes DEF NoNewCall, SameCalls, LostStays, Typed
<1>3. moved.sid = seat[a].sid /\ (moved.st \in {"unarmed", "armed"} => moved.st = seat[a].st)
  BY DEF Typed, SeatsTyped
<1>4. /\ seat'[a] = NoSeat /\ run'[a] = 0 /\ seat'[b] = moved /\ run'[b] = run[a]
      /\ \A x \in Aliases \ {a, b} : seat'[x] = seat[x] /\ run'[x] = run[x]
  <2> HIDE DEF moved
  <2> QED  BY <1>1 DEF Typed, SeatsTyped
<1> HIDE DEF moved
<1>5. LocksHold'
  <2>1. \A x \in Aliases : Locked(x) => SeatKept(x)  BY <1>1, <1>4 DEF SeatKept
  <2> QED  BY <1>2, <2>1, LocksStay
<1>6. PresentAccounted'
  <2>1. ASSUME NEW x \in Aliases, seat'[x].st # "free"
        PROVE  \E y \in Aliases : /\ Present(y) /\ (y = x \/ ~Locked(y))
                                  /\ seat'[x].sid = seat[y].sid /\ run'[x] = run[y]
    <3>1. CASE x = b
      <4>1. seat'[b].sid = seat[a].sid /\ run'[b] = run[a]  BY <1>3, <1>4
      <4> QED  BY <1>1, <3>1, <4>1
    <3>2. CASE x # b
      <4>1. x # a  BY <1>4, <2>1 DEF NoSeat
      <4> QED  BY <1>4, <2>1, <3>2, <4>1 DEF Present
    <3> QED  BY <3>1, <3>2
  <2>2. \A x \in Aliases : Locked(x) => Locked(x)'  BY <1>2, SameLocks
  <2>3. \A x \in Aliases : Present(x)' =>
            \E y \in Aliases : /\ Present(y) /\ (Locked(y) => Locked(x)')
                               /\ seat'[x].sid = seat[y].sid /\ run'[x] = run[y]
    BY <2>1, <2>2 DEF Present
  <2>4. ledger \subseteq ledger'  BY <1>1
  <2> QED  BY <1>2, <2>3, <2>4, AccountsStay
<1>7. LeaveNamesItsRun'  BY <1>1, <1>2, LeavesStay
<1>8. OneMint'  BY <1>2, SameMints, MintStays
<1>9. Together'
  <2>1. \A x \in Aliases : (seat'[x].st \in {"unarmed", "armed"} /\ run'[x] # 0) =>
            \E y \in Aliases : Live(y) /\ run[y] = run'[x]
    <3> SUFFICES ASSUME NEW x \in Aliases, seat'[x].st \in {"unarmed", "armed"}
                 PROVE  \E y \in Aliases : Live(y) /\ run[y] = run'[x]
      OBVIOUS
    <3>1. CASE x = b
      <4>1. Live(a)  BY <1>3, <1>4, <3>1 DEF Live
      <4> QED  BY <1>1, <1>4, <3>1, <4>1
    <3>2. CASE x # b
      <4>1. x # a  BY <1>4 DEF NoSeat
      <4> QED  BY <1>4, <3>2, <4>1 DEF Live
    <3> QED  BY <3>1, <3>2
  <2> QED  BY <1>1, <1>2, <2>1, SameMints, TogetherStays DEF Live
<1>10. LookSees'  BY <1>1, StirsLook
<1> QED  BY <1>5, <1>6, <1>7, <1>8, <1>9, <1>10

LEMMA DiesRuns == ASSUME Typed, RunsFit, NEW a \in Aliases, Dies(a) PROVE RunsFit'
<1> USE DEF RunsFit
<1>1. /\ Live(a) /\ seat' = [seat EXCEPT ![a].st = "dead"] /\ UNCHANGED <<run, ledger, call>>
      /\ ghost' = Stirs
  BY DEF Dies
<1>2. NoNewCall(Joining) /\ SameCalls(Joining) /\ LostStays /\ ghost'.apart = ghost.apart
  BY <1>1, StirsNotes DEF NoNewCall, SameCalls, LostStays, Typed
<1>3. /\ seat'[a].st = "dead" /\ seat'[a].sid = seat[a].sid
      /\ \A b \in Aliases \ {a} : seat'[b] = seat[b]
  BY <1>1 DEF Typed, SeatsTyped
<1>4. \A b \in Aliases : /\ seat'[b].sid = seat[b].sid /\ (Present(b) <=> Present(b)')
                         /\ Live(b)' => Live(b)
  BY <1>1, <1>3 DEF Present, Live
<1>5. LocksHold'
  <2>1. \A b \in Aliases : SeatKept(b)  BY <1>1, <1>4 DEF SeatKept, Present
  <2> QED  BY <1>2, <2>1, LocksStay
<1>6. PresentAccounted'
  <2>2. \A b \in Aliases : Locked(b) => Locked(b)'  BY <1>2, SameLocks
  <2> QED  BY <1>1, <1>2, <1>4, <2>2, AccountsStay
<1>7. LeaveNamesItsRun'  BY <1>1, <1>2, LeavesStay
<1>8. OneMint'  BY <1>2, SameMints, MintStays
<1>9. Together'  BY <1>1, <1>2, <1>4, SameMints, TogetherStays
<1>10. LookSees'  BY <1>1, StirsLook
<1> QED  BY <1>5, <1>6, <1>7, <1>8, <1>9, <1>10

\* A peer that comes back has a run others live in, or nobody is apart no more.
LEMMA ArmRuns == ASSUME Typed, RunsFit, NEW a \in Aliases, Arm(a) PROVE RunsFit'
<1> USE DEF RunsFit
<1>1. /\ seat[a].st \in {"unarmed", "dead"} /\ ~Locked(a)
      /\ seat' = [seat EXCEPT ![a].st = "armed"] /\ UNCHANGED <<run, ledger, call>>
      /\ ghost' = [ghost EXCEPT !.apart = ghost.apart \/ (seat[a].st = "dead" /\ run[a] \notin LiveRuns(a))]
  BY DEF Arm
<1>2. /\ ghost'.lost = ghost.lost /\ ghost'.stirred = ghost.stirred
      /\ ghost'.apart <=> ghost.apart \/ (seat[a].st = "dead" /\ run[a] \notin LiveRuns(a))
  BY <1>1 DEF Typed, GhostTyped, Ghosts
<1>3. NoNewCall(Joining) /\ SameCalls(Joining) /\ LostStays  BY <1>1, <1>2 DEF NoNewCall, SameCalls, LostStays
<1>4. /\ seat'[a].st = "armed" /\ seat'[a].sid = seat[a].sid
      /\ \A b \in Aliases \ {a} : seat'[b] = seat[b]
  BY <1>1 DEF Typed, SeatsTyped
<1>5. \A b \in Aliases : seat'[b].sid = seat[b].sid /\ (Present(b) <=> Present(b)')
  BY <1>1, <1>4 DEF Present
<1>6. LocksHold'
  <2>1. \A b \in Aliases : SeatKept(b)  BY <1>1, <1>5 DEF SeatKept, Present
  <2> QED  BY <1>3, <2>1, LocksStay
<1>7. PresentAccounted'
  <2>1. \A b \in Aliases : Locked(b) => Locked(b)'  BY <1>3, SameLocks
  <2> QED  BY <1>1, <1>3, <1>5, <2>1, AccountsStay
<1>8. LeaveNamesItsRun'  BY <1>1, <1>3, LeavesStay
<1>9. OneMint'  BY <1>3, SameMints, MintStays
<1>10. ~ghost'.apart => \A b \in Aliases : (Live(b)' /\ run'[b] # 0) =>
           \E x \in Aliases : Live(x) /\ run[x] = run'[b]
  <2> SUFFICES ASSUME ~ghost'.apart, NEW b \in Aliases, Live(b)', run'[b] # 0
               PROVE  \E x \in Aliases : Live(x) /\ run[x] = run'[b]
    OBVIOUS
  <2>1. CASE b # a  BY <1>1, <1>4, <2>1 DEF Live
  <2>2. CASE b = a /\ seat[a].st = "unarmed"  BY <1>1, <2>2 DEF Live
  <2>3. CASE b = a /\ seat[a].st = "dead"
    <3>1. run[a] \in LiveRuns(a) \/ run[a] = 0  BY <1>2, <2>3
    <3>2. PICK x \in Aliases \ {a} : Live(x) /\ run[x] = run[a]
      BY <1>1, <2>3, <3>1 DEF LiveRuns
    <3> QED  BY <1>1, <2>3, <3>2
  <2> QED  BY <1>1, <2>1, <2>2, <2>3
<1>11. Together'
  <2>1. CASE ghost'.apart  BY <2>1 DEF Together
  <2>2. CASE ~ghost'.apart  BY <1>2, <1>3, <1>10, <2>2, SameMints, TogetherStays
  <2> QED  BY <2>1, <2>2
<1>12. LookSees'
  <2>1. \A b \in Aliases : Live(b) => Live(b)' /\ run'[b] = run[b]  BY <1>1, <1>4 DEF Live
  <2> QED  BY <1>2, <1>3, <1>10, <2>1, SameMints, LookStays
<1> QED  BY <1>6, <1>7, <1>8, <1>9, <1>11, <1>12

\* A join's own steps, under its lock: the seat is its own.
JoinStep(c) ==
    /\ call[c].pc \in Joining /\ seat' = seat /\ LostStays /\ ledger' = ledger
    /\ call'[c].pc \in Joining /\ call'[c].a = call[c].a /\ call'[c].s = call[c].s
    /\ \A d \in Calls \ {c} : call'[d] = call[d]

LEMMA JoinStepLocks ==
    ASSUME NEW c \in Calls, JoinStep(c)
    PROVE  \A a : Locked(a) => Locked(a)'
BY DEF JoinStep, Locked

LEMMA JoinStepKeeps ==
    ASSUME Typed, RunsFit, NEW c \in Calls, JoinStep(c),
           \A a \in Aliases \ {call[c].a} : run'[a] = run[a],
           run'[call[c].a] = IF call'[c].pc = "record" THEN call'[c].run ELSE 0
    PROVE  LocksHold' /\ PresentAccounted' /\ LeaveNamesItsRun'
<1> USE DEF RunsFit
<1>1. LocksHold'  BY LocksMove DEF JoinStep
<1>2. PresentAccounted'
  <2>1. \A b \in Aliases \ {call[c].a} : Locked(b) => Locked(b)'  BY JoinStepLocks
  <2>2. ASSUME NEW b \in Aliases, b = call[c].a  PROVE Accounted(b)'
    BY <2>2 DEF JoinStep, Locked, Accounted
  <2>4. \A b \in Aliases \ {call[c].a} : Present(b)' => Present(b) /\ seat'[b].sid = seat[b].sid
    BY DEF JoinStep, Present
  <2> QED  BY <2>1, <2>2, <2>4, AccountsStay DEF JoinStep
<1>3. LeaveNamesItsRun'  BY LeavesStay DEF JoinStep
<1> QED  BY <1>1, <1>2, <1>3

\* A join that neither mints nor claims.
LEMMA JoinStepWaits ==
    ASSUME Typed, RunsFit, NEW c \in Calls, JoinStep(c), run' = run, ghost.apart => ghost'.apart,
           call[c].pc # "record", call'[c].pc = "record" => call'[c].run = 0,
           Minting(c)' => \A d \in Calls \ {c} : ~Minting(d),
           ~OwnCommit(c)', LookSees'
    PROVE  RunsFit'
<1> USE DEF RunsFit
<1>1. run[call[c].a] = 0  BY DEF JoinStep, LocksHold
<1>2. LocksHold' /\ PresentAccounted' /\ LeaveNamesItsRun'  BY <1>1, JoinStepKeeps
<1>3. OneMint'
  <2>1. \A d \in Calls \ {c} : Minting(d)' => Minting(d)  BY DEF JoinStep, Minting
  <2> QED  BY <2>1 DEF OneMint
<1>4. Together'
  <2>1. \A d \in Calls : OwnCommit(d)' => call'[d] = call[d]  BY DEF JoinStep
  <2>2. \A b \in Aliases : Live(b)' => Live(b)  BY DEF JoinStep, Live
  <2> QED  BY <2>1, <2>2, TogetherStays
<1> QED  BY <1>2, <1>3, <1>4

\* A join that does not look under the mint lock.
LEMMA JoinStepLooks ==
    ASSUME Typed, RunsFit, NEW c \in Calls, JoinStep(c), run' = run,
           ghost.apart => ghost'.apart, ghost.stirred => ghost'.stirred,
           call'[c].pc = "minting" => ~call'[c].listed
    PROVE  LookSees'
<1>1. \A d \in Calls : (call'[d].pc = "minting" /\ call'[d].listed) => call'[d] = call[d]
  BY DEF JoinStep
<1>2. \A b \in Aliases : Live(b)' <=> Live(b)  BY DEF JoinStep, Live
<1> QED  BY <1>1, <1>2, LookStays DEF RunsFit

\* A join goes on to another place under its lock.
LEMMA JoinGoesOn ==
    ASSUME Typed, NEW c \in Calls, call[c].pc \in Joining, UNCHANGED <<seat, ledger>>, LostStays,
           NEW f, Becomes(c, f), f.pc \in Joining, f.a = call[c].a, f.s = call[c].s
    PROVE  JoinStep(c) /\ call'[c] = f
BY Moves DEF JoinStep, Typed

\* What a call becomes that looks on.
LEMMA LookGoesOn ==
    ASSUME Typed, NEW c \in Calls, call[c].pc \in Joining, UNCHANGED <<seat, ledger>>, LostStays,
           NEW for \in Looks, NEW listed, NEW todo, NEW at, NEW ids,
           Looking(c, for, listed, todo, at, ids)
    PROVE  /\ JoinStep(c) /\ call'[c].pc = for /\ call'[c].a = call[c].a
           /\ call'[c].listed = listed /\ call'[c].todo = todo /\ call'[c].at = at
           /\ call'[c].ids = ids
<1> DEFINE f == [pc |-> for, s |-> call[c].s, a |-> call[c].a,
                 was |-> for = "resolve" /\ call[c].was, listed |-> listed, todo |-> todo,
                 at |-> at, ids |-> ids]
<1>1. Becomes(c, f) /\ f.pc \in Joining /\ f.a = call[c].a /\ f.s = call[c].s
      /\ f.pc = for /\ f.listed = listed /\ f.todo = todo /\ f.at = at /\ f.ids = ids
  BY DEF Looking, Joining
<1> HIDE DEF f
<1> QED  BY <1>1, JoinGoesOn

LEMMA LookOn ==
    ASSUME Typed, NEW c \in Calls, call[c].pc \in Looks, UNCHANGED <<seat, ledger>>, LostStays,
           NEW listed, NEW todo, NEW at, NEW ids,
           Looking(c, call[c].pc, listed, todo, at, ids)
    PROVE  JoinStep(c) /\ call'[c].pc = call[c].pc /\ call'[c].a = call[c].a
<1>1. PICK for \in Looks : for = call[c].pc  OBVIOUS
<1>2. Looking(c, for, listed, todo, at, ids)  BY <1>1
<1>3. call[c].pc \in Joining  BY DEF Joining
<1> QED  BY <1>1, <1>2, <1>3, LookGoesOn

\* A join that gives up its run, or goes to claim one.
LEMMA RecordGoesOn ==
    ASSUME Typed, NEW c \in Calls, call[c].pc \in Joining, UNCHANGED <<seat, ledger>>, LostStays,
           NEW id, Recording(c, id)
    PROVE  /\ JoinStep(c) /\ call'[c].pc = "record" /\ call'[c].a = call[c].a
           /\ call'[c].run = id
<1> DEFINE f == [pc |-> "record", s |-> call[c].s, a |-> call[c].a, run |-> id]
<1>1. Becomes(c, f) /\ f.pc \in Joining /\ f.a = call[c].a /\ f.s = call[c].s
      /\ f.pc = "record" /\ f.run = id
  BY DEF Recording, Joining
<1> HIDE DEF f
<1> QED  BY <1>1, JoinGoesOn

LEMMA CommitGoesOn ==
    ASSUME Typed, NEW c \in Calls, call[c].pc \in Joining, UNCHANGED <<seat, ledger>>, LostStays,
           NEW id, NEW own \in BOOLEAN, Committing(c, id, own)
    PROVE  /\ JoinStep(c) /\ call'[c].pc = "commit" /\ call'[c].a = call[c].a
           /\ call'[c].run = id /\ call'[c].own = own
<1> DEFINE f == [pc |-> "commit", s |-> call[c].s, a |-> call[c].a, run |-> id, own |-> own]
<1>1. Becomes(c, f) /\ f.pc \in Joining /\ f.a = call[c].a /\ f.s = call[c].s
      /\ f.pc = "commit" /\ f.run = id /\ f.own = own
  BY DEF Committing, Joining
<1> HIDE DEF f
<1> QED  BY <1>1, JoinGoesOn

\* A look that goes on, whatever it is for.
LEMMA LooksOn ==
    ASSUME Typed, RunsFit, NEW c \in Calls, call[c].pc \in Looks, JoinStep(c), run' = run,
           call'[c].pc = call[c].pc, ghost'.apart = ghost.apart, LookSees'
    PROVE  RunsFit'
<1>1. call'[c].pc # "record" /\ call[c].pc # "record" /\ ~OwnCommit(c)'  BY DEF OwnCommit
<1>2. Minting(c)' => \A d \in Calls \ {c} : ~Minting(d)
  BY DEF Minting, RunsFit, OneMint
<1> QED  BY <1>1, <1>2, JoinStepWaits

\* It starts with every peer but its own name, ...
LEMMA ListsRuns == ASSUME Typed, RunsFit, NEW c \in Calls, Lists(c) PROVE RunsFit'
<1>1. call[c].pc \in Looks /\ call[c].pc \in Joining /\ UNCHANGED <<run, ledger, seat>>
  BY DEF Lists, OnlyRuns, Joining
<1>2. /\ ghost'.apart = ghost.apart /\ ghost'.lost = ghost.lost
      /\ call[c].pc # "minting" => ghost' = ghost
  <2>1. ghost' = IF call[c].pc = "minting" THEN [ghost EXCEPT !.stirred = FALSE] ELSE ghost
    BY DEF Lists
  <2> QED  BY <2>1 DEF Typed, GhostTyped, Ghosts
<1> DEFINE todo == {b \in Aliases \ {call[c].a} : Present(b)}
<1>3. Looking(c, call[c].pc, TRUE, todo, Nobody, {}) /\ LostStays
  BY <1>2 DEF Lists, LostStays
<1> HIDE DEF todo
<1>4. /\ JoinStep(c) /\ call'[c].pc = call[c].pc /\ call'[c].a = call[c].a
      /\ call'[c].todo = todo
  <2>1. JoinStep(c) /\ call'[c].pc = call[c].pc /\ call'[c].a = call[c].a
    BY <1>1, <1>3, LookOn
  <2>2. call'[c].todo = todo  BY <1>3 DEF Looking, Becomes, Typed, CallsTyped
  <2> QED  BY <2>1, <2>2
<1>5. LookSees'
  <2>1. CASE call[c].pc # "minting"
    BY <1>1, <1>2, <1>4, <2>1, JoinStepLooks
  <2>2. CASE call[c].pc = "minting"
    <3>1. ASSUME NEW d \in Calls, call'[d].pc = "minting", NEW b \in Aliases \ {call'[d].a}, Live(b)'
          PROVE  Seen(d, run[b])'
      <4>1. d = c  BY <1>4, <2>2, <3>1 DEF JoinStep, RunsFit, OneMint, Minting
      <4>2. b \in todo  BY <1>1, <1>4, <3>1, <4>1 DEF todo, Live, Present
      <4> QED  BY <1>4, <3>1, <4>1, <4>2 DEF Seen
    <3> QED  BY <3>1 DEF LookSees
  <2> QED  BY <2>1, <2>2
<1> QED  BY <1>1, <1>2, <1>4, <1>5, LooksOn

\* A step of the look under the mint lock forgets nothing it saw, or will see.
LEMMA LookForgetsNothing ==
    ASSUME Typed, RunsFit, NEW c \in Calls, JoinStep(c), UNCHANGED <<run, ghost>>,
           call'[c].pc = "minting" => call[c].pc = "minting",
           call'[c].pc = "minting" /\ call'[c].listed =>
               call[c].listed /\ \A id : Seen(c, id) => Seen(c, id)'
    PROVE  LookSees'
<1> SUFFICES ASSUME ~ghost.apart, ~ghost.stirred, NEW d \in Calls,
                    call'[d].pc = "minting", call'[d].listed,
                    NEW b \in Aliases \ {call'[d].a}, Live(b)', run[b] # 0
             PROVE  Seen(d, run[b])'
  BY DEF LookSees
<1>1. Live(b)  BY DEF JoinStep, Live
<1>2. CASE d = c
  <2>1. call'[c].a = call[c].a  BY DEF JoinStep
  <2>2. Seen(c, run[b])  BY <1>1, <1>2, <2>1 DEF RunsFit, LookSees
  <2>3. Seen(c, run[b])'  BY <1>2, <2>2
  <2> QED  BY <1>2, <2>3
<1>3. CASE d # c
  <2>1. call'[d] = call[d]  BY <1>3 DEF JoinStep
  <2>2. Seen(d, run[b])  BY <1>1, <2>1 DEF RunsFit, LookSees
  <2>3. \A x \in Aliases : Live(x) => Live(x)'  BY DEF JoinStep, Live
  <2> QED  BY <2>1, <2>2, <2>3 DEF Seen
<1> QED  BY <1>2, <1>3

\* ... goes through them, leaving out only the dead, ...
LEMMA LooksAtRuns == ASSUME Typed, RunsFit, NEW c \in Calls, LooksAt(c) PROVE RunsFit'
<1>1. call[c].pc \in Looks /\ call[c].pc \in Joining /\ call[c].at = Nobody
      /\ UNCHANGED <<run, ledger, seat, ghost>>
  BY DEF LooksAt, OnlyRuns, Joining
<1>2. PICK b \in call[c].todo :
          Looking(c, call[c].pc, TRUE, call[c].todo \ {b},
                  IF seat[b].st = "dead" THEN Nobody ELSE b, call[c].ids)
  BY DEF LooksAt
<1> DEFINE at == IF seat[b].st = "dead" THEN Nobody ELSE b
<1>3. /\ JoinStep(c) /\ call'[c].pc = call[c].pc
      /\ call'[c].todo = call[c].todo \ {b} /\ call'[c].at = at /\ call'[c].ids = call[c].ids
  <2>1. LostStays  BY <1>1 DEF LostStays
  <2>2. Looking(c, call[c].pc, TRUE, call[c].todo \ {b}, at, call[c].ids)  BY <1>2
  <2> HIDE DEF at
  <2>3. JoinStep(c) /\ call'[c].pc = call[c].pc  BY <1>1, <2>1, <2>2, LookOn
  <2>4. /\ call'[c].todo = call[c].todo \ {b} /\ call'[c].at = at
        /\ call'[c].ids = call[c].ids
    BY <2>2 DEF Looking, Becomes, Typed, CallsTyped
  <2> QED  BY <2>3, <2>4
<1>4. call[c].listed
  BY <1>1 DEF Typed, CallsTyped, CallFine
<1>5. ASSUME NEW id, Seen(c, id)  PROVE Seen(c, id)'
  <2>1. CASE id \in call[c].ids  BY <1>3, <2>1 DEF Seen
  <2>2. CASE \E d \in call[c].todo \cup {call[c].at} : d \in Aliases /\ Live(d) /\ run[d] = id
    <3>1. PICK d \in call[c].todo \cup {call[c].at} : d \in Aliases /\ Live(d) /\ run[d] = id
      BY <2>2
    <3>2. d \in call[c].todo  BY <1>1, <3>1
    <3>3. d = b => at = d  BY <3>1 DEF Live
    <3>4. d \in call'[c].todo \cup {call'[c].at}  BY <1>3, <3>2, <3>3
    <3> QED  BY <1>1, <3>1, <3>4 DEF Seen, Live
  <2> QED  BY <1>5, <2>1, <2>2 DEF Seen
<1>6. LookSees'  BY <1>1, <1>3, <1>4, <1>5, LookForgetsNothing
<1> QED  BY <1>1, <1>3, <1>6, LooksOn

\* ... and reads what each of them claims.
LEMMA ReadsClaimRuns == ASSUME Typed, RunsFit, NEW c \in Calls, ReadsClaim(c) PROVE RunsFit'
<1> DEFINE ids == call[c].ids \cup ({run[call[c].at]} \ {0})
<1>1. call[c].pc \in Looks /\ call[c].pc \in Joining /\ call[c].at # Nobody
      /\ UNCHANGED <<run, ledger, seat, ghost>>
      /\ Looking(c, call[c].pc, TRUE, call[c].todo, Nobody, ids)
  BY DEF ReadsClaim, OnlyRuns, Joining
<1>2. LostStays  BY <1>1 DEF LostStays
<1> HIDE DEF ids
<1>3. /\ JoinStep(c) /\ call'[c].pc = call[c].pc
      /\ call'[c].todo = call[c].todo /\ call'[c].ids = ids
  <2>1. JoinStep(c) /\ call'[c].pc = call[c].pc  BY <1>1, <1>2, LookOn
  <2>2. call'[c].todo = call[c].todo /\ call'[c].ids = ids
    BY <1>1 DEF Looking, Becomes, Typed, CallsTyped
  <2> QED  BY <2>1, <2>2
<1>4. call[c].listed
  BY <1>1 DEF Typed, CallsTyped, CallFine
<1>5. ASSUME NEW b \in Aliases \ {call[c].a}, Live(b), run[b] # 0, Seen(c, run[b])
      PROVE  Seen(c, run[b])'
  <2>1. CASE run[b] \in call[c].ids  BY <1>1, <1>3, <2>1 DEF Seen, ids
  <2>2. CASE \E d \in call[c].todo \cup {call[c].at} : d \in Aliases /\ Live(d) /\ run[d] = run[b]
    <3>1. PICK d \in call[c].todo \cup {call[c].at} : d \in Aliases /\ Live(d) /\ run[d] = run[b]
      BY <2>2
    <3>2. CASE d \in call[c].todo  BY <1>1, <1>3, <3>1, <3>2 DEF Seen, Live
    <3>3. CASE d = call[c].at
      <4>1. run[b] \in ids  BY <1>5, <3>1, <3>3 DEF ids
      <4> QED  BY <1>1, <1>3, <4>1 DEF Seen
    <3> QED  BY <3>1, <3>2, <3>3
  <2> QED  BY <1>5, <2>1, <2>2 DEF Seen
<1>6. LookSees'
  <2> SUFFICES ASSUME ~ghost.apart, ~ghost.stirred, NEW d \in Calls,
                      call'[d].pc = "minting", call'[d].listed,
                      NEW b \in Aliases \ {call'[d].a}, Live(b)', run[b] # 0
               PROVE  Seen(d, run[b])'
    BY <1>1 DEF LookSees
  <2>1. Live(b)  BY <1>1 DEF Live
  <2>2. CASE d = c
    <3>1. call'[c].a = call[c].a  BY <1>3 DEF JoinStep
    <3>2. Seen(c, run[b])  BY <1>3, <1>4, <2>1, <2>2, <3>1 DEF RunsFit, LookSees
    <3> QED  BY <1>5, <2>1, <2>2, <3>1, <3>2
  <2>3. CASE d # c
    <3>1. call'[d] = call[d]  BY <1>3, <2>3 DEF JoinStep
    <3>2. Seen(d, run[b])  BY <2>1, <3>1 DEF RunsFit, LookSees
    <3> QED  BY <1>1, <3>1, <3>2 DEF Seen, Live
  <2> QED  BY <2>2, <2>3
<1> QED  BY <1>1, <1>3, <1>6, LooksOn

LEMMA ResolveRuns == ASSUME Typed, RunsFit, NEW c \in Calls, Resolve(c) PROVE RunsFit'
<1>1. call[c].pc = "resolve" /\ call[c].pc \in Joining /\ UNCHANGED <<run, ledger, seat, ghost>>
      /\ LostStays
  BY DEF Resolve, Looked, OnlyRuns, Joining, LostStays
<1>2. CASE Recording(c, 0)
  <2>1. JoinStep(c) /\ call'[c].pc = "record" /\ call'[c].run = 0  BY <1>1, <1>2, RecordGoesOn
  <2> QED  BY <1>1, <2>1, JoinStepWaits, JoinStepLooks DEF Minting, OwnCommit
<1>3. CASE Looking(c, "adopt", FALSE, {}, Nobody, {})
  <2>1. JoinStep(c) /\ call'[c].pc = "adopt"  BY <1>1, <1>3, LookGoesOn
  <2> QED  BY <1>1, <2>1, JoinStepWaits, JoinStepLooks DEF Minting, OwnCommit
<1>4. CASE Becomes(c, [pc |-> "mint", s |-> call[c].s, a |-> call[c].a])
  <2>1. JoinStep(c) /\ call'[c].pc = "mint"  BY <1>1, <1>4, JoinGoesOn DEF Joining
  <2> QED  BY <1>1, <2>1, JoinStepWaits, JoinStepLooks DEF Minting, OwnCommit
<1> QED  BY <1>2, <1>3, <1>4 DEF Resolve

LEMMA AdoptRuns == ASSUME Typed, RunsFit, NEW c \in Calls, Adopt(c) PROVE RunsFit'
<1>1. call[c].pc = "adopt" /\ call[c].pc \in Joining /\ UNCHANGED <<run, ledger, seat, ghost>>
      /\ LostStays
  BY DEF Adopt, Looked, OnlyRuns, Joining, LostStays
<1>2. ASSUME NEW id, Committing(c, id, FALSE)  PROVE RunsFit'
  <2>1. JoinStep(c) /\ call'[c].pc = "commit" /\ ~call'[c].own  BY <1>1, <1>2, CommitGoesOn
  <2> QED  BY <1>1, <2>1, JoinStepWaits, JoinStepLooks DEF Minting, OwnCommit
<1>3. CASE Becomes(c, [pc |-> "mint", s |-> call[c].s, a |-> call[c].a])
  <2>1. JoinStep(c) /\ call'[c].pc = "mint"  BY <1>1, <1>3, JoinGoesOn DEF Joining
  <2> QED  BY <1>1, <2>1, JoinStepWaits, JoinStepLooks DEF Minting, OwnCommit
<1> QED  BY <1>2, <1>3 DEF Adopt

LEMMA AcquireMintLockRuns ==
    ASSUME Typed, RunsFit, NEW c \in Calls, AcquireMintLock(c) PROVE RunsFit'
<1>1. call[c].pc = "mint" /\ call[c].pc \in Joining /\ UNCHANGED <<run, ledger, seat, ghost>>
      /\ LostStays
  BY DEF AcquireMintLock, OnlyRuns, Joining, LostStays
<1>2. CASE Recording(c, 0)
  <2>1. JoinStep(c) /\ call'[c].pc = "record" /\ call'[c].run = 0  BY <1>1, <1>2, RecordGoesOn
  <2> QED  BY <1>1, <2>1, JoinStepWaits, JoinStepLooks DEF Minting, OwnCommit
<1>3. CASE ~MintLocked /\ Looking(c, "minting", FALSE, {}, Nobody, {})
  <2>1. JoinStep(c) /\ call'[c].pc = "minting" /\ ~call'[c].listed
    BY <1>1, <1>3, LookGoesOn
  <2>2. \A d \in Calls : ~Minting(d)  BY <1>3 DEF MintLocked, Minting
  <2> QED  BY <1>1, <2>1, <2>2, JoinStepWaits, JoinStepLooks DEF OwnCommit
<1> QED  BY <1>2, <1>3 DEF AcquireMintLock

LEMMA IdsCounted ==
    ASSUME NEW S \in SUBSET Ids
    PROVE  /\ Cardinality(S) \in Nat
           /\ Cardinality(S) = 1 => \E id : S = {id}
           /\ Cardinality(S) = 0 => S = {}
<1>1. IsFiniteSet(1 .. MaxIds)  BY FS_Interval
<1>2. IsFiniteSet(S)  BY <1>1, FS_Subset
<1> QED  BY <1>2, FS_Singleton, FS_EmptySet, FS_CardinalityType

\* The look under the lock has found what all the others claim, unless a stir
\* hid it.
LEMMA MintRuns == ASSUME Typed, RunsFit, NEW c \in Calls, Mint(c) PROVE RunsFit'
<1> DEFINE a == call[c].a
           ids == call[c].ids
           n == Cardinality(ids)
<1>1. call[c].pc = "minting" /\ call[c].pc \in Joining /\ Looked(c, "minting")
      /\ UNCHANGED <<run, ledger, seat>>
  BY DEF Mint, OnlyRuns, Looked, Joining
<1>2. a \in Aliases /\ ids \in SUBSET Ids  BY <1>1, LooksFine DEF Typed
<1>3. /\ ghost'.lost = ghost.lost /\ ghost'.stirred = ghost.stirred
      /\ ghost'.apart <=> ghost.apart \/ (ghost.stirred /\ ~(LiveRuns(a) \subseteq ids))
  <2> DEFINE apart == ghost.apart \/ (ghost.stirred /\ ~(LiveRuns(a) \subseteq ids))
  <2>1. ghost' = [ghost EXCEPT !.apart = apart]  BY DEF Mint
  <2> HIDE DEF apart
  <2>2. ghost'.lost = ghost.lost /\ ghost'.stirred = ghost.stirred /\ ghost'.apart = apart
    BY <2>1 DEF Typed, GhostTyped, Ghosts
  <2> QED  BY <2>2 DEF apart
<1>4. LostStays  BY <1>3 DEF LostStays
<1>5. ASSUME ~ghost'.apart, NEW b \in Aliases \ {a}, Live(b), run[b] # 0  PROVE run[b] \in ids
  <2>1. CASE ghost.stirred
    <3>1. LiveRuns(a) \subseteq ids  BY <1>3, <1>5, <2>1
    <3> QED  BY <1>5, <3>1 DEF LiveRuns
  <2>2. CASE ~ghost.stirred
    <3>1. Seen(c, run[b])  BY <1>1, <1>3, <1>5, <2>2 DEF RunsFit, LookSees, Looked
    <3>2. call[c].todo \cup {call[c].at} = {Nobody}  BY <1>1 DEF Looked
    <3> QED  BY <3>1, <3>2 DEF Seen
  <2> QED  BY <2>1, <2>2
<1>6. ASSUME Recording(c, 0)  PROVE RunsFit'
  <2>1. JoinStep(c) /\ call'[c].pc = "record" /\ call'[c].run = 0
    BY <1>1, <1>4, <1>6, RecordGoesOn
  <2> QED  BY <1>1, <1>3, <2>1, JoinStepWaits, JoinStepLooks DEF Minting, OwnCommit
<1>7. ASSUME NEW id, Committing(c, id, TRUE), ids \subseteq {id}  PROVE RunsFit'
  <2>1. /\ JoinStep(c) /\ call'[c].pc = "commit" /\ call'[c].a = a /\ call'[c].run = id
        /\ call'[c].own
    BY <1>1, <1>4, <1>7, CommitGoesOn
  <2>2. \A d \in Calls \ {c} : call'[d] = call[d]  BY <2>1 DEF JoinStep
  <2>3. run[a] = 0  BY <1>1 DEF RunsFit, LocksHold
  <2>4. LocksHold' /\ PresentAccounted' /\ LeaveNamesItsRun'
    BY <1>1, <2>1, <2>3, JoinStepKeeps
  <2>5. OneMint'
    <3>1. \A d \in Calls : Minting(d)' => Minting(d)  BY <1>1, <2>2 DEF Minting
    <3> QED  BY <3>1, MintStays DEF RunsFit
  <2>6. LookSees'  BY <1>1, <1>3, <2>1, JoinStepLooks
  <2>7. Together'
    <3> SUFFICES ASSUME ~ghost'.apart  PROVE Together'
      BY DEF Together
    <3>1. ~ghost.apart  BY <1>3
    <3>2. \A x, y \in Aliases : (Live(x) /\ Live(y) /\ run[x] # 0 /\ run[y] # 0) => run[x] = run[y]
      BY <3>1 DEF RunsFit, Together
    <3>3. ASSUME NEW d \in Calls, OwnCommit(d)', NEW b \in Aliases \ {call'[d].a}, Live(b), run[b] # 0
          PROVE  run[b] = call'[d].run
      <4>1. CASE d = c
        <5>1. run[b] \in ids  BY <1>5, <2>1, <3>3, <4>1
        <5> QED  BY <1>7, <2>1, <4>1, <5>1
      <4>2. CASE d # c  BY <1>1, <2>2, <3>1, <3>3, <4>2 DEF RunsFit, Together, OwnCommit
      <4> QED  BY <4>1, <4>2
    <3>4. \A x \in Aliases : Live(x)' <=> Live(x)  BY <1>1 DEF Live
    <3> QED  BY <1>1, <3>2, <3>3, <3>4 DEF Together, OwnCommit
  <2> QED  BY <2>4, <2>5, <2>6, <2>7 DEF RunsFit
<1>8. n \in Nat /\ (n = 1 => \E id : ids = {id}) /\ (n = 0 => ids = {})
  BY <1>2, IdsCounted
<1>9. (CASE n > 1 -> Recording(c, 0) /\ UNCHANGED runs
         [] n = 1 -> (\E id \in ids : Committing(c, id, TRUE)) /\ UNCHANGED runs
         [] OTHER -> runs < MaxIds /\ runs' = runs + 1 /\ Committing(c, runs + 1, TRUE))
  BY Zenon DEF Mint
<1> HIDE DEF n, ids
<1>10. CASE n = 1
  <2>1. PICK id : ids = {id}  BY <1>8, <1>10
  <2>2. Committing(c, id, TRUE)  BY <1>9, <1>10, <2>1 DEF Recording, Committing, Becomes
  <2> QED  BY <1>7, <2>1, <2>2
<1>11. CASE n \notin {0, 1}
  <2>1. n > 1  BY <1>8, <1>11
  <2>2. Recording(c, 0)  BY <1>9, <2>1 DEF Recording, Committing, Becomes
  <2> QED  BY <1>6, <2>2
<1>12. CASE n = 0
  <2>1. ids = {}  BY <1>8, <1>12
  <2>2. Committing(c, runs + 1, TRUE)  BY <1>9, <1>12 DEF Recording, Committing, Becomes
  <2> QED  BY <1>7, <2>1, <2>2
<1> QED  BY <1>10, <1>11, <1>12

LEMMA CommitRuns == ASSUME Typed, RunsFit, NEW c \in Calls, Commit(c) PROVE RunsFit'
<1> DEFINE a == call[c].a
           id == call[c].run
<1>1. call[c].pc = "commit" /\ UNCHANGED <<ledger, seat>>  BY DEF Commit, OnlyRuns
<1>2. a \in Aliases /\ id \in Ids /\ id # 0
  BY <1>1, JoiningFine DEF Joining, Typed, CallsTyped, CallFine
<1>3. run[a] = 0  BY <1>1 DEF RunsFit, LocksHold, Joining
<1>4. CASE Recording(c, 0) /\ UNCHANGED <<run, ghost>>
  <2>1. call'[c] = [pc |-> "record", s |-> call[c].s, a |-> call[c].a, run |-> 0]
        /\ \A d \in Calls \ {c} : call'[d] = call[d]
    BY <1>4, Moves DEF Recording, Typed
  <2>2. JoinStep(c)  BY <1>1, <1>4, <2>1 DEF JoinStep, Joining, LostStays
  <2>3. LookSees'  BY <1>4, <2>1, <2>2, JoinStepLooks
  <2> QED  BY <1>1, <1>4, <2>1, <2>2, <2>3, JoinStepWaits DEF Minting, OwnCommit
<1>5. CASE /\ run' = [run EXCEPT ![a] = id] /\ Recording(c, id)
           /\ ghost' = [ghost EXCEPT !.apart = ghost.apart \/ (~call[c].own /\ id \notin LiveRuns(a))]
  <2>1. call'[c] = [pc |-> "record", s |-> call[c].s, a |-> a, run |-> id]
        /\ \A d \in Calls \ {c} : call'[d] = call[d]
    BY <1>5, Moves DEF Recording, Typed
  <2>2. /\ ghost'.lost = ghost.lost /\ ghost'.stirred = ghost.stirred
        /\ ghost'.apart <=> ghost.apart \/ (~call[c].own /\ id \notin LiveRuns(a))
    BY <1>5 DEF Typed, GhostTyped, Ghosts
  <2>3. JoinStep(c)  BY <1>1, <2>1, <2>2 DEF JoinStep, Joining, LostStays
  <2>4. run'[a] = id /\ \A b \in Aliases \ {a} : run'[b] = run[b]
    BY <1>2, <1>5 DEF Typed, SeatsTyped
  <2> HIDE DEF a, id
  <2>5. LocksHold' /\ PresentAccounted' /\ LeaveNamesItsRun'
    <3>1. call[c].a = a /\ call'[c].run = id /\ call'[c].pc = "record"  BY <2>1 DEF a
    <3> QED  BY <2>3, <2>4, <3>1, JoinStepKeeps
  <2>6. OneMint'
    <3>1. \A d \in Calls : Minting(d)' => Minting(d)  BY <2>1 DEF Minting
    <3> QED  BY <3>1, MintStays DEF RunsFit
  <2>7. Together'
    <3> SUFFICES ASSUME ~ghost'.apart  PROVE Together'
      BY DEF Together
    <3>1. ~ghost.apart /\ (call[c].own \/ id \in LiveRuns(a))  BY <2>2
    <3>2. ~call[c].own => \E y \in Aliases \ {a} : Live(y) /\ run[y] = id
      BY <3>1 DEF LiveRuns
    <3>3. \A x, y \in Aliases : (Live(x) /\ Live(y) /\ run[x] # 0 /\ run[y] # 0) => run[x] = run[y]
      BY <3>1 DEF RunsFit, Together
    <3>4. \A d \in Calls : OwnCommit(d) =>
              \A b \in Aliases \ {call[d].a} : (Live(b) /\ run[b] # 0) => run[b] = call[d].run
      BY <3>1 DEF RunsFit, Together, OwnCommit
    <3>5. ASSUME NEW x \in Aliases \ {a}, Live(x), run[x] # 0  PROVE run[x] = id
      <4>1. CASE call[c].own  BY <1>1, <3>4, <3>5, <4>1 DEF OwnCommit, a, id
      <4>2. CASE ~call[c].own  BY <1>2, <3>2, <3>3, <3>5, <4>2
      <4> QED  BY <4>1, <4>2
    <3>6. ASSUME NEW d \in Calls, OwnCommit(d)', NEW b \in Aliases \ {call'[d].a}, Live(b), run'[b] # 0
          PROVE  run'[b] = call'[d].run
      <4>1. d # c /\ call'[d] = call[d]  BY <2>1, <3>6 DEF OwnCommit
      <4>2. OwnCommit(d) /\ b # call[d].a  BY <3>6, <4>1 DEF OwnCommit
      <4>3. CASE b # a  BY <2>4, <3>4, <3>6, <4>1, <4>2, <4>3
      <4>4. CASE b = a
        <5>1. ~call[c].own  BY <1>1, <4>1, <4>2 DEF RunsFit, OneMint, Minting, OwnCommit
        <5>2. PICK y \in Aliases \ {a} : Live(y) /\ run[y] = id  BY <3>2, <5>1
        <5>3. run[call[d].a] = 0  BY <4>2 DEF RunsFit, LocksHold, Joining, OwnCommit
        <5>4. run[y] = call[d].run  BY <1>2, <3>4, <4>2, <5>2, <5>3
        <5> QED  BY <2>4, <4>1, <4>4, <5>2, <5>4
      <4> QED  BY <4>3, <4>4
    <3>7. \A x, y \in Aliases : (Live(x) /\ Live(y) /\ run'[x] # 0 /\ run'[y] # 0) => run'[x] = run'[y]
      BY <2>4, <3>3, <3>5
    <3>8. \A x \in Aliases : Live(x)' <=> Live(x)  BY <1>1 DEF Live
    <3> QED  BY <3>6, <3>7, <3>8 DEF Together, OwnCommit
  <2>8. LookSees'
    <3>1. CASE call[c].own
      <4>1. \A d \in Calls : call'[d].pc # "minting"
        BY <1>1, <2>1, <3>1 DEF RunsFit, OneMint, Minting
      <4> QED  BY <4>1 DEF LookSees
    <3>2. CASE ~call[c].own
      <4>1. \A d \in Calls : call'[d].pc = "minting" => call'[d] = call[d]  BY <2>1
      <4>2. \A b \in Aliases : Live(b)' <=> Live(b)  BY <1>1 DEF Live
      <4>3. \A b \in Aliases : (Live(b) /\ run[b] # 0) => Live(b)' /\ run'[b] = run[b]
        BY <1>3, <2>4, <4>2 DEF a
      <4>4. ~ghost'.apart => \A b \in Aliases : (Live(b)' /\ run'[b] # 0) =>
                \E y \in Aliases : Live(y) /\ run[y] = run'[b]
        <5> SUFFICES ASSUME ~ghost'.apart, NEW b \in Aliases, Live(b)'
                     PROVE  \E y \in Aliases : Live(y) /\ run[y] = run'[b]
          OBVIOUS
        <5>1. CASE b # a  BY <2>4, <4>2, <5>1
        <5>2. CASE b = a
          <6>1. id \in LiveRuns(a)  BY <2>2, <3>2
          <6>2. PICK y \in Aliases : Live(y) /\ run[y] = id  BY <6>1 DEF LiveRuns
          <6> QED  BY <2>4, <5>2, <6>2
        <5> QED  BY <5>1, <5>2
      <4> QED  BY <2>2, <4>1, <4>3, <4>4, LookStays DEF RunsFit
    <3> QED  BY <3>1, <3>2
  <2> QED  BY <2>5, <2>6, <2>7, <2>8 DEF RunsFit
<1> QED  BY <1>4, <1>5 DEF Commit

\* A call that ends leaves its lock; its peer is in the ledger, or the event is
\* lost.
LEMMA JoinEnds ==
    ASSUME Typed, RunsFit, NEW c \in Calls, Returns(c), UNCHANGED <<seat, run>>, LostStays,
           ghost'.apart = ghost.apart, ghost'.stirred = ghost.stirred, ledger \subseteq ledger',
           \A e \in ledger' \ ledger : e.event = "join",
           call[c].pc \in Joining =>
               JoinEvent(call[c].s, run[call[c].a]) \in ledger' \cup ghost'.lost
    PROVE  RunsFit'
<1> USE DEF RunsFit
<1>1. call'[c] = Idle /\ \A d \in Calls \ {c} : call'[d] = call[d]
  BY Moves DEF Returns, Typed
<1>2. NoNewCall(Joining)  BY <1>1 DEF NoNewCall, Idle, Joining
<1>3. LocksHold'  BY <1>2, LocksStay DEF SeatKept
<1>4. PresentAccounted'
  <2>1. ASSUME NEW b \in Aliases
        PROVE  Accounted(b)' \/ (Locked(b) => Locked(b)')
    <3>1. CASE call[c].pc \in Joining /\ call[c].a = b
      <4>1. call[c].s = seat[b].sid  BY <3>1 DEF LocksHold
      <4>2. JoinEvent(seat[b].sid, run[b])' = JoinEvent(call[c].s, run[call[c].a])
        BY <3>1, <4>1 DEF JoinEvent
      <4> QED  BY <3>1, <4>2 DEF Accounted
    <3>2. CASE ~(call[c].pc \in Joining /\ call[c].a = b)
      BY <1>1, <3>2 DEF Locked
    <3> QED  BY <3>1, <3>2
  <2>2. \A b \in Aliases : Present(b)' => Present(b)  BY DEF Present
  <2> QED  BY <2>1, <2>2, AccountsStay
<1>5. LeaveNamesItsRun'  BY LeavesStay
<1>6. OneMint'  BY <1>2, SameMints, MintStays
<1>7. Together'  BY <1>2, SameMints, TogetherStays DEF Live
<1>8. LookSees'  BY <1>2, SameMints, LookStays DEF Live
<1> QED  BY <1>3, <1>4, <1>5, <1>6, <1>7, <1>8

LEMMA RecordJoinRuns == ASSUME Typed, RunsFit, NEW c \in Calls, RecordJoin(c) PROVE RunsFit'
<1>1. call[c].pc \in Joining /\ run[call[c].a] = call[c].run
  BY DEF RecordJoin, RunsFit, LocksHold, Joining
<1> DEFINE e == JoinEvent(call[c].s, call[c].run)
<1>2. e.event = "join"  BY DEF JoinEvent
<1>3. e \in Events
  BY JoinEventFine DEF RecordJoin, Joining, Typed, CallsTyped, CallFine, Seating
<1>4. /\ Returns(c) /\ UNCHANGED <<seat, run>>
      /\ \/ ledger' = ledger \cup {e} /\ ghost' = ghost
         \/ ledger' = ledger /\ ghost' = [ghost EXCEPT !.lost = @ \cup {e}]
  BY DEF RecordJoin, OnlyRuns
<1>5. JoinEvent(call[c].s, run[call[c].a]) = e  BY <1>1
<1> HIDE DEF e
<1>6. CASE ledger' = ledger \cup {e} /\ ghost' = ghost
  BY <1>2, <1>4, <1>5, <1>6, JoinEnds DEF LostStays
<1>7. CASE ledger' = ledger /\ ghost' = [ghost EXCEPT !.lost = @ \cup {e}]
  <2>1. ghost'.lost = ghost.lost \cup {e} /\ ghost'.apart = ghost.apart /\ ghost'.stirred = ghost.stirred
    BY <1>3, <1>7, EventLost DEF Typed
  <2> QED  BY <1>4, <1>5, <1>7, <2>1, JoinEnds DEF LostStays
<1> QED  BY <1>4, <1>6, <1>7

LEMMA KilledRuns == ASSUME Typed, RunsFit, NEW c \in Calls, Killed(c) PROVE RunsFit'
<1>1. Returns(c) /\ UNCHANGED <<seat, run, ledger>>  BY DEF Killed, OnlyRuns
<1>2. /\ ghost'.apart = ghost.apart /\ ghost'.stirred = ghost.stirred
      /\ ghost.lost \subseteq ghost'.lost
      /\ call[c].pc \in Joining => JoinEvent(call[c].s, run[call[c].a]) \in ghost'.lost
  BY KilledLeaves, EntryCut, EventLost DEF Typed, Joining
<1> QED  BY <1>1, <1>2, JoinEnds DEF LostStays

LEMMA JoinClaimsRuns == ASSUME Typed, RunsFit, NEW c \in Calls, JoinClaims(c) PROVE RunsFit'
<1> USE DEF RunsFit
<1> DEFINE a == call[c].a
           s == call[c].s
<1>1. call[c].pc = "claim" /\ ~Locked(a) /\ UNCHANGED ledger  BY DEF JoinClaims
<1>2. a \in Aliases  BY <1>1 DEF Typed, CallsTyped, CallFine, Seating
<1>3. (ghost' = ghost \/ ghost' = Stirs) => LostStays /\ ghost'.apart = ghost.apart
  BY StirsNotes DEF LostStays, Typed
<1>4. CASE Returns(c) /\ UNCHANGED <<seat, run, ghost>>
  BY <1>1, <1>3, <1>4, JoinEnds DEF Joining
<1>5. CASE /\ seat' = [seat EXCEPT ![a] = [sid |-> s, st |-> "unarmed"]]
           /\ run' = [run EXCEPT ![a] = 0] /\ ghost' = Stirs
           /\ Looking(c, "resolve", FALSE, {}, Nobody, {})
  <2>1. call'[c].pc = "resolve" /\ call'[c].s = s /\ call'[c].a = a
        /\ \A d \in Calls \ {c} : call'[d] = call[d]
    <3> DEFINE f == [pc |-> "resolve", s |-> s, a |-> a, was |-> "resolve" = "resolve" /\ call[c].was,
                     listed |-> FALSE, todo |-> {}, at |-> Nobody, ids |-> {}]
    <3>1. Becomes(c, f) /\ f.pc = "resolve" /\ f.s = s /\ f.a = a  BY <1>5 DEF Looking
    <3> HIDE DEF f
    <3> QED  BY <3>1, Moves DEF Typed
  <2>2. /\ seat'[a] = [sid |-> s, st |-> "unarmed"] /\ run'[a] = 0
        /\ \A b \in Aliases \ {a} : seat'[b] = seat[b] /\ run'[b] = run[b]
    BY <1>2, <1>5 DEF Typed, SeatsTyped
  <2>3. call'[c].a = a /\ call'[c].s = s /\ call'[c].pc = "resolve"  BY <2>1
  <2>4. \A d \in Calls \ {c} : call[d].pc \in Joining => call[d].a # a  BY <1>1 DEF Locked
  <2> HIDE DEF a, s
  <2>5. LocksHold'
    <3>1. \A d, e \in Calls :
              (call'[d].pc \in Joining /\ call'[e].pc \in Joining /\ call'[d].a = call'[e].a) => d = e
      BY <2>1, <2>3, <2>4 DEF LocksHold
    <3>2. ASSUME NEW d \in Calls, call'[d].pc \in Joining
          PROVE  /\ seat'[call'[d].a].sid = call'[d].s /\ seat'[call'[d].a].st # "free"
                 /\ run'[call'[d].a] = IF call'[d].pc = "record" THEN call'[d].run ELSE 0
      <4>1. CASE d = c  BY <2>2, <2>3, <4>1
      <4>2. CASE d # c
        <5>1. call'[d] = call[d]  BY <2>1, <4>2
        <5>2. call[d].a \in Aliases \ {a}
          BY <2>4, <3>2, <4>2, <5>1, JoiningFine DEF Typed
        <5> QED  BY <2>2, <3>2, <5>1, <5>2 DEF LocksHold, Present
      <4> QED  BY <4>1, <4>2
    <3> QED  BY <3>1, <3>2 DEF LocksHold, Present, Joining
  <2>6. PresentAccounted'
    <3>1. \A b \in Aliases : Locked(b) => Locked(b)'
      BY <1>1, <2>1 DEF Locked, Joining
    <3>2. ASSUME NEW b \in Aliases, b = a  PROVE Locked(b)'
      BY <2>3, <3>2 DEF Locked, Joining
    <3>3. \A b \in Aliases \ {a} : Present(b)' => Present(b) /\ seat'[b].sid = seat[b].sid /\ run'[b] = run[b]
      BY <2>2 DEF Present
    <3>4. \A b \in Aliases : b = a => Accounted(b)'  BY <3>2 DEF Accounted
    <3> QED  BY <1>1, <1>3, <1>5, <3>1, <3>3, <3>4, AccountsStay
  <2>7. LeaveNamesItsRun'  BY <1>1, <1>3, <1>5, LeavesStay
  <2>8. OneMint'
    <3>1. \A d \in Calls : Minting(d)' => Minting(d)  BY <2>1, <2>3 DEF Minting
    <3> QED  BY <3>1, MintStays
  <2>9. Together'
    <3>1. \A d \in Calls : OwnCommit(d)' => call'[d] = call[d]  BY <2>1, <2>3 DEF OwnCommit
    <3>2. \A b \in Aliases : (Live(b)' /\ run'[b] # 0) => Live(b) /\ run[b] = run'[b]
      BY <2>2 DEF Live
    <3> QED  BY <1>3, <1>5, <3>1, <3>2, TogetherStays
  <2>10. LookSees'
    <3>1. \A d \in Calls : call'[d].pc = "minting" => call'[d] = call[d]  BY <2>1, <2>3
    <3> QED  BY <1>5, <3>1, StirsLook
  <2> QED  BY <2>5, <2>6, <2>7, <2>8, <2>9, <2>10
<1> QED  BY <1>4, <1>5 DEF JoinClaims

LEMMA RunsKept == ASSUME Typed, RunsFit, [Next]_vars PROVE RunsFit'
<1>1. ASSUME NEW c \in Calls, JoinStepOf(c)  PROVE RunsFit'
  BY <1>1, JoinBeginsRuns, JoinClaimsRuns, ListsRuns, LooksAtRuns, ReadsClaimRuns, ResolveRuns,
     AdoptRuns, AcquireMintLockRuns, MintRuns, CommitRuns, RecordJoinRuns DEF JoinStepOf
<1>2. ASSUME NEW c \in Calls, Killed(c)  PROVE RunsFit'
  BY <1>2, KilledRuns
<1>3. ASSUME NEW a \in Aliases, Leave(a) \/ Dies(a) \/ Arm(a)  PROVE RunsFit'
  BY <1>3, LeaveRuns, DiesRuns, ArmRuns
<1>4. ASSUME NEW a \in Aliases, NEW b \in Aliases, Rename(a, b)  PROVE RunsFit'
  BY <1>4, RenameRuns
<1>5. ASSUME NEW c \in Calls, GrantAsks(c) \/ GrantConfirmed(c) \/ UseGrant(c) \/ TakeGrant(c)
      PROVE  RunsAlone
  BY <1>5, GrantsFrame
<1>6. ASSUME NEW c \in Calls, NewPermit(c) \/ WritePermit(c) \/ UsePermit(c) \/ CountUse(c)
      PROVE  RunsAlone
  BY <1>6, PermitsFrame
<1>7. ASSUME NEW c \in Calls, ClaimDenied(c) \/ TellDenied(c) \/ ReleaseDenied(c)  PROVE RunsAlone
  BY <1>7, DenialsFrame
<1>8. ASSUME NEW c \in Calls, Stop(c) \/ Report(c) \/ WriteMark(c)  PROVE RunsAlone
  BY <1>8, FallbacksFrame
<1>9. ASSUME NEW a \in Aliases, WindowPasses(a)  PROVE RunsAlone
  BY <1>9, WindowFrame
<1>10. ASSUME NEW a \in Aliases, NEW b \in Aliases, Assign(a, b)  PROVE RunsAlone
  BY <1>10, AssignFrame
<1>11. ASSUME NEW i \in Ids, RevokeGrant(i) \/ GrantExpires(i) \/ RevokePermit(i) \/ PermitExpires(i)
       PROVE  RunsAlone
  BY <1>11, EndsFrame
<1>12. ASSUME NEW s \in Sessions, Fall(s)  PROVE RunsAlone
  BY <1>12, FallFrame
<1>13. CASE UNCHANGED vars  BY <1>13, StutterFrame, RunsQuiet
<1> QED
  BY <1>1, <1>2, <1>3, <1>4, <1>5, <1>6, <1>7, <1>8, <1>9, <1>10, <1>11, <1>12, <1>13, RunsQuiet DEF Next, JoinStepOf

LEMMA TogetherIsOneRun == Typed /\ Together => OneRun
<1> SUFFICES ASSUME Typed, Together, ~ghost.apart  PROVE ~(Cardinality(LiveRuns(Nobody)) > 1)
  BY DEF OneRun
<1>1. \A i, j \in LiveRuns(Nobody) : i = j  BY DEF Together, LiveRuns
<1>2. CASE LiveRuns(Nobody) = {}  BY <1>2, FS_EmptySet
<1>3. CASE LiveRuns(Nobody) # {}
  <2>1. PICK i : LiveRuns(Nobody) = {i}  BY <1>1, <1>3
  <2>2. Cardinality({i}) = 1  BY FS_Singleton
  <2>3. Cardinality(LiveRuns(Nobody)) = 1  BY <2>1, <2>2
  <2> QED  BY <2>3
<1> QED  BY <1>2, <1>3

-----------------------------------------------------------------------------
(* What may still come. *)

LEMMA Spends == ASSUME LeftTyped, NEW K, Spend(K) PROVE LeftTyped'
BY DEF LeftTyped, Spend

LEMMA LeftKept == ASSUME LeftTyped, [Next]_vars PROVE LeftTyped'
<1>1. CASE UNCHANGED left  BY <1>1 DEF LeftTyped
<1>2. CASE UNCHANGED vars  BY <1>1, <1>2 DEF vars
<1>3. ASSUME NEW c \in Calls, JoinStepOf(c) \/ Killed(c)  PROVE LeftTyped'
  BY <1>1, <1>3, Spends
     DEF JoinStepOf, JoinBegins, JoinClaims, Lists, LooksAt, ReadsClaim, Resolve, Adopt,
         AcquireMintLock, Mint, Commit, RecordJoin, Killed, Logs, Stuck
<1>4. ASSUME NEW c \in Calls, GrantAsks(c) \/ GrantConfirmed(c) \/ UseGrant(c) \/ TakeGrant(c)
                              \/ NewPermit(c) \/ WritePermit(c) \/ UsePermit(c) \/ CountUse(c)
      PROVE  LeftTyped'
  BY <1>1, <1>4, Spends
     DEF GrantAsks, GrantConfirmed, UseGrant, TakeGrant, NewPermit, WritePermit, UsePermit,
         CountUse, Starts, Stuck
<1>5. ASSUME NEW c \in Calls, ClaimDenied(c) \/ TellDenied(c) \/ ReleaseDenied(c)
                              \/ Stop(c) \/ Report(c) \/ WriteMark(c)
      PROVE  LeftTyped'
  <2>1. CASE ClaimDenied(c) \/ TellDenied(c) \/ ReleaseDenied(c)
    BY <1>1, <2>1, Spends DEF ClaimDenied, TellDenied, ReleaseDenied, Stuck
  <2>2. CASE Stop(c)  BY <2>2, Spends DEF Stop, Starts
  <2>3. CASE Report(c) \/ WriteMark(c)  BY <1>1, <2>3, Spends DEF Report, WriteMark, Stuck
  <2> QED  BY <1>5, <2>1, <2>2, <2>3
<1>6. ASSUME NEW a \in Aliases, Leave(a) \/ Dies(a) \/ Arm(a) \/ WindowPasses(a)  PROVE LeftTyped'
  BY <1>6, Spends DEF Leave, Dies, Arm, WindowPasses, Logs
<1>7. ASSUME NEW a \in Aliases, NEW b \in Aliases, Rename(a, b) \/ Assign(a, b)  PROVE LeftTyped'
  BY <1>7, Spends DEF Rename, Assign
<1>8. ASSUME NEW i \in Ids, RevokeGrant(i) \/ GrantExpires(i) \/ RevokePermit(i) \/ PermitExpires(i)
      PROVE  LeftTyped'
  BY <1>8, Spends DEF RevokeGrant, GrantExpires, RevokePermit, PermitExpires
<1>9. ASSUME NEW s \in Sessions, Fall(s)  PROVE LeftTyped'
  BY <1>9, Spends DEF Fall
<1> QED
  BY <1>2, <1>3, <1>4, <1>5, <1>6, <1>7, <1>8, <1>9 DEF Next, JoinStepOf

-----------------------------------------------------------------------------
(* The invariant, and what it says. *)

LEMMA InitInvariant == Init => IInv
<1> SUFFICES ASSUME Init PROVE IInv
  OBVIOUS
<1>1. Typed  BY InitTyped
<1>2. /\ \A c \in Calls : call[c].pc = "idle"
      /\ ghost = NoGhost
  BY DEF Init, Idle
<1>3. GrantsFit /\ PermitsFit /\ ReportsTold /\ OneMint
  BY <1>2 DEF GrantsFit, PermitsFit, ReportsTold, OneMint, Minting, NoGhost
<1>4. DenialWasTold /\ FallbackWasTold
  <2>1. denial = [a \in Aliases |-> NoDenial] /\ mark = [a \in Aliases |-> NoMark]  BY DEF Init
  <2> QED  BY <2>1 DEF DenialWasTold, FallbackWasTold, NoDenial, NoMark
<1>5. LocksHold  BY <1>2 DEF LocksHold, Joining
<1>6. PresentAccounted
  <2>1. \A a \in Aliases : Present(a) => JoinEvent(seat[a].sid, 0) \in ledger  BY InitSeats
  <2>2. run = [a \in Aliases |-> 0]  BY DEF Init
  <2>3. \A a \in Aliases : run[a] = 0  BY <2>2
  <2> QED  BY <2>1, <2>3 DEF PresentAccounted, Accounted
<1>7. LeaveNamesItsRun
  <2>1. \A e \in ledger : e.event = "join"  BY InitSeats DEF JoinEvent
  <2> QED  BY <2>1 DEF LeaveNamesItsRun
<1>8. Together
  <2>1. run = [a \in Aliases |-> 0]  BY DEF Init
  <2> QED  BY <1>2, <2>1 DEF Together
<1>9. LookSees  BY <1>2 DEF LookSees
<1>10. LeftTyped  BY DEF Init, LeftTyped
<1> QED  BY <1>1, <1>3, <1>4, <1>5, <1>6, <1>7, <1>8, <1>9, <1>10 DEF IInv

\* What keeps the records in order, whatever the calls and in whatever order.
THEOREM Inductive == Spec => []IInv
<1>1. IInv /\ [Next]_vars => IInv'
  BY StepTyped, GrantsKept, PermitsKept, DenialsKept, MarksKept, RunsKept, LeftKept DEF IInv, RunsFit
<1> QED  BY <1>1, InitInvariant, PTL DEF Spec

\* Every record, claim, event and call is of its kind, through every command,
\* hook and mishap.
THEOREM Types == Spec => []TypeOK
<1>1. IInv => TypeOK  BY TypedTypes DEF IInv
<1> QED  BY <1>1, Inductive, PTL

\* An operator's grant is used only by the session it was shown for, and a
\* once grant once, whatever happens to the alias and however uses race
\* (NewGrant, UseGrant); what a permit was used for is within the words its
\* coordinator wrote (UsePermit, permitRefusal).
THEOREM UsesAreGranted == Spec => []UseIsGranted
<1>1. IInv => GrantIsItsSessions
  <2>1. Typed /\ GrantsFit => GrantIsItsSessions
    BY DEF GrantsFit, GrantFits, GrantIsItsSessions
  <2> QED  BY <2>1 DEF IInv
<1>2. IInv => UseIsWithinItsWords  BY FitsAllows DEF IInv
<1>3. IInv => UseIsGranted  BY <1>1, <1>2 DEF UseIsGranted
<1> QED  BY <1>3, Inductive, PTL

\* What is no longer told, of a denial or of a model fallback, was told
\* (HookDenied, HookRegressed).
THEOREM Silenced == Spec => []SilencedWasTold
<1>1. IInv => SilencedWasTold  BY DEF IInv, SilencedWasTold
<1> QED  BY <1>1, Inductive, PTL

\* Live peers are of one run and the ledger closes what it opened, however
\* joins race with each other, and with what the two parts name as exceptions
\* (ResolveRunForJoin, liveRuns, RecordEventInRun, Leave).
THEOREM RunsAgree == Spec => []RunsHoldTogether
<1>1. IInv => RunsHoldTogether  BY TogetherIsOneRun DEF IInv, RunsHoldTogether
<1> QED  BY <1>1, Inductive, PTL

=============================================================================
