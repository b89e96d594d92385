----------------------------- MODULE RelayProofs -----------------------------
(***************************************************************************)
(* The safety of Relay for any consumers, slots, items and bounds: nothing *)
(* accepted is lost, an inbox holds an item once and its mail in order, a  *)
(* notice reaches the epoch it was published for, and only the holder of   *)
(* the mailbox settles a message.                                          *)
(*                                                                         *)
(* The wire: a session carries one message at a time, in one place, either *)
(* on its way down, or in the consumer's hands, or as an acknowledgement   *)
(* on its way up; by then it is synced.                                    *)
(*                                                                         *)
(* The order: when the relay sends a mail, every earlier mail has left     *)
(* new/, so one that returns (a rename undone by a crash) is synced        *)
(* somewhere.                                                              *)
(*                                                                         *)
(* The last section shows that Relay implements Postbox.                   *)
(***************************************************************************)
EXTENDS Relay, FiniteSetTheorems, SequenceTheorems, WellFoundedInduction, TLAPS

\* Some consumer has i in its synced inbox.
Stored(i) == \E c \in Consumers : Durable(c, i)

\* The positions of the messages under way down, and of the acknowledgements.
Down(r) == {k \in 1 .. Len(r.down) : r.down[k].type = "message"}
Up(r)   == {k \in 1 .. Len(r.up) : r.up[k].type = "ack"}

\* A session carries its outstanding message and no other, in one place.
Carries(r) ==
    /\ \A k \in Down(r) : r.down[k].id = r.out /\ \A l \in Down(r) : k = l
    /\ \A k \in Up(r) : r.up[k].id = r.out /\ \A l \in Up(r) : k = l
    /\ Down(r) = {} \/ Up(r) = {}

\* What a session says is so: what it acknowledges is synced, what the relay
\* answers is journaled, and a notice is for its consumer.
SlotFine(s) ==
    LET r == session[s] IN
    /\ r.consumer \in Consumers \/ (~r.server /\ r.down = <<>> /\ r.up = <<>>)
    /\ Carries(r)
    /\ \A k \in Up(r) : Durable(r.consumer, r.up[k].id)
    /\ \A k \in 1 .. Len(r.down) : r.down[k].type # "message" => r.down[k].id \in announced[r.consumer]
    /\ r.out \in Notices => addressee[r.out] = r.consumer

\* c has a message of its socket in its hands.
Works(c) == sub[c].at \in {"append", "sync", "ack"}

Earlier(m) == {i \in Mail : i < m}

\* Who is on the wire reads its own session, at the open end; a message in
\* its hands is the outstanding one, is in the inbox before the sync, and
\* stored when later mail is in the inbox.
WireFine(c) ==
    OnWire(c) =>
        LET s == sub[c].slot  r == session[s]  i == sub[c].hand IN
        /\ s \in Slots /\ r.consumer = c /\ r.client
        /\ Works(c) => i \in Items /\ i = r.out /\ Down(r) = {} /\ Up(r) = {}
        /\ sub[c].at = "sync" => InInbox(c, i)
        /\ sub[c].at = "ack" => Durable(c, i)
        /\ sub[c].at = "pop" => i \in announced[c]
        /\ \A m \in Mail : InInbox(c, m) /\ r.out \in Earlier(m) => Stored(r.out)

WiresFine == (\A s \in Slots : SlotFine(s)) /\ (\A c \in Consumers : WireFine(c))

Unplugged == \A c \in Consumers : ~OnWire(c) => sub[c].slot = NoSlot

\* What may come back from cur/ is stored; what is being posted is not
\* accepted yet; what an inbox holds had a name.
Backed ==
    /\ \A i \in loose \cap Mail : Stored(i)
    /\ posting # 0 => posting \in queued \cap Mail /\ posting \notin accepted
    /\ \A c \in Consumers, i \in Items : InInbox(c, i) => i \in named

\* Before m was sent, every earlier mail had been named, and had left new/.
Seen(m) == (\E c \in Consumers : InInbox(c, m)) \/ (\E s \in Slots : session[s].out = m)
SentInOrder ==
    /\ \A m \in Mail : m \in queued \cup loose => Earlier(m) \subseteq named
    /\ \A m \in Mail : Seen(m) =>
          \A i \in Earlier(m) : i \in named /\ (i \in queued \cup loose => Stored(i))

IInv ==
    /\ TypeOK /\ WiresFine /\ Unplugged /\ Backed /\ SentInOrder
    /\ NothingAcceptedIsLost /\ InboxHoldsOnceInOrder /\ NoticeReachesItsEpoch

-----------------------------------------------------------------------------
(* Numbers, sequences and types. *)

LEMMA Numbers ==
    /\ Items \subseteq Nat /\ 0 \notin Items /\ Notices \subseteq Items /\ Mail \subseteq Items
    /\ Events \subseteq Nat /\ 0 \notin Events /\ LastItem \in Nat /\ MaxEvents \in Nat /\ MaxFaults \in Nat
    /\ NoOne \notin Consumers /\ NoSlot \notin Slots
BY ConstantsAssumption DEF Items, Mail, Events

Below == {p \in Nat \X Nat : p[1] < p[2]}

LEMMA LeastIsMin ==
    ASSUME NEW S, S \subseteq Nat, S # {}
    PROVE  Min(S) \in S /\ \A y \in S : Min(S) <= y
<1>1. OpToRel(<, Nat) = Below
  BY DEF OpToRel, Below
<1>2. IsWellFoundedOn(Below, Nat)
  BY <1>1, NatLessThanWellFounded, Zenon
<1>3. \A x, y \in Nat : <<x, y>> \in Below <=> x < y
  BY DEF Below
<1>4. PICK x \in S : \A y \in S : ~(<<y, x>> \in Below)
  BY <1>2, WFMin
<1>5. \A y \in S : ~(y < x)
  BY <1>3, <1>4
<1>6. \A y \in S : x <= y
  BY <1>5
<1> QED
  BY <1>6 DEF Min

LEMMA ToSetIs ==
    ASSUME NEW S, NEW q \in Seq(S)
    PROVE  \A e : e \in ToSet(q) <=> \E k \in 1 .. Len(q) : q[k] = e
BY DEF ToSet

LEMMA InjectiveIs ==
    ASSUME NEW S, NEW q \in Seq(S)
    PROVE  IsInjective(q) <=> \A j, k \in 1 .. Len(q) : q[j] = q[k] => j = k
BY DEF IsInjective

Pipes == Seq(Frames)
EventNumbers == 0 .. MaxEvents

Session ==
    [consumer : Consumers \cup {NoOne}, server : BOOLEAN, client : BOOLEAN,
     out : {0} \cup Items, ignored : BOOLEAN, down : Pipes, up : Pipes]
Sub ==
    [at : {"off", "dial", "read", "append", "sync", "ack", "pop"}, slot : Slots \cup {NoSlot},
     hand : Nat, sent : EventNumbers, cancelled : BOOLEAN]
Outboxes == Seq(Events)
Record ==
    [state : {"absent", "ready", "disconnected"}, online : BOOLEAN,
     outbox : Outboxes, last : EventNumbers]
Inboxes == Seq(Items)

\* The conjuncts of TypeOK, by what they speak of.
SpoolTyped ==
    /\ named \subseteq Items /\ queued \subseteq named /\ loose \subseteq named \ queued
    /\ posting \in {0} \cup named /\ accepted \subseteq named
    /\ addressee \in [Notices -> Consumers \cup {NoOne}]
    /\ owner \in Consumers \cup {NoOne}
SessionTyped ==
    /\ tail \in Slots \cup {NoSlot}
    /\ session \in [Slots -> Session] /\ \A s \in Slots : session[s].out \in {0} \cup named
RecordTyped ==
    /\ announced \in [Consumers -> SUBSET Events] /\ record \in [Consumers -> Record]
InboxTyped ==
    /\ inbox \in [Consumers -> Inboxes]
    /\ synced \in [Consumers -> Nat] /\ \A c \in Consumers : synced[c] <= Len(inbox[c])
    /\ partial \in [Consumers -> BOOLEAN]
SubTyped ==
    /\ sub \in [Consumers -> Sub] /\ stopping \in [Consumers -> BOOLEAN]
    /\ faults \in 0 .. MaxFaults

LEMMA TypeOKIs == TypeOK <=> SpoolTyped /\ SessionTyped /\ RecordTyped /\ InboxTyped /\ SubTyped
<1> DEFINE Narrow == [consumer : Consumers \cup {NoOne}, server : BOOLEAN,
                      client : BOOLEAN, out : {0} \cup named, ignored : BOOLEAN,
                      down : Pipes, up : Pipes]
<1>1. ASSUME named \subseteq Items
      PROVE  session \in [Slots -> Narrow] <=>
                session \in [Slots -> Session] /\ \A s \in Slots : session[s].out \in {0} \cup named
  <2>1. \A r : r \in Narrow <=> r \in Session /\ r.out \in {0} \cup named
    BY <1>1 DEF Session
  <2> HIDE DEF Narrow
  <2> QED
    BY <2>1
<1>2. (\A c \in Consumers : synced[c] \in Nat /\ synced[c] <= Len(inbox[c])) /\ synced \in [Consumers -> Nat]
         <=> synced \in [Consumers -> Nat] /\ \A c \in Consumers : synced[c] <= Len(inbox[c])
  OBVIOUS
<1> QED
  BY <1>1, <1>2 DEF TypeOK, SpoolTyped, SessionTyped, RecordTyped, InboxTyped, SubTyped, Pipes, EventNumbers,
     Sub, Outboxes, Record, Inboxes

\* The empty session, and what the two ends' closing makes of one.
Fades(r, q) ==
    /\ q \in Session /\ q.out \in {0, r.out}
    /\ \/ q = NoSession
       \/ /\ q.consumer = r.consumer /\ q.out = r.out
          /\ q.down = r.down \/ q.down = <<>>
          /\ q.up = r.up \/ q.up = <<>>
    /\ q.client => r.client
    /\ q.server => r.server

LEMMA NoSessionIs ==
    /\ NoSession \in Session /\ NoSession.client = FALSE /\ NoSession.out = 0 /\ NoSession.consumer = NoOne
    /\ NoSession.down = <<>> /\ NoSession.up = <<>> /\ NoSession.server = FALSE
BY DEF NoSession, Session, Pipes

LEMMA NoSubIs ==
    /\ NoSub \in Sub /\ NoSub.at = "off" /\ Dialing \in Sub /\ Dialing.at = "dial"
<1>1. 0 \in EventNumbers
  BY Numbers DEF EventNumbers
<1>2. NoSub \in Sub /\ NoSub.at = "off"
  BY <1>1 DEF NoSub, Sub
<1>3. Dialing = [NoSub EXCEPT !.at = "dial"]
  BY DEF Dialing
<1>4. Dialing \in Sub /\ Dialing.at = "dial"
  BY <1>2, <1>3 DEF Sub
<1> QED
  BY <1>2, <1>4

LEMMA FadesSame == ASSUME NEW r \in Session PROVE Fades(r, r)
BY DEF Fades

LEMMA FadesServer ==
    ASSUME NEW r \in Session
    PROVE  LET q == Tidy([r EXCEPT !.server = FALSE, !.up = <<>>]) IN
           Fades(r, q) /\ (r.client => q.client)
<1> DEFINE q == [r EXCEPT !.server = FALSE, !.up = <<>>]
<1>0. <<>> \in Pipes
  BY DEF Pipes
<1>1. /\ q \in Session /\ q.consumer = r.consumer /\ q.out = r.out /\ q.down = r.down
      /\ q.up = <<>> /\ q.client = r.client /\ q.server = FALSE /\ q.out \in {0} \cup Items
  BY <1>0 DEF Session
<1>2. Tidy(q) = q \/ (Tidy(q) = NoSession /\ ~q.client)
  BY DEF Tidy
<1> HIDE DEF q
<1>3. Fades(r, Tidy(q)) /\ (r.client => Tidy(q).client)
  BY <1>1, <1>2, NoSessionIs DEF Fades
<1> QED
  BY <1>3 DEF q

LEMMA FadesClient ==
    ASSUME NEW r \in Session
    PROVE  LET q == Tidy([r EXCEPT !.client = FALSE, !.down = <<>>]) IN Fades(r, q)
<1> DEFINE q == [r EXCEPT !.client = FALSE, !.down = <<>>]
<1>0. <<>> \in Pipes
  BY DEF Pipes
<1>1. /\ q \in Session /\ q.consumer = r.consumer /\ q.out = r.out /\ q.up = r.up
      /\ q.down = <<>> /\ q.client = FALSE /\ q.server = r.server
  BY <1>0 DEF Session
<1>2. Tidy(q) = q \/ Tidy(q) = NoSession
  BY DEF Tidy
<1> HIDE DEF q
<1>3. Fades(r, Tidy(q))
  BY <1>1, <1>2, NoSessionIs DEF Fades
<1> QED
  BY <1>3 DEF q

-----------------------------------------------------------------------------
(* What the shapes of a step are. *)

LEMMA Typed ==
    ASSUME TypeOK
    PROVE  /\ session \in [Slots -> Session] /\ sub \in [Consumers -> Sub]
           /\ inbox \in [Consumers -> Seq(Items)] /\ synced \in [Consumers -> Nat]
           /\ \A s \in Slots : session[s] \in Session /\ session[s].down \in Seq(Frames)
                                  /\ session[s].up \in Seq(Frames)
           /\ \A c \in Consumers : /\ sub[c] \in Sub /\ inbox[c] \in Seq(Items)
                                   /\ synced[c] \in Nat /\ synced[c] <= Len(inbox[c])
<1>1. SessionTyped /\ InboxTyped /\ SubTyped
  BY TypeOKIs
<1>2. \A r \in Session : r.down \in Seq(Frames) /\ r.up \in Seq(Frames)
  BY DEF Session, Pipes
<1> QED
  BY <1>1, <1>2 DEF SessionTyped, InboxTyped, SubTyped, Inboxes

\* The handler of s returns.
LEMMA ReturnsShape ==
    ASSUME TypeOK, NEW s \in Slots, HandlerReturns(s)
    PROVE  \A t \in Slots : Fades(session[t], session'[t]) /\ (session[t].client => session'[t].client)
<1> DEFINE q == Tidy([session[s] EXCEPT !.server = FALSE, !.up = <<>>])
<1>0. session \in [Slots -> Session] /\ session[s] \in Session
  BY Typed
<1>1. session' = [session EXCEPT ![s] = q]
  BY DEF HandlerReturns
<1>2. Fades(session[s], q) /\ (session[s].client => q.client)
  BY <1>0, FadesServer
<1> HIDE DEF q
<1> QED
  BY <1>0, <1>1, <1>2, FadesSame

\* c hangs up: its session fades, and it is off the wire.
LEMMA HangsUpShape ==
    ASSUME TypeOK, NEW c \in Consumers, sub[c].slot \in Slots, ClientHangsUp(c)
    PROVE  /\ \A t \in Slots : Fades(session[t], session'[t])
           /\ \A t \in Slots : t # sub[c].slot => session'[t] = session[t]
           /\ sub'[c].at \in {"off", "dial"} /\ \A d \in Consumers : d # c => sub'[d] = sub[d]
           /\ sub'[c] \in Sub
<1> DEFINE s == sub[c].slot
           q == Tidy([session[s] EXCEPT !.client = FALSE, !.down = <<>>])
<1>0. session \in [Slots -> Session] /\ session[s] \in Session /\ sub \in [Consumers -> Sub]
  BY Typed
<1>1. session' = [session EXCEPT ![s] = q]
  BY DEF ClientHangsUp
<1>2. Fades(session[s], q)
  BY <1>0, FadesClient
<1>3. NoSub \in Sub /\ Dialing \in Sub /\ NoSub.at = "off" /\ Dialing.at = "dial"
  BY NoSubIs
<1>4. sub'[c] \in {NoSub, Dialing} /\ \A d \in Consumers : d # c => sub'[d] = sub[d]
  BY <1>0 DEF ClientHangsUp
<1> HIDE DEF q
<1>5. \A t \in Slots : Fades(session[t], session'[t])
  BY <1>0, <1>1, <1>2, FadesSame
<1> QED
  BY <1>0, <1>1, <1>3, <1>4, <1>5

\* What becomes of the inboxes: one gains the message in its consumer's
\* hands, or one loses unsynced records with its consumer off the wire.
Appends(c) ==
    /\ sub[c].at = "append" /\ ~InInbox(c, sub[c].hand) /\ sub'[c].at = "sync"
    /\ inbox' = [inbox EXCEPT ![c] = Append(@, sub[c].hand)] /\ synced' = synced
Truncates(c) ==
    /\ sub'[c].at = "off" /\ synced' = synced
    /\ \E kept \in synced[c] .. Len(inbox[c]) : inbox' = [inbox EXCEPT ![c] = SubSeq(@, 1, kept)]
Syncs(c) ==
    /\ inbox' = inbox /\ synced' = [synced EXCEPT ![c] = Len(inbox[c])]

LEMMA InboxStep ==
    ASSUME TypeOK, [Next]_vars
    PROVE  \/ UNCHANGED <<inbox, synced>>
           \/ \E c \in Consumers : Appends(c) \/ Truncates(c) \/ Syncs(c)
<1> DEFINE Goal == \/ UNCHANGED <<inbox, synced>>
                   \/ \E c \in Consumers : Appends(c) \/ Truncates(c) \/ Syncs(c)
<1>0. sub \in [Consumers -> Sub]
  BY Typed
<1>1. ASSUME Post \/ PostAnswers \/ (\E i \in Notices : PostNotice(i)) \/ ServerDies \/ UNCHANGED vars
      PROVE  UNCHANGED <<inbox, synced>>
  BY <1>1 DEF Post, PostAnswers, PostNotice, ServerDies, vars, diskVars
<1>2. ASSUME NEW s \in Slots, Handler(s)
      PROVE  UNCHANGED <<inbox, synced>>
  BY <1>2 DEF Handler, ServerSend, ServerAck, ServerPresence, ServerCloses, MarkDelivered, diskVars
<1>3. ASSUME NEW c \in Consumers,
             \/ Start(c) \/ RunEnds(c) \/ Dial(c) \/ ClientReads(c) \/ ClientAcks(c) \/ ClientPops(c)
             \/ PopGivesUp(c) \/ Publish(c) \/ PublisherAborts(c) \/ ClientFails(c)
             \/ Observe(c) \/ Disconnect(c) \/ DisconnectAnswers(c) \/ Reconnect(c)
      PROVE  UNCHANGED <<inbox, synced>>
  BY <1>3 DEF Start, RunEnds, Dial, ClientReads, ClientAcks, ClientPops, PopGivesUp, Publish,
     PublisherAborts, ClientFails, Observe, Disconnect, DisconnectAnswers, Reconnect, diskVars
<1>4. ASSUME NEW c \in Consumers, ClientAppends(c)
      PROVE  Goal
  <2>1. sub' = [sub EXCEPT ![c].at = "sync"] => sub'[c].at = "sync"
    BY <1>0 DEF Sub
  <2> QED
    BY <1>4, <2>1 DEF ClientAppends, Appends
<1>5. ASSUME NEW c \in Consumers, ClientSyncs(c)
      PROVE  Goal
  BY <1>5 DEF ClientSyncs, Syncs
<1>6. ASSUME NEW c \in Consumers, ClientDies(c)
      PROVE  Goal
  <2>1. sub'[c].at = "off"
    BY <1>0, <1>6, NoSubIs DEF ClientDies
  <2> QED
    BY <1>6, <2>1 DEF ClientDies, Truncates
<1> QED
  BY <1>1, <1>2, <1>3, <1>4, <1>5, <1>6 DEF Next, Subscription, Verbs

LEMMA AppendsShape ==
    ASSUME TypeOK, NEW c \in Consumers, sub[c].hand \in Items, Appends(c)
    PROVE  /\ inbox' \in [Consumers -> Seq(Items)] /\ inbox'[c] \in Seq(Items)
           /\ Len(inbox[c]) \in Nat /\ Len(inbox'[c]) = Len(inbox[c]) + 1
           /\ inbox'[c][Len(inbox[c]) + 1] = sub[c].hand
           /\ \A k \in 1 .. Len(inbox[c]) : inbox'[c][k] = inbox[c][k]
           /\ \A d \in Consumers : d # c => inbox'[d] = inbox[d]
<1>1. inbox \in [Consumers -> Seq(Items)] /\ inbox[c] \in Seq(Items)
  BY Typed
<1>2. Append(inbox[c], sub[c].hand) \in Seq(Items) /\ inbox' = [inbox EXCEPT ![c] = Append(inbox[c], sub[c].hand)]
  BY <1>1 DEF Appends
<1>3. inbox'[c] = Append(inbox[c], sub[c].hand) /\ \A d \in Consumers : d # c => inbox'[d] = inbox[d]
  BY <1>1, <1>2
<1> QED
  BY <1>1, <1>2, <1>3

LEMMA TruncatesShape ==
    ASSUME TypeOK, NEW c \in Consumers, Truncates(c)
    PROVE  /\ inbox' \in [Consumers -> Seq(Items)] /\ inbox'[c] \in Seq(Items)
           /\ Len(inbox[c]) \in Nat /\ Len(inbox'[c]) \in Nat
           /\ Len(inbox'[c]) <= Len(inbox[c]) /\ synced[c] <= Len(inbox'[c]) /\ synced[c] \in Nat
           /\ \A k \in 1 .. Len(inbox'[c]) : inbox'[c][k] = inbox[c][k]
           /\ \A d \in Consumers : d # c => inbox'[d] = inbox[d]
<1>1. inbox \in [Consumers -> Seq(Items)] /\ inbox[c] \in Seq(Items) /\ Len(inbox[c]) \in Nat
      /\ synced[c] \in Nat
  BY Typed
<1>2. PICK kept \in synced[c] .. Len(inbox[c]) : inbox' = [inbox EXCEPT ![c] = SubSeq(@, 1, kept)]
  BY DEF Truncates
<1>3. kept \in Nat /\ kept <= Len(inbox[c]) /\ synced[c] <= kept
  BY <1>1, <1>2
<1> DEFINE q == SubSeq(inbox[c], 1, kept)
<1>4. q \in Seq(Items) /\ Len(q) = kept /\ \A k \in 1 .. kept : q[k] = inbox[c][k]
  BY <1>1, <1>3, SubSeqProperties
<1>5. inbox'[c] = q /\ \A d \in Consumers : d # c => inbox'[d] = inbox[d]
  BY <1>1, <1>2
<1>6. inbox' = [inbox EXCEPT ![c] = q]
  BY <1>2
<1> HIDE DEF q
<1>7. inbox' \in [Consumers -> Seq(Items)]
  BY <1>1, <1>4, <1>6
<1> QED
  BY <1>1, <1>3, <1>4, <1>5, <1>7

LEMMA Holds ==
    ASSUME TypeOK, NEW c \in Consumers, NEW i
    PROVE  InInbox(c, i) <=> \E k \in 1 .. Len(inbox[c]) : inbox[c][k] = i
<1>1. inbox[c] \in Seq(Items)
  BY Typed
<1> QED
  BY <1>1, ToSetIs DEF InInbox

\* The consumer that appends has an item in its hands.
LEMMA HandIsItem ==
    ASSUME IInv, NEW c \in Consumers, Works(c)
    PROVE  /\ sub[c].hand \in Items /\ OnWire(c) /\ sub[c].slot \in Slots
           /\ session[sub[c].slot].consumer = c /\ session[sub[c].slot].client
           /\ sub[c].hand = session[sub[c].slot].out
           /\ Down(session[sub[c].slot]) = {} /\ Up(session[sub[c].slot]) = {}
<1>1. OnWire(c) /\ WireFine(c)
  BY DEF IInv, WiresFine, Works, OnWire
<1> QED
  BY <1>1 DEF WireFine

LEMMA InboxTypeStep == IInv /\ [Next]_vars => inbox' \in [Consumers -> Seq(Items)] /\ synced' \in [Consumers -> Nat]
<1> SUFFICES ASSUME IInv, [Next]_vars
             PROVE  inbox' \in [Consumers -> Seq(Items)] /\ synced' \in [Consumers -> Nat]
  OBVIOUS
<1>0. TypeOK /\ inbox \in [Consumers -> Seq(Items)] /\ synced \in [Consumers -> Nat]
  BY Typed DEF IInv
<1>1. ASSUME NEW c \in Consumers, Appends(c)
      PROVE  inbox' \in [Consumers -> Seq(Items)] /\ synced' = synced
  BY <1>0, <1>1, HandIsItem, AppendsShape DEF Appends, Works
<1>2. ASSUME NEW c \in Consumers, Truncates(c)
      PROVE  inbox' \in [Consumers -> Seq(Items)] /\ synced' = synced
  BY <1>0, <1>2, TruncatesShape DEF Truncates
<1>3. ASSUME NEW c \in Consumers, Syncs(c)
      PROVE  inbox' = inbox /\ synced' \in [Consumers -> Nat]
  <2>1. Len(inbox[c]) \in Nat
    BY <1>0
  <2> QED
    BY <1>0, <1>3, <2>1 DEF Syncs
<1> QED
  BY <1>0, <1>1, <1>2, <1>3, InboxStep

\* What is synced stays synced, whatever an inbox loses.
LEMMA DurableStays ==
    ASSUME IInv, [Next]_vars, NEW c \in Consumers, NEW i, Durable(c, i)
    PROVE  Durable(c, i)'
<1>0. /\ TypeOK /\ inbox[c] \in Seq(Items) /\ Len(inbox[c]) \in Nat
      /\ synced[c] \in Nat /\ synced[c] <= Len(inbox[c])
  BY Typed DEF IInv
<1>1. PICK k \in 1 .. synced[c] : inbox[c][k] = i
  BY DEF Durable
<1>2. k \in 1 .. Len(inbox[c])
  BY <1>0, <1>1
<1>3. ASSUME NEW d \in Consumers, Appends(d)
      PROVE  Durable(c, i)'
  <2>1. synced' = synced /\ sub[d].hand \in Items
    BY <1>3, HandIsItem DEF Appends, Works
  <2>2. inbox'[c][k] = i
    BY <1>0, <1>1, <1>2, <1>3, <2>1, AppendsShape
  <2> QED
    BY <1>1, <2>1, <2>2 DEF Durable
<1>4. ASSUME NEW d \in Consumers, Truncates(d)
      PROVE  Durable(c, i)'
  <2>1. synced' = synced
    BY <1>4 DEF Truncates
  <2>2. CASE d = c
    <3>1. k \in 1 .. Len(inbox'[c])
      BY <1>0, <1>1, <1>4, <2>2, TruncatesShape
    <3>2. inbox'[c][k] = i
      BY <1>0, <1>1, <1>4, <2>2, <3>1, TruncatesShape
    <3> QED
      BY <1>1, <2>1, <3>2 DEF Durable
  <2>3. CASE d # c
    BY <1>0, <1>1, <1>4, <2>1, <2>3, TruncatesShape DEF Durable
  <2> QED
    BY <2>2, <2>3
<1>5. ASSUME NEW d \in Consumers, Syncs(d)
      PROVE  Durable(c, i)'
  <2>1. inbox' = inbox /\ synced'[c] \in {synced[c], Len(inbox[c])}
    BY <1>5, Typed DEF Syncs, IInv
  <2> QED
    BY <1>0, <1>1, <1>2, <2>1 DEF Durable
<1>6. CASE UNCHANGED <<inbox, synced>>
  BY <1>1, <1>6 DEF Durable
<1> QED
  BY <1>0, <1>3, <1>4, <1>5, <1>6, InboxStep

\* Durable after the step, of values that the step may have changed.
NowDurable(c, i) == \E k \in 1 .. synced'[c] : inbox'[c][k] = i

LEMMA NowDurableIs ==
    ASSUME IInv, [Next]_vars, NEW c \in Consumers, NEW i, Durable(c, i)
    PROVE  NowDurable(c, i)
BY DurableStays DEF Durable, NowDurable

LEMMA StoredStays ==
    ASSUME IInv, [Next]_vars, NEW i, Stored(i)
    PROVE  Stored(i)'
BY DurableStays DEF Stored

\* An inbox loses nothing while its consumer stays on the wire, and gains
\* only the message in its hands.
LEMMA InboxKeeps ==
    ASSUME IInv, [Next]_vars, NEW c \in Consumers, NEW i
    PROVE  /\ InInbox(c, i)' => InInbox(c, i) \/ (Appends(c) /\ i = sub[c].hand)
           /\ OnWire(c)' /\ InInbox(c, i) => InInbox(c, i)'
<1>0. /\ TypeOK /\ inbox[c] \in Seq(Items) /\ Len(inbox[c]) \in Nat /\ inbox'[c] \in Seq(Items)
  BY Typed, InboxTypeStep DEF IInv
<1>1. /\ InInbox(c, i) <=> \E k \in 1 .. Len(inbox[c]) : inbox[c][k] = i
      /\ InInbox(c, i)' <=> \E k \in 1 .. Len(inbox'[c]) : inbox'[c][k] = i
  BY <1>0, ToSetIs DEF InInbox
<1>2. ASSUME NEW d \in Consumers, Appends(d)
      PROVE  /\ InInbox(c, i)' => InInbox(c, i) \/ (Appends(c) /\ i = sub[c].hand)
             /\ InInbox(c, i) => InInbox(c, i)'
  <2>1. sub[d].hand \in Items
    BY <1>2, HandIsItem DEF Appends, Works
  <2>2. CASE d = c
    <3>1. /\ Len(inbox'[c]) = Len(inbox[c]) + 1 /\ inbox'[c][Len(inbox[c]) + 1] = sub[c].hand
          /\ \A k \in 1 .. Len(inbox[c]) : inbox'[c][k] = inbox[c][k]
      BY <1>0, <1>2, <2>1, <2>2, AppendsShape
    <3> QED
      BY <1>0, <1>1, <1>2, <2>2, <3>1
  <2>3. CASE d # c
    BY <1>0, <1>1, <1>2, <2>1, <2>3, AppendsShape
  <2> QED
    BY <2>2, <2>3
<1>3. ASSUME NEW d \in Consumers, Truncates(d)
      PROVE  /\ InInbox(c, i)' => InInbox(c, i)
             /\ OnWire(c)' /\ InInbox(c, i) => InInbox(c, i)'
  <2>1. CASE d = c
    <3>1. ~OnWire(c)'
      BY <1>3, <2>1 DEF Truncates, OnWire
    <3>2. /\ Len(inbox'[c]) <= Len(inbox[c]) /\ Len(inbox'[c]) \in Nat
          /\ \A k \in 1 .. Len(inbox'[c]) : inbox'[c][k] = inbox[c][k]
      BY <1>0, <1>3, <2>1, TruncatesShape
    <3>3. \A k \in 1 .. Len(inbox'[c]) : k \in 1 .. Len(inbox[c])
      BY <1>0, <3>2
    <3> QED
      BY <1>1, <3>1, <3>2, <3>3
  <2>2. CASE d # c
    BY <1>0, <1>1, <1>3, <2>2, TruncatesShape
  <2> QED
    BY <2>1, <2>2
<1>4. UNCHANGED inbox => (InInbox(c, i)' <=> InInbox(c, i))
  BY DEF InInbox
<1> QED
  BY <1>0, <1>2, <1>3, <1>4, InboxStep DEF Syncs

\* The relay's journal of transitions only grows, and a notice's address stays.
LEMMA JournalGrows ==
    ASSUME IInv, [Next]_vars
    PROVE  /\ announced' \in [Consumers -> SUBSET Events]
           /\ \A c \in Consumers : announced[c] \subseteq announced'[c]
<1>0. TypeOK /\ RecordTyped /\ announced \in [Consumers -> SUBSET Events]
  BY TypeOKIs DEF IInv, RecordTyped
<1>1. ASSUME NEW s \in Slots, ServerPresence(s)
      PROVE  /\ announced' \in [Consumers -> SUBSET Events]
             /\ \A c \in Consumers : announced[c] \subseteq announced'[c]
  <2> DEFINE e == Head(session[s].up).id
             c == session[s].consumer
  <2>1. e \in Events
    <3>1. session[s].up \in Seq(Frames) /\ session[s].up # <<>> /\ Head(session[s].up).type = "presence"
      BY <1>0, <1>1, Typed DEF ServerPresence, UpFrame
    <3>2. Head(session[s].up) \in Frames
      BY <3>1
    <3> QED
      BY <3>1, <3>2 DEF Frames
  <2>2. announced' = announced \/ announced' = [announced EXCEPT ![c] = @ \cup {e}]
    BY <1>1 DEF ServerPresence
  <2> QED
    BY <1>0, <2>1, <2>2
<1>2. ASSUME NEW s \in Slots, ServerSend(s) \/ ServerAck(s) \/ ServerCloses(s)
      PROVE  announced' = announced
  BY <1>2 DEF ServerSend, ServerAck, ServerCloses, MarkDelivered, serverVars
<1>3. ASSUME NEW c \in Consumers, Subscription(c) \/ Verbs(c)
      PROVE  announced' = announced
  BY <1>3 DEF Subscription, Verbs, Start, RunEnds, Dial, ClientReads, ClientAppends, ClientSyncs, ClientAcks,
     ClientPops, PopGivesUp, Publish, PublisherAborts, ClientFails, Observe, Disconnect,
     DisconnectAnswers, Reconnect, ClientDies, serverVars
<1>4. Post \/ PostAnswers \/ (\E i \in Notices : PostNotice(i)) \/ ServerDies \/ UNCHANGED vars
         => announced' = announced
  BY DEF Post, PostAnswers, PostNotice, ServerDies, vars, serverVars
<1> QED
  BY <1>0, <1>1, <1>2, <1>3, <1>4 DEF Next, Handler

\* What a step does to the spool.
Grows(i) ==
    /\ i \in Items \ named /\ named' = named \cup {i} /\ queued' = queued \cup {i} /\ loose' = loose
    /\ i \in Mail => posting = 0 /\ posting' = i /\ accepted' = accepted /\ Earlier(i) \subseteq named
    /\ i \in Notices => posting' = posting /\ accepted' = accepted \cup {i}
    /\ \E c \in Consumers \cup {NoOne} : addressee' = addressee \/ addressee' = [addressee EXCEPT ![i] = c]

\* Why the subscription in slot s may settle i.
MaySettle(s, i) ==
    \/ i \in Notices
    \/ session[s].up # <<>> /\ Head(session[s].up).type = "ack" /\ Head(session[s].up).id = i

Settles(s, i) ==
    /\ tail = s /\ i \in queued /\ posting = 0 /\ MaySettle(s, i)
    /\ queued' = queued \ {i} /\ loose' \subseteq loose \cup {i}
    /\ UNCHANGED <<named, posting, accepted, addressee>>

LEMMA LeastQueued ==
    ASSUME TypeOK, queued # {}
    PROVE  Min(queued) \in queued /\ Min(queued) \in Items /\ \A j \in queued : Min(queued) <= j
<1>1. queued \subseteq Items /\ queued \subseteq Nat
  BY TypeOKIs, Numbers DEF SpoolTyped
<1> QED
  BY <1>1, LeastIsMin

LEMMA SpoolStep ==
    ASSUME TypeOK, [Next]_vars
    PROVE  \/ UNCHANGED spoolVars
           \/ \E i \in Items : Grows(i)
           \/ PostAnswers
           \/ ServerDies
           \/ \E s \in Slots, i \in Items : Settles(s, i)
<1> DEFINE Goal == \/ UNCHANGED spoolVars
                   \/ \E i \in Items : Grows(i)
                   \/ PostAnswers
                   \/ ServerDies
                   \/ \E s \in Slots, i \in Items : Settles(s, i)
<1>0. Notices \subseteq Items /\ Mail = Items \ Notices /\ queued \subseteq named /\ named \subseteq Items
  BY Numbers, TypeOKIs DEF Mail, SpoolTyped
<1>1. CASE Post
  <2>1. PICK i \in Mail \ named :
            /\ \A j \in Mail : j < i => j \in named
            /\ named' = named \cup {i} /\ queued' = queued \cup {i} /\ posting' = i
    BY <1>1 DEF Post
  <2>2. posting = 0 /\ UNCHANGED <<loose, accepted, addressee>>
    BY <1>1 DEF Post, GateFree
  <2>3. Grows(i)
    BY <1>0, <2>1, <2>2 DEF Grows, Earlier
  <2> QED
    BY <1>0, <2>3
<1>2. ASSUME NEW i \in Notices, PostNotice(i)
      PROVE  Goal
  <2>1. owner \in Consumers \cup {NoOne}
    BY TypeOKIs DEF SpoolTyped
  <2>2. Grows(i)
    BY <1>0, <1>2, <2>1 DEF PostNotice, Grows
  <2> QED
    BY <1>0, <2>2
<1>3. ASSUME NEW s \in Slots, NEW i, NEW next, i \in queued => MaySettle(s, i), MarkDelivered(s, i, next)
      PROVE  Goal
  <2>1. CASE Current(s) /\ i \in queued
    <3>1. Settles(s, i)
      BY <1>3, <2>1 DEF MarkDelivered, Settles, Current, GateFree
    <3> QED
      BY <1>0, <2>1, <3>1
  <2>2. CASE ~(Current(s) /\ i \in queued)
    BY <1>3, <2>2 DEF MarkDelivered, spoolVars
  <2> QED
    BY <2>1, <2>2
<1>4. ASSUME NEW s \in Slots, ServerSend(s)
      PROVE  Goal
  <2>1. CASE SpoolMatches(Min(queued), session[s].consumer)
    BY <1>4, <2>1 DEF ServerSend
  <2>2. CASE ~SpoolMatches(Min(queued), session[s].consumer)
    BY <1>3, <1>4, <2>2 DEF ServerSend, SpoolMatches, MaySettle
  <2> QED
    BY <2>1, <2>2
<1>5. ASSUME NEW s \in Slots, ServerAck(s)
      PROVE  Goal
  <2>1. MaySettle(s, Head(session[s].up).id)
    BY <1>5 DEF ServerAck, UpFrame, MaySettle
  <2>2. CASE session[s].out = Head(session[s].up).id
    BY <1>3, <1>5, <2>1, <2>2 DEF ServerAck
  <2>3. CASE session[s].out # Head(session[s].up).id
    BY <1>5, <2>3 DEF ServerAck
  <2> QED
    BY <2>2, <2>3
<1>6. ASSUME NEW s \in Slots, ServerPresence(s) \/ ServerCloses(s)
      PROVE  UNCHANGED spoolVars
  BY <1>6 DEF ServerPresence, ServerCloses
<1>7. ASSUME NEW c \in Consumers, Subscription(c) \/ Verbs(c)
      PROVE  UNCHANGED spoolVars
  BY <1>7 DEF Subscription, Verbs, Start, RunEnds, Dial, ClientReads, ClientAppends, ClientSyncs, ClientAcks,
     ClientPops, PopGivesUp, Publish, PublisherAborts, ClientFails, Observe, Disconnect,
     DisconnectAnswers, Reconnect, ClientDies
<1>8. UNCHANGED vars => UNCHANGED spoolVars
  BY DEF vars
<1> QED
  BY <1>1, <1>2, <1>4, <1>5, <1>6, <1>7, <1>8 DEF Next, Handler

LEMMA SpoolTypeStep == IInv /\ [Next]_vars => SpoolTyped' /\ named \subseteq named'
<1> SUFFICES ASSUME IInv, [Next]_vars
             PROVE  SpoolTyped' /\ named \subseteq named'
  OBVIOUS
<1>0. TypeOK /\ SpoolTyped /\ Items \subseteq Nat /\ Notices \subseteq Items /\ Mail = Items \ Notices
  BY TypeOKIs, Numbers DEF IInv, Mail
<1>1. owner' \in Consumers \cup {NoOne}
  <2>1. ASSUME NEW c \in Consumers, Subscription(c) \/ Verbs(c)
        PROVE  owner' \in {owner, c}
    BY <2>1 DEF Subscription, Verbs, Start, RunEnds, Dial, ClientReads, ClientAppends, ClientSyncs, ClientAcks,
     ClientPops, PopGivesUp, Publish, PublisherAborts, ClientFails, Observe, Disconnect,
     DisconnectAnswers, Reconnect, ClientDies, serverVars
  <2>2. ASSUME NEW s \in Slots, Handler(s)
        PROVE  owner' = owner
    BY <2>2 DEF Handler, ServerSend, ServerAck, ServerPresence, ServerCloses, MarkDelivered, serverVars
  <2>3. Post \/ PostAnswers \/ (\E i \in Notices : PostNotice(i)) \/ ServerDies \/ UNCHANGED vars
           => owner' = owner
    BY DEF Post, PostAnswers, PostNotice, ServerDies, vars, serverVars
  <2> QED
    BY <1>0, <2>1, <2>2, <2>3 DEF Next, SpoolTyped
<1>2. CASE UNCHANGED spoolVars
  BY <1>0, <1>1, <1>2 DEF SpoolTyped, spoolVars
<1>3. ASSUME NEW i \in Items, Grows(i)
      PROVE  SpoolTyped' /\ named \subseteq named'
  <2>1. i \in Mail \/ i \in Notices
    BY <1>0
  <2>2. addressee' \in [Notices -> Consumers \cup {NoOne}]
    BY <1>0, <1>3 DEF Grows, SpoolTyped
  <2>3. named' \subseteq Items /\ queued' \subseteq named' /\ loose' \subseteq named' \ queued'
    BY <1>0, <1>3 DEF Grows, SpoolTyped
  <2>4. posting' \in {0} \cup named' /\ accepted' \subseteq named' /\ named \subseteq named'
    BY <1>0, <1>3, <2>1 DEF Grows, SpoolTyped
  <2> QED
    BY <1>1, <2>2, <2>3, <2>4 DEF SpoolTyped
<1>4. CASE PostAnswers
  <2>1. posting' = 0 /\ accepted' \subseteq accepted \cup {posting} /\ posting # 0
        /\ UNCHANGED <<named, queued, loose, addressee>>
    BY <1>4 DEF PostAnswers, GateFree
  <2> QED
    BY <1>0, <1>1, <2>1 DEF SpoolTyped
<1>5. CASE ServerDies
  <2>1. PICK back \in SUBSET loose, lost \in SUBSET ({posting} \ {0}) :
            queued' = (queued \cup back) \ lost
    BY <1>5 DEF ServerDies
  <2>2. posting' = 0 /\ loose' = {} /\ UNCHANGED <<named, accepted, addressee>>
    BY <1>5 DEF ServerDies
  <2> QED
    BY <1>0, <1>1, <2>1, <2>2 DEF SpoolTyped
<1>6. ASSUME NEW s \in Slots, NEW i \in Items, Settles(s, i)
      PROVE  SpoolTyped' /\ named \subseteq named'
  <2>1. queued' \subseteq named' /\ loose' \subseteq named' \ queued'
    BY <1>0, <1>6 DEF Settles, SpoolTyped
  <2> QED
    BY <1>0, <1>1, <1>6, <2>1 DEF Settles, SpoolTyped
<1> QED
  BY <1>0, <1>2, <1>3, <1>4, <1>5, <1>6, SpoolStep DEF spoolVars

LEMMA AddressStays ==
    ASSUME IInv, [Next]_vars, NEW i \in Notices, i \in named
    PROVE  addressee'[i] = addressee[i]
<1>0. TypeOK /\ addressee \in [Notices -> Consumers \cup {NoOne}]
  BY TypeOKIs DEF IInv, SpoolTyped
<1>1. ASSUME NEW j \in Items, Grows(j)
      PROVE  addressee'[i] = addressee[i]
  BY <1>0, <1>1 DEF Grows
<1> QED
  BY <1>0, <1>1, SpoolStep DEF spoolVars, PostAnswers, ServerDies, Settles

-----------------------------------------------------------------------------
(* The wires. *)

LEMMA EmptyCarries == ASSUME NEW r, r.down = <<>>, r.up = <<>> PROVE Carries(r) /\ Down(r) = {} /\ Up(r) = {}
BY DEF Carries, Down, Up

\* The pipes of a session that fades are what they were, or empty.
LEMMA FadingPipes ==
    ASSUME NEW r, NEW q, Fades(r, q), Carries(r)
    PROVE  /\ Carries(q)
           /\ Down(r) = {} => Down(q) = {}
           /\ Up(r) = {} => Up(q) = {}
           /\ \A k \in Up(q) : k \in Up(r) /\ q.up = r.up /\ q.consumer = r.consumer
           /\ \A k \in 1 .. Len(q.down) : q.down = r.down /\ q.consumer = r.consumer
<1>1. CASE q = NoSession
  <2>1. q.down = <<>> /\ q.up = <<>>
    BY <1>1, NoSessionIs
  <2> QED
    BY <2>1, EmptyCarries
<1>2. CASE /\ q.consumer = r.consumer /\ q.out = r.out
           /\ q.down = r.down \/ q.down = <<>>
           /\ q.up = r.up \/ q.up = <<>>
  <2>1. q.down = <<>> => Down(q) = {}
    BY DEF Down
  <2>2. q.up = <<>> => Up(q) = {}
    BY DEF Up
  <2>3. q.down = r.down => Down(q) = Down(r)
    BY DEF Down
  <2>4. q.up = r.up => Up(q) = Up(r)
    BY DEF Up
  <2>5. Carries(q)
    BY <1>2, <2>1, <2>2, <2>3, <2>4 DEF Carries
  <2> QED
    BY <1>2, <2>1, <2>2, <2>3, <2>4, <2>5
<1> QED
  BY <1>1, <1>2 DEF Fades

\* What there is to show of a session after a step.
LEMMA SlotFineNow ==
    ASSUME NEW s \in Slots,
           LET q == session'[s] IN
           /\ q.consumer \in Consumers \/ (~q.server /\ q.down = <<>> /\ q.up = <<>>)
           /\ Carries(q)
           /\ \A k \in Up(q) : NowDurable(q.consumer, q.up[k].id)
           /\ \A k \in 1 .. Len(q.down) :
                 q.down[k].type # "message" => q.down[k].id \in announced'[q.consumer]
           /\ q.out \in Notices => addressee'[q.out] = q.consumer
    PROVE  SlotFine(s)'
BY DEF SlotFine, Carries, Up, Down, Durable, NowDurable

LEMMA SlotStays ==
    ASSUME IInv, [Next]_vars, NEW s \in Slots, Fades(session[s], session'[s])
    PROVE  SlotFine(s)'
<1> DEFINE r == session[s]
           q == session'[s]
<1>0. SlotFine(s) /\ TypeOK /\ r \in Session /\ q \in Session
  BY Typed DEF IInv, WiresFine, Fades
<1>1. /\ r.consumer \in Consumers \/ (~r.server /\ r.down = <<>> /\ r.up = <<>>)
      /\ Carries(r) /\ \A k \in Up(r) : Durable(r.consumer, r.up[k].id)
      /\ \A k \in 1 .. Len(r.down) : r.down[k].type # "message" => r.down[k].id \in announced[r.consumer]
      /\ r.out \in Notices => addressee[r.out] = r.consumer
  BY <1>0 DEF SlotFine
<1>2. Fades(r, q)
  OBVIOUS
<1> HIDE DEF r, q
<1>3. q.consumer \in Consumers \/ (~q.server /\ q.down = <<>> /\ q.up = <<>>)
  BY <1>1, <1>2, NoSessionIs DEF Fades
<1>4. Carries(q)
  BY <1>1, <1>2, FadingPipes
<1>5. ASSUME NEW k \in Up(q)
      PROVE  NowDurable(q.consumer, q.up[k].id)
  <2>1. k \in Up(r) /\ q.up = r.up /\ q.consumer = r.consumer
    BY <1>1, <1>2, <1>5, FadingPipes
  <2>2. r.consumer \in Consumers
    <3>1. r.up # <<>>
      BY <2>1 DEF Up
    <3> QED
      BY <1>1, <3>1
  <2>3. Durable(r.consumer, r.up[k].id)
    BY <1>1, <2>1
  <2> QED
    BY <2>1, <2>2, <2>3, NowDurableIs
<1>6. ASSUME NEW k \in 1 .. Len(q.down), q.down[k].type # "message"
      PROVE  q.down[k].id \in announced'[q.consumer]
  <2>1. q.down = r.down /\ q.consumer = r.consumer /\ q.down # <<>>
    BY <1>1, <1>2, <1>6, FadingPipes
  <2>2. r.consumer \in Consumers /\ r.down[k].id \in announced[r.consumer]
    BY <1>1, <1>6, <2>1
  <2> QED
    BY <2>1, <2>2, JournalGrows
<1>7. ASSUME q.out \in Notices
      PROVE  addressee'[q.out] = q.consumer
  <2>1. q.out = r.out /\ q.consumer = r.consumer
    BY <1>2, <1>7, NoSessionIs, Numbers DEF Fades
  <2>2. r.out \in named
    <3>1. session[s].out \in {0} \cup named
      BY <1>0, TypeOKIs DEF SessionTyped
    <3> QED
      BY <1>7, <2>1, <3>1, Numbers DEF r
  <2> QED
    BY <1>1, <1>7, <2>1, <2>2, AddressStays
<1> QED
  BY <1>3, <1>4, <1>5, <1>6, <1>7, SlotFineNow DEF q

NowIn(c, i) == i \in ToSet(inbox'[c])
NowStored(i) == \E c \in Consumers : NowDurable(c, i)

LEMMA NowStoredIs ==
    ASSUME IInv, [Next]_vars, NEW i, Stored(i)
    PROVE  NowStored(i)
BY NowDurableIs DEF Stored, NowStored

\* The same of a consumer.
LEMMA WireFineNow ==
    ASSUME NEW c \in Consumers,
           sub'[c].at \notin {"off", "dial"} =>
               LET s == sub'[c].slot  q == session'[s]  i == sub'[c].hand IN
               /\ s \in Slots /\ q.consumer = c /\ q.client
               /\ sub'[c].at \in {"append", "sync", "ack"} =>
                     i \in Items /\ i = q.out /\ Down(q) = {} /\ Up(q) = {}
               /\ sub'[c].at = "sync" => NowIn(c, i)
               /\ sub'[c].at = "ack" => NowDurable(c, i)
               /\ sub'[c].at = "pop" => i \in announced'[c]
               /\ \A m \in Mail : NowIn(c, m) /\ q.out \in Earlier(m) => NowStored(q.out)
    PROVE  WireFine(c)'
BY DEF WireFine, OnWire, Works, NowIn, InInbox, NowDurable, Durable, NowStored, Stored, Down, Up, Earlier

LEMMA NowInIs ==
    ASSUME IInv, [Next]_vars, NEW c \in Consumers, NEW i
    PROVE  /\ NowIn(c, i) => InInbox(c, i) \/ (Appends(c) /\ i = sub[c].hand)
           /\ sub'[c].at \notin {"off", "dial"} /\ InInbox(c, i) => NowIn(c, i)
BY InboxKeeps DEF NowIn, InInbox, OnWire

\* c stays on the wire as it was, and its session keeps its end open.
Remains(c) ==
    /\ sub'[c].at = sub[c].at /\ sub'[c].slot = sub[c].slot /\ sub'[c].hand = sub[c].hand
    /\ OnWire(c) => session'[sub[c].slot].client

LEMMA WireStays ==
    ASSUME IInv, [Next]_vars, NEW c \in Consumers,
           sub'[c].at \in {"off", "dial"} \/ Remains(c),
           OnWire(c) => Fades(session[sub[c].slot], session'[sub[c].slot])
    PROVE  WireFine(c)'
<1>1. CASE sub'[c].at \in {"off", "dial"}
  BY <1>1, WireFineNow
<1>2. CASE sub'[c].at \notin {"off", "dial"}
  <2> DEFINE z == sub[c].slot
             r == session[z]
             q == session'[z]
             i == sub[c].hand
  <2>1. OnWire(c) /\ sub'[c].at = sub[c].at /\ sub'[c].slot = z /\ sub'[c].hand = i /\ q.client
    BY <1>2 DEF Remains, OnWire
  <2>2. /\ z \in Slots /\ r.consumer = c
        /\ Works(c) => i \in Items /\ i = r.out /\ Down(r) = {} /\ Up(r) = {}
        /\ sub[c].at = "sync" => InInbox(c, i)
        /\ sub[c].at = "ack" => Durable(c, i)
        /\ sub[c].at = "pop" => i \in announced[c]
        /\ \A m \in Mail : InInbox(c, m) /\ r.out \in Earlier(m) => Stored(r.out)
    BY <2>1 DEF IInv, WiresFine, WireFine
  <2>3. Fades(r, q) /\ Carries(r)
    BY <2>1, <2>2 DEF IInv, WiresFine, SlotFine
  <2>4. sub'[c].at \in {"append", "sync", "ack"} => Works(c)
    BY <2>1 DEF Works
  <2> HIDE DEF z, r, q, i
  <2>5. q.consumer = c /\ q.out = r.out
    BY <2>1, <2>2, <2>3, NoSessionIs DEF Fades
  <2>6. Works(c) => Down(q) = {} /\ Up(q) = {}
    BY <2>2, <2>3, FadingPipes
  <2>7. ~Appends(c)
    BY <2>1 DEF Appends
  <2>8. \A m \in Mail : NowIn(c, m) /\ q.out \in Earlier(m) => NowStored(q.out)
    BY <2>2, <2>5, <2>7, NowInIs, NowStoredIs
  <2>9. sub[c].at = "sync" => NowIn(c, i)
    BY <1>2, <2>2, NowInIs
  <2>10. sub[c].at = "ack" => NowDurable(c, i)
    BY <2>2, NowDurableIs
  <2>11. sub[c].at = "pop" => i \in announced'[c]
    BY <2>2, JournalGrows
  <2>12. q = session'[sub'[c].slot] /\ i = sub'[c].hand /\ sub'[c].slot \in Slots
    BY <2>1, <2>2 DEF q, z, i
  <2> HIDE DEF q, i
  <2> QED
    BY <2>1, <2>2, <2>4, <2>5, <2>6, <2>8, <2>9, <2>10, <2>11, <2>12, WireFineNow
<1> QED
  BY <1>1, <1>2

\* A step in which nothing is sent, read or dialled.
Calm ==
    /\ \A s \in Slots : Fades(session[s], session'[s])
    /\ \A c \in Consumers : sub'[c].at \in {"off", "dial"} \/ Remains(c)

LEMMA CalmStep ==
    ASSUME IInv, [Next]_vars, Calm
    PROVE  WiresFine'
<1>1. \A s \in Slots : SlotFine(s)'
  BY SlotStays DEF Calm
<1>2. ASSUME NEW c \in Consumers
      PROVE  WireFine(c)'
  <2>1. OnWire(c) => sub[c].slot \in Slots
    BY DEF IInv, WiresFine, WireFine
  <2> QED
    BY <2>1, WireStays DEF Calm
<1> QED
  BY <1>1, <1>2 DEF WiresFine

LEMMA CalmServer ==
    ASSUME IInv, [Next]_vars, sub' = sub,
           \A t \in Slots : Fades(session[t], session'[t]) /\ (session[t].client => session'[t].client)
    PROVE  WiresFine'
<1>1. \A c \in Consumers : OnWire(c) => sub[c].slot \in Slots /\ session[sub[c].slot].client
  BY DEF IInv, WiresFine, WireFine
<1>2. Calm
  BY <1>1 DEF Calm, Remains
<1> QED
  BY <1>2, CalmStep

\* Otherwise one session s and one consumer c are at work, and the rest stays.
LEMMA OthersStay ==
    ASSUME IInv, [Next]_vars, NEW s \in Slots, NEW C \in SUBSET Consumers,
           \A t \in Slots : t # s => session'[t] = session[t],
           \A d \in Consumers \ C : sub'[d] = sub[d] /\ (OnWire(d) => sub[d].slot # s),
           SlotFine(s)', \A c \in C : WireFine(c)'
    PROVE  WiresFine'
<1>0. TypeOK /\ \A t \in Slots : session[t] \in Session
  BY Typed DEF IInv
<1>1. ASSUME NEW t \in Slots, t # s
      PROVE  SlotFine(t)'
  BY <1>0, <1>1, FadesSame, SlotStays
<1>2. ASSUME NEW d \in Consumers \ C
      PROVE  WireFine(d)'
  <2>1. OnWire(d) => sub[d].slot \in Slots /\ session[sub[d].slot].client
    BY DEF IInv, WiresFine, WireFine
  <2>2. OnWire(d) => session'[sub[d].slot] = session[sub[d].slot]
    BY <2>1
  <2>3. OnWire(d) => Fades(session[sub[d].slot], session'[sub[d].slot])
    BY <1>0, <2>1, <2>2, FadesSame
  <2>4. Remains(d)
    BY <2>1, <2>2 DEF Remains
  <2> QED
    BY <2>3, <2>4, WireStays
<1> QED
  BY <1>1, <1>2 DEF WiresFine

LEMMA OneAtWork ==
    ASSUME IInv, [Next]_vars, NEW s \in Slots, NEW c \in Consumers,
           \A t \in Slots : t # s => session'[t] = session[t],
           \A d \in Consumers \ {c} : sub'[d] = sub[d] /\ (OnWire(d) => sub[d].slot # s),
           SlotFine(s)', WireFine(c)'
    PROVE  WiresFine'
<1>1. {c} \in SUBSET Consumers
  OBVIOUS
<1>2. ASSUME NEW d \in {c}
      PROVE  WireFine(d)'
  <2>1. d = c
    OBVIOUS
  <2> QED
    BY <2>1
<1> QED
  BY <1>1, <1>2, OthersStay

\* The frames of one type in a pipe, after an append and after the head is
\* taken.
At(p, type) == {k \in 1 .. Len(p) : p[k].type = type}

LEMMA AtDownUp == ASSUME NEW r PROVE Down(r) = At(r.down, "message") /\ Up(r) = At(r.up, "ack")
BY DEF Down, Up, At

LEMMA AtAppend ==
    ASSUME NEW p \in Seq(Frames), NEW f \in Frames, NEW type
    PROVE  LET q == Append(p, f) IN
           /\ q \in Seq(Frames) /\ Len(p) \in Nat /\ q[Len(p) + 1] = f /\ \A k \in 1 .. Len(p) : q[k] = p[k]
           /\ At(q, type) = IF f.type = type THEN At(p, type) \cup {Len(p) + 1} ELSE At(p, type)
           /\ \A k \in 1 .. Len(q) : k \in 1 .. Len(p) \/ k = Len(p) + 1
<1> DEFINE q == Append(p, f)
<1>1. /\ q \in Seq(Frames) /\ Len(p) \in Nat /\ Len(q) = Len(p) + 1
      /\ q[Len(p) + 1] = f /\ \A k \in 1 .. Len(p) : q[k] = p[k]
  OBVIOUS
<1> HIDE DEF q
<1>2. \A k : k \in 1 .. Len(q) <=> k \in 1 .. Len(p) \/ k = Len(p) + 1
  BY <1>1
<1>3. \A k : k \in At(q, type) <=> (k \in 1 .. Len(p) /\ p[k].type = type) \/ (k = Len(p) + 1 /\ f.type = type)
  BY <1>1, <1>2 DEF At
<1>4. At(q, type) = IF f.type = type THEN At(p, type) \cup {Len(p) + 1} ELSE At(p, type)
  BY <1>3 DEF At
<1> QED
  BY <1>1, <1>2, <1>4 DEF q

LEMMA AtTail ==
    ASSUME NEW p \in Seq(Frames), p # <<>>, NEW type
    PROVE  /\ Tail(p) \in Seq(Frames) /\ p[1] = Head(p) /\ Head(p) \in Frames
           /\ 1 \in 1 .. Len(p) /\ (Head(p).type = type => 1 \in At(p, type))
           /\ \A k \in 1 .. Len(Tail(p)) : k \in Nat /\ k # 0 /\ k + 1 \in 1 .. Len(p) /\ Tail(p)[k] = p[k + 1]
           /\ \A k \in At(Tail(p), type) : k \in Nat /\ k # 0 /\ k + 1 \in At(p, type) /\ Tail(p)[k] = p[k + 1]
<1>1. /\ Len(p) \in Nat /\ Len(p) >= 1 /\ Tail(p) \in Seq(Frames) /\ Len(Tail(p)) = Len(p) - 1
      /\ p[1] = Head(p) /\ Head(p) \in Frames
  BY HeadTailProperties
<1>2. \A k \in 1 .. Len(Tail(p)) : Tail(p)[k] = p[k + 1]
  BY HeadTailProperties
<1>3. \A k \in 1 .. Len(Tail(p)) : k \in Nat /\ k # 0 /\ k + 1 \in 1 .. Len(p)
  BY <1>1
<1>4. 1 \in 1 .. Len(p)
  BY <1>1
<1> QED
  BY <1>1, <1>2, <1>3, <1>4 DEF At

LEMMA FramesAre ==
    /\ \A f \in Frames : f.type \in {"message", "ack"} => f.id \in Items
    /\ \A f \in Frames : f.type \in {"presence", "presence-ack"} => f.id \in Events
    /\ \A f \in Frames : f.type \in {"message", "ack", "presence", "presence-ack"}
    /\ \A i \in Items, t \in {"message", "ack"} :
          LET f == [type |-> t, id |-> i] IN f \in Frames /\ f.type = t /\ f.id = i
    /\ \A e \in Events, t \in {"presence", "presence-ack"} :
          LET f == [type |-> t, id |-> e] IN f \in Frames /\ f.type = t /\ f.id = e
BY DEF Frames

\* What a session is like, to start with.
LEMMA SlotIs ==
    ASSUME IInv, NEW s \in Slots
    PROVE  LET r == session[s] IN
           /\ r \in Session /\ r.down \in Seq(Frames) /\ r.up \in Seq(Frames)
           /\ r.out \in {0} \cup Items /\ r.out \in {0} \cup named
           /\ r.consumer \in Consumers \/ (~r.server /\ r.down = <<>> /\ r.up = <<>>)
           /\ Carries(r)
           /\ \A k \in Up(r) : Durable(r.consumer, r.up[k].id)
           /\ \A k \in 1 .. Len(r.down) : r.down[k].type # "message" => r.down[k].id \in announced[r.consumer]
           /\ r.out \in Notices => addressee[r.out] = r.consumer
<1>1. TypeOK /\ SlotFine(s) /\ SessionTyped
  BY TypeOKIs DEF IInv, WiresFine
<1>2. session[s].out \in {0} \cup Items
  BY <1>1 DEF SessionTyped, Session
<1> QED
  BY <1>1, <1>2, Typed DEF SlotFine, SessionTyped

LEMMA WireIs ==
    ASSUME IInv, NEW c \in Consumers, OnWire(c)
    PROVE  LET z == sub[c].slot  r == session[z]  i == sub[c].hand IN
           /\ z \in Slots /\ r.consumer = c /\ r.client
           /\ Works(c) => i \in Items /\ i = r.out /\ Down(r) = {} /\ Up(r) = {}
           /\ sub[c].at = "sync" => InInbox(c, i)
           /\ sub[c].at = "ack" => Durable(c, i)
           /\ sub[c].at = "pop" => i \in announced[c]
           /\ \A m \in Mail : InInbox(c, m) /\ r.out \in Earlier(m) => Stored(r.out)
BY DEF IInv, WiresFine, WireFine

\* Every wire of session s, when the step changes that session alone.
LEMMA ServerSideStep ==
    ASSUME IInv, [Next]_vars, NEW s \in Slots, sub' = sub,
           LET r == session[s]  q == session'[s] IN
           /\ \A t \in Slots : t # s => session'[t] = session[t]
           /\ q.consumer = r.consumer /\ q.client = r.client
           /\ Down(r) = {} /\ Up(r) = {} => q.out = r.out /\ Down(q) = {} /\ Up(q) = {}
           /\ q.out \in {0, r.out},
           SlotFine(s)'
    PROVE  WiresFine'
\* A consumer with the message in its hands is only concerned when the
\* session stays as it is.
<1> DEFINE C == {c \in Consumers : OnWire(c) /\ sub[c].slot = s}
<1>1. ASSUME NEW c \in C
      PROVE  WireFine(c)'
  <2>1. /\ OnWire(c) /\ sub[c].slot = s /\ session[s].consumer = c /\ session[s].client
        /\ Works(c) => /\ sub[c].hand \in Items /\ sub[c].hand = session[s].out
                       /\ Down(session[s]) = {} /\ Up(session[s]) = {}
        /\ sub[c].at = "sync" => InInbox(c, sub[c].hand)
        /\ sub[c].at = "ack" => Durable(c, sub[c].hand)
        /\ sub[c].at = "pop" => sub[c].hand \in announced[c]
        /\ \A m \in Mail : InInbox(c, m) /\ session[s].out \in Earlier(m) => Stored(session[s].out)
    BY <1>1, WireIs
  <2>2. Works(c) => sub[c].hand = session'[s].out /\ Down(session'[s]) = {} /\ Up(session'[s]) = {}
    BY <2>1
  <2>3. ~Appends(c) /\ sub'[c].at \notin {"off", "dial"}
    BY <2>1 DEF Appends, OnWire
  <2>4. \A m \in Mail : NowIn(c, m) /\ session'[s].out \in Earlier(m) => NowStored(session'[s].out)
    <3>1. \A m \in Mail : 0 \notin Earlier(m)
      BY Numbers DEF Earlier
    <3> QED
      BY <2>1, <2>3, <3>1, NowInIs, NowStoredIs
  <2>5. sub[c].at = "sync" => NowIn(c, sub[c].hand)
    BY <2>1, <2>3, NowInIs
  <2>6. sub[c].at = "ack" => NowDurable(c, sub[c].hand)
    BY <2>1, NowDurableIs
  <2>7. sub[c].at = "pop" => sub[c].hand \in announced'[c]
    BY <2>1, JournalGrows
  <2>8. sub[c].at \in {"append", "sync", "ack"} => Works(c)
    BY DEF Works
  <2>9. session'[s].consumer = c /\ session'[s].client
    BY <2>1
  <2> QED
    BY <2>1, <2>2, <2>4, <2>5, <2>6, <2>7, <2>8, <2>9, WireFineNow
<1>2. \A d \in Consumers \ C : sub'[d] = sub[d] /\ (OnWire(d) => sub[d].slot # s)
  OBVIOUS
<1> QED
  BY <1>1, <1>2, OthersStay

LEMMA SendStep ==
    ASSUME IInv, [Next]_vars, NEW s \in Slots, ServerSend(s)
    PROVE  WiresFine'
<1> DEFINE r == session[s]
           i == Min(queued)
           f == [type |-> "message", id |-> i]
<1>0. /\ TypeOK /\ session \in [Slots -> Session] /\ r \in Session /\ r.down \in Seq(Frames)
      /\ r.server /\ r.out = 0 /\ r.consumer \in Consumers /\ Carries(r)
      /\ \A k \in Up(r) : Durable(r.consumer, r.up[k].id)
      /\ \A k \in 1 .. Len(r.down) : r.down[k].type # "message" => r.down[k].id \in announced[r.consumer]
  BY SlotIs, Typed DEF IInv, ServerSend
<1>1. i \in queued /\ i \in Items /\ i # 0 /\ f \in Frames /\ f.type = "message" /\ f.id = i
  BY <1>0, LeastQueued, Numbers, FramesAre DEF ServerSend
<1>2. CASE SpoolMatches(i, r.consumer)
  <2> DEFINE d == Append(r.down, f)
             q == [r EXCEPT !.out = i, !.down = d]
  <2>1. session' = [session EXCEPT ![s] = q] /\ sub' = sub
    BY <1>0, <1>2 DEF ServerSend, clientVars
  <2>2. /\ d \in Seq(Frames) /\ d[Len(r.down) + 1] = f /\ \A k \in 1 .. Len(r.down) : d[k] = r.down[k]
        /\ At(d, "message") = At(r.down, "message") \cup {Len(r.down) + 1}
        /\ \A k \in 1 .. Len(d) : k \in 1 .. Len(r.down) \/ k = Len(r.down) + 1
    BY <1>0, <1>1, AtAppend
  <2> HIDE DEF f, i, d
  <2>3. /\ q \in Session /\ q.consumer = r.consumer /\ q.out = i /\ q.down = d /\ q.up = r.up
        /\ q.client = r.client /\ q.server = r.server
    BY <1>0, <1>1, <2>2 DEF Session, Pipes
  <2>4. session'[s] = q /\ \A t \in Slots : t # s => session'[t] = session[t]
    BY <1>0, <2>1
  <2> HIDE DEF q
  <2>5. Down(r) = {} /\ Up(r) = {}
    <3>1. \A k \in Down(r) : r.down[k].id \in Items
      BY <1>0, FramesAre DEF Down
    <3>2. \A k \in Up(r) : r.up[k].id \in Items
      BY <1>0, Typed, FramesAre DEF Up
    <3> QED
      BY <1>0, <3>1, <3>2, Numbers DEF Carries
  <2>6. Down(q) = {Len(r.down) + 1} /\ Up(q) = {}
    BY <2>2, <2>3, <2>5, AtDownUp
  <2>7. Carries(q)
    BY <1>1, <2>2, <2>3, <2>6 DEF Carries
  <2>8. ASSUME NEW k \in 1 .. Len(d), d[k].type # "message"
        PROVE  d[k].id \in announced'[r.consumer]
    BY <1>0, <1>1, <2>2, <2>8, JournalGrows
  <2>9. i \in Notices => addressee'[i] = r.consumer
    BY <1>0, <1>1, <1>2, AddressStays, TypeOKIs DEF SpoolMatches, SpoolTyped
  <2>10. SlotFine(s)'
    BY <1>0, <2>3, <2>4, <2>6, <2>7, <2>8, <2>9, SlotFineNow
  <2>11. ASSUME NEW c \in Consumers, NEW m \in Mail, InInbox(c, m), i \in Earlier(m)
         PROVE  Stored(i)
    BY <1>1, <2>11 DEF IInv, SentInOrder, Seen
  <2>12. ASSUME NEW c \in Consumers
         PROVE  OnWire(c) /\ sub[c].slot = s => ~Works(c)
    BY <1>0, WireIs, Numbers
  <2> DEFINE C == {c \in Consumers : OnWire(c) /\ sub[c].slot = s}
  <2>13. ASSUME NEW c \in C
         PROVE  WireFine(c)'
    <3>1. /\ OnWire(c) /\ sub[c].slot = s /\ r.consumer = c /\ r.client
          /\ sub[c].at = "pop" => sub[c].hand \in announced[c]
      BY <2>13, WireIs
    <3>2. ~Works(c)
      BY <2>12, <3>1
    <3>3. ~Appends(c)
      BY <3>2 DEF Appends, Works
    <3>4. \A m \in Mail : NowIn(c, m) /\ i \in Earlier(m) => NowStored(i)
      BY <2>11, <3>3, NowInIs, NowStoredIs
    <3>5. sub[c].at = "pop" => sub[c].hand \in announced'[c]
      BY <3>1, JournalGrows
    <3> HIDE DEF r
    <3>6. session'[s] = q /\ sub'[c] = sub[c] /\ s \in Slots /\ q.consumer = c /\ q.client /\ q.out = i
      BY <2>1, <2>3, <2>4, <3>1
    <3>7. sub[c].at \notin {"append", "sync", "ack"}
      BY <3>2 DEF Works
    <3> HIDE DEF q
    <3> QED
      BY <3>1, <3>4, <3>5, <3>6, <3>7, WireFineNow
  <2>14. \A d1 \in Consumers \ C : sub'[d1] = sub[d1] /\ (OnWire(d1) => sub[d1].slot # s)
    BY <2>1
  <2> QED
    BY <2>4, <2>10, <2>13, <2>14, OthersStay
<1>3. CASE ~SpoolMatches(i, r.consumer)
  <2>1. sub' = sub /\ (session' = [session EXCEPT ![s] = session[s]] \/ HandlerReturns(s))
    BY <1>3 DEF ServerSend, MarkDelivered, clientVars
  <2>2. \A t \in Slots : Fades(session[t], session'[t]) /\ (session[t].client => session'[t].client)
    <3>1. CASE session' = [session EXCEPT ![s] = session[s]]
      BY <1>0, <3>1, FadesSame
    <3> QED
      BY <1>0, <2>1, <3>1, ReturnsShape
  <2> QED
    BY <2>1, <2>2, CalmServer
<1> QED
  BY <1>2, <1>3

LEMMA AckStep ==
    ASSUME IInv, [Next]_vars, NEW s \in Slots, ServerAck(s)
    PROVE  WiresFine'
<1> DEFINE r == session[s]
           i == Head(r.up).id
<1>0. /\ TypeOK /\ session \in [Slots -> Session] /\ r \in Session /\ r.up \in Seq(Frames)
      /\ r.server /\ r.consumer \in Consumers /\ Carries(r) /\ r.up # <<>> /\ Head(r.up).type = "ack"
      /\ \A k \in 1 .. Len(r.down) : r.down[k].type # "message" => r.down[k].id \in announced[r.consumer]
  BY SlotIs, Typed DEF IInv, ServerAck, UpFrame
<1>1. sub' = sub
  BY DEF ServerAck, MarkDelivered, clientVars
<1>2. CASE HandlerReturns(s)
  BY <1>0, <1>1, <1>2, ReturnsShape, CalmServer
<1>3. CASE r.out = i /\ session' = [session EXCEPT ![s] = [session[s] EXCEPT !.out = 0, !.up = Tail(@)]]
  <2> DEFINE u == Tail(r.up)
             q == [r EXCEPT !.out = 0, !.up = u]
  <2>1. session' = [session EXCEPT ![s] = q]
    BY <1>3
  <2>2. /\ u \in Seq(Frames) /\ 1 \in At(r.up, "ack")
        /\ \A k \in At(u, "ack") : k \in Nat /\ k # 0 /\ k + 1 \in At(r.up, "ack")
    BY <1>0, AtTail
  <2> HIDE DEF u
  <2>3. /\ q \in Session /\ q.consumer = r.consumer /\ q.out = 0 /\ q.down = r.down /\ q.up = u
        /\ q.client = r.client /\ q.server = r.server
    BY <1>0, <2>2 DEF Session, Pipes
  <2>4. session'[s] = q /\ \A t \in Slots : t # s => session'[t] = session[t]
    BY <1>0, <2>1
  <2> HIDE DEF q
  <2>5. 1 \in Up(r) /\ Down(r) = {}
    BY <1>0, <2>2, AtDownUp DEF Carries
  <2>6. Up(q) = {}
    <3>1. ASSUME NEW k \in Up(q)
          PROVE  FALSE
      <4>1. k \in Nat /\ k # 0 /\ k + 1 \in Up(r)
        BY <2>2, <2>3, <3>1, AtDownUp
      <4>2. k + 1 = 1
        BY <1>0, <2>5, <4>1 DEF Carries
      <4> QED
        BY <4>1, <4>2
    <3> QED
      BY <3>1
  <2>7. Down(q) = {}
    BY <2>3, <2>5, AtDownUp
  <2>8. Carries(q)
    BY <2>6, <2>7 DEF Carries
  <2>9. \A k \in 1 .. Len(q.down) : q.down[k].type # "message" => q.down[k].id \in announced'[q.consumer]
    BY <1>0, <2>3, JournalGrows
  <2>10. SlotFine(s)'
    BY <1>0, <2>3, <2>4, <2>6, <2>8, <2>9, Numbers, SlotFineNow
  <2>11. Up(r) # {}
    BY <2>5
  <2> HIDE DEF r
  <2> QED
    BY <1>1, <2>3, <2>4, <2>10, <2>11, ServerSideStep DEF r
<1>4. r.out = i => HandlerReturns(s) \/ session' = [session EXCEPT ![s] = [session[s] EXCEPT !.out = 0, !.up = Tail(@)]]
  BY DEF ServerAck, MarkDelivered
<1>5. r.out # i => HandlerReturns(s)
  BY DEF ServerAck
<1> QED
  BY <1>2, <1>3, <1>4, <1>5

LEMMA PresenceStep ==
    ASSUME IInv, [Next]_vars, NEW s \in Slots, ServerPresence(s)
    PROVE  WiresFine'
<1> DEFINE r == session[s]
           e == Head(r.up).id
           c == r.consumer
           f == [type |-> "presence-ack", id |-> e]
<1>0. /\ TypeOK /\ session \in [Slots -> Session] /\ r \in Session /\ r.up \in Seq(Frames) /\ r.down \in Seq(Frames)
      /\ r.server /\ c \in Consumers /\ Carries(r) /\ r.up # <<>> /\ Head(r.up).type = "presence"
      /\ \A k \in Up(r) : Durable(c, r.up[k].id)
      /\ \A k \in 1 .. Len(r.down) : r.down[k].type # "message" => r.down[k].id \in announced[c]
      /\ r.out \in Notices => addressee[r.out] = c
  BY SlotIs, Typed DEF IInv, ServerPresence, UpFrame
<1>1. sub' = sub
  BY DEF ServerPresence, clientVars
<1>2. CASE HandlerReturns(s)
  BY <1>0, <1>1, <1>2, ReturnsShape, CalmServer
<1>3. CASE /\ announced' = [announced EXCEPT ![c] = @ \cup {e}]
           /\ session' = [session EXCEPT ![s].up = Tail(@), ![s].down = Append(@, f)]
  <2> DEFINE u == Tail(r.up)
             d == Append(r.down, f)
             q == [r EXCEPT !.up = u, !.down = d]
  <2>1. session' = [session EXCEPT ![s] = q]
    BY <1>0, <1>3
  <2>2. /\ u \in Seq(Frames) /\ Head(r.up) \in Frames
        /\ \A k \in At(u, "ack") : k \in Nat /\ k # 0 /\ k + 1 \in At(r.up, "ack") /\ u[k] = r.up[k + 1]
    BY <1>0, AtTail
  <2>3. e \in Events /\ f \in Frames /\ f.type = "presence-ack" /\ f.id = e
    BY <1>0, <2>2, FramesAre
  <2>4. e \in announced'[c]
    BY <1>0, <1>3, TypeOKIs DEF RecordTyped
  <2>5. /\ d \in Seq(Frames) /\ d[Len(r.down) + 1] = f /\ \A k \in 1 .. Len(r.down) : d[k] = r.down[k]
        /\ At(d, "message") = At(r.down, "message") /\ \A k \in At(d, "message") : k \in 1 .. Len(r.down)
        /\ \A k \in 1 .. Len(d) : k \in 1 .. Len(r.down) \/ k = Len(r.down) + 1
    BY <1>0, <2>3, AtAppend DEF At
  <2> HIDE DEF f, e, u, d
  <2>6. /\ q \in Session /\ q.consumer = r.consumer /\ q.out = r.out /\ q.down = d /\ q.up = u
        /\ q.client = r.client /\ q.server = r.server
    BY <1>0, <2>2, <2>5 DEF Session, Pipes
  <2>7. session'[s] = q /\ \A t \in Slots : t # s => session'[t] = session[t]
    BY <1>0, <2>1
  <2> HIDE DEF q
  <2>8. /\ Down(q) = Down(r) /\ \A k \in Down(q) : q.down[k] = r.down[k]
        /\ \A k \in Up(q) : k \in Nat /\ k + 1 \in Up(r) /\ q.up[k] = r.up[k + 1]
    BY <2>2, <2>5, <2>6, AtDownUp
  <2>9. Carries(q)
    <3>1. \A k \in Up(q) : \A l \in Up(q) : k = l
      <4>1. ASSUME NEW k \in Up(q), NEW l \in Up(q)
            PROVE  k = l
        <5>1. k + 1 = l + 1 /\ k \in Nat /\ l \in Nat
          BY <1>0, <2>8 DEF Carries
        <5> QED
          BY <5>1
      <4> QED
        BY <4>1
    <3>2. \A k \in Up(q) : q.up[k].id = q.out
      BY <1>0, <2>6, <2>8 DEF Carries
    <3>3. Up(r) = {} => Up(q) = {}
      BY <2>8
    <3>4. \A k \in Down(q) : q.down[k].id = q.out /\ \A l \in Down(q) : k = l
      BY <1>0, <2>6, <2>8 DEF Carries
    <3>5. Down(q) = {} \/ Up(q) = {}
      BY <1>0, <2>8, <3>3 DEF Carries
    <3> QED
      BY <3>1, <3>2, <3>4, <3>5 DEF Carries
  <2>10. \A k \in Up(q) : NowDurable(q.consumer, q.up[k].id)
    <3>1. \A k \in Up(q) : Durable(c, q.up[k].id)
      BY <1>0, <2>8
    <3> QED
      BY <1>0, <2>6, <3>1, NowDurableIs
  <2>11. \A k \in 1 .. Len(q.down) : q.down[k].type # "message" => q.down[k].id \in announced'[q.consumer]
    BY <1>0, <2>3, <2>4, <2>5, <2>6, JournalGrows
  <2>12. q.out \in Notices => addressee'[q.out] = q.consumer
    <3>1. r.out \in Notices => r.out \in named
      BY SlotIs, Numbers
    <3> QED
      BY <1>0, <2>6, <3>1, AddressStays
  <2>13. SlotFine(s)'
    BY <1>0, <2>6, <2>7, <2>9, <2>10, <2>11, <2>12, SlotFineNow
  <2>14. Down(r) = {} /\ Up(r) = {} => Down(q) = {} /\ Up(q) = {}
    BY <2>8
  <2> HIDE DEF r
  <2> QED
    BY <1>1, <2>6, <2>7, <2>13, <2>14, ServerSideStep DEF r
<1> QED
  BY <1>2, <1>3 DEF ServerPresence

LEMMA CalmQuiet ==
    ASSUME IInv, [Next]_vars, session' = session,
           \A d \in Consumers :
              \/ sub'[d].at \in {"off", "dial"}
              \/ sub'[d].at = sub[d].at /\ sub'[d].slot = sub[d].slot /\ sub'[d].hand = sub[d].hand
    PROVE  WiresFine'
<1>1. \A s \in Slots : Fades(session[s], session'[s])
  BY Typed, FadesSame DEF IInv
<1>2. \A d \in Consumers : OnWire(d) => session[sub[d].slot].client
  BY WireIs
<1>3. Calm
  BY <1>1, <1>2 DEF Calm, Remains
<1> QED
  BY <1>3, CalmStep

\* The session of c fades and c leaves the wire.
LEMMA CalmLeaves ==
    ASSUME IInv, [Next]_vars, NEW c \in Consumers,
           \A t \in Slots : Fades(session[t], session'[t]),
           \A t \in Slots : OnWire(c) /\ t # sub[c].slot => session'[t] = session[t],
           ~OnWire(c) => session' = session,
           sub'[c].at \in {"off", "dial"}, \A d \in Consumers : d # c => sub'[d] = sub[d]
    PROVE  WiresFine'
<1>1. ASSUME NEW d \in Consumers, d # c
      PROVE  Remains(d)
  <2>1. ASSUME OnWire(d)
        PROVE  session'[sub[d].slot].client
    <3>1. sub[d].slot \in Slots /\ session[sub[d].slot].consumer = d /\ session[sub[d].slot].client
      BY <2>1, WireIs
    <3>2. OnWire(c) => session[sub[c].slot].consumer = c
      BY WireIs
    <3>3. session'[sub[d].slot] = session[sub[d].slot]
      BY <1>1, <3>1, <3>2
    <3> QED
      BY <3>1, <3>3
  <2> QED
    BY <1>1, <2>1 DEF Remains
<1>2. Calm
  BY <1>1 DEF Calm
<1> QED
  BY <1>2, CalmStep

LEMMA HangUpStep ==
    ASSUME IInv, [Next]_vars, NEW c \in Consumers, OnWire(c), ClientHangsUp(c)
    PROVE  WiresFine'
<1>1. TypeOK /\ sub[c].slot \in Slots
  BY WireIs DEF IInv
<1> QED
  BY <1>1, HangsUpShape, CalmLeaves

LEMMA DialStep ==
    ASSUME IInv, [Next]_vars, NEW c \in Consumers, Dial(c)
    PROVE  WiresFine'
<1>0. TypeOK /\ session \in [Slots -> Session] /\ sub \in [Consumers -> Sub] /\ sub[c] \in Sub /\ sub[c].at = "dial"
  BY Typed DEF IInv, Dial
<1>1. CASE UNCHANGED <<session, sub>>
  BY <1>1, CalmQuiet
<1>2. ASSUME NEW s \in Slots, NEW ready \in BOOLEAN, session[s] = NoSession,
             session' = [session EXCEPT ![s].consumer = c, ![s].server = TRUE, ![s].client = ready],
             IF ready THEN sub' = [sub EXCEPT ![c].at = "read", ![c].slot = s] ELSE UNCHANGED sub
      PROVE  WiresFine'
  <2> DEFINE q == [NoSession EXCEPT !.consumer = c, !.server = TRUE, !.client = ready]
  <2>1. session' = [session EXCEPT ![s] = q]
    BY <1>0, <1>2
  <2>2. /\ q.consumer = c /\ q.server = TRUE /\ q.client = ready /\ q.out = 0
        /\ q.down = <<>> /\ q.up = <<>>
    BY DEF NoSession
  <2>3. session'[s] = q /\ \A t \in Slots : t # s => session'[t] = session[t]
    BY <1>0, <2>1
  <2> HIDE DEF q
  <2>4. Carries(q) /\ Up(q) = {} /\ Down(q) = {} /\ q.out \notin Notices
    BY <2>2, EmptyCarries, Numbers
  <2>5. SlotFine(s)'
    BY <2>2, <2>3, <2>4, SlotFineNow
  <2>6. WireFine(c)'
    <3>1. CASE ~ready
      <4>1. sub'[c].at = "dial"
        BY <1>0, <1>2, <3>1
      <4> QED
        BY <4>1, WireFineNow
    <3>2. CASE ready
      <4>1. sub'[c].at = "read" /\ sub'[c].slot = s
        BY <1>0, <1>2, <3>2 DEF Sub
      <4>2. \A m \in Mail : 0 \notin Earlier(m)
        BY Numbers DEF Earlier
      <4> QED
        BY <2>2, <2>3, <3>2, <4>1, <4>2, WireFineNow
    <3> QED
      BY <3>1, <3>2
  <2>7. ASSUME NEW d \in Consumers \ {c}
        PROVE  sub'[d] = sub[d] /\ (OnWire(d) => sub[d].slot # s)
    <3>1. sub'[d] = sub[d]
      BY <1>0, <1>2, <2>7
    <3>2. OnWire(d) => session[sub[d].slot].client
      BY WireIs
    <3>3. session[s].client = FALSE
      BY <1>2, NoSessionIs
    <3> QED
      BY <3>1, <3>2, <3>3
  <2> QED
    BY <2>3, <2>5, <2>6, <2>7, OneAtWork
<1> QED
  BY <1>1, <1>2 DEF Dial

\* Two consumers on the wire have two sessions.
LEMMA OwnSession ==
    ASSUME IInv, NEW c \in Consumers, OnWire(c)
    PROVE  \A d \in Consumers \ {c} : OnWire(d) => sub[d].slot # sub[c].slot
BY WireIs

LEMMA ReadStep ==
    ASSUME IInv, [Next]_vars, NEW c \in Consumers, NEW s \in Slots, s = sub[c].slot, ClientReads(c)
    PROVE  WiresFine'
<1> DEFINE r == session[s]
           f == Head(r.down)
           ignores == f.type = "message" /\ ~Live(c)
           d == Tail(r.down)
           q == [r EXCEPT !.down = d, !.ignored = r.ignored \/ ignores]
<1>0. OnWire(c) /\ sub[c].at = "read"
  BY DEF ClientReads, OnWire
<1>1. /\ TypeOK /\ session \in [Slots -> Session] /\ sub \in [Consumers -> Sub]
      /\ s \in Slots /\ r.consumer = c /\ r.client /\ r.down # <<>>
      /\ \A m \in Mail : InInbox(c, m) /\ r.out \in Earlier(m) => Stored(r.out)
  BY <1>0, WireIs, Typed DEF IInv, ClientReads
<1>2. /\ r \in Session /\ r.down \in Seq(Frames) /\ Carries(r)
      /\ \A k \in Up(r) : Durable(c, r.up[k].id)
      /\ \A k \in 1 .. Len(r.down) : r.down[k].type # "message" => r.down[k].id \in announced[c]
      /\ r.out \in Notices => addressee[r.out] = c
  BY <1>1, SlotIs
<1>3. session' = [session EXCEPT ![s] = q] /\ UNCHANGED <<spoolVars, serverVars, inbox, synced>>
  BY <1>1 DEF ClientReads, diskVars
<1>4. IF ignores THEN sub' = sub
      ELSE sub' = [sub EXCEPT ![c].hand = f.id, ![c].at = IF f.type = "message" THEN "append" ELSE "pop"]
  BY DEF ClientReads
<1>5. /\ d \in Seq(Frames) /\ r.down[1] = f /\ f \in Frames /\ 1 \in 1 .. Len(r.down)
      /\ f.type = "message" => 1 \in At(r.down, "message")
      /\ \A k \in 1 .. Len(d) : k + 1 \in 1 .. Len(r.down) /\ d[k] = r.down[k + 1]
      /\ \A k \in At(d, "message") : k \in Nat /\ k # 0 /\ k + 1 \in At(r.down, "message") /\ d[k] = r.down[k + 1]
  BY <1>1, <1>2, AtTail
<1> HIDE DEF d, f, ignores
<1>6. /\ q \in Session /\ q.consumer = c /\ q.out = r.out /\ q.down = d /\ q.up = r.up
      /\ q.client = r.client /\ q.server = r.server
  BY <1>1, <1>2, <1>5 DEF Session, Pipes, ignores
<1>7. session'[s] = q /\ \A t \in Slots : t # s => session'[t] = session[t]
  BY <1>1, <1>3
<1> HIDE DEF q
<1>8. /\ Up(q) = Up(r) /\ \A k \in Down(q) : k \in Nat /\ k # 0 /\ k + 1 \in Down(r) /\ q.down[k] = r.down[k + 1]
      /\ f.type = "message" => 1 \in Down(r)
  BY <1>5, <1>6, AtDownUp
<1>9. f.type = "message" => f.id = r.out /\ f.id \in Items /\ Down(q) = {} /\ Up(q) = {}
  <2> SUFFICES ASSUME f.type = "message"
               PROVE  f.id = r.out /\ f.id \in Items /\ Down(q) = {} /\ Up(q) = {}
    OBVIOUS
  <2>1. 1 \in Down(r) /\ Up(r) = {} /\ f.id = r.out
    BY <1>2, <1>5, <1>8 DEF Carries
  <2>2. ASSUME NEW k \in Down(q)
        PROVE  FALSE
    <3>1. k \in Nat /\ k # 0 /\ k + 1 = 1
      BY <1>2, <1>8, <2>1, <2>2 DEF Carries
    <3> QED
      BY <3>1
  <2>3. f.id \in Items
    BY <1>5, FramesAre
  <2> QED
    BY <1>8, <2>1, <2>2, <2>3
<1>10. Carries(q)
  <2>1. \A k \in Down(q) : \A l \in Down(q) : k = l
    <3>1. ASSUME NEW k \in Down(q), NEW l \in Down(q)
          PROVE  k = l
      <4>1. k + 1 = l + 1 /\ k \in Nat /\ l \in Nat
        BY <1>2, <1>8 DEF Carries
      <4> QED
        BY <4>1
    <3> QED
      BY <3>1
  <2>2. \A k \in Down(q) : q.down[k].id = q.out
    BY <1>2, <1>6, <1>8 DEF Carries
  <2>3. Down(r) = {} => Down(q) = {}
    BY <1>8
  <2>4. \A k \in Up(q) : q.up[k].id = q.out /\ \A l \in Up(q) : k = l
    BY <1>2, <1>6, <1>8 DEF Carries
  <2>5. Down(q) = {} \/ Up(q) = {}
    BY <1>2, <1>8, <2>3 DEF Carries
  <2> QED
    BY <2>1, <2>2, <2>4, <2>5 DEF Carries
<1>11. \A k \in Up(q) : NowDurable(c, q.up[k].id)
  BY <1>2, <1>6, <1>8, NowDurableIs
<1>12. \A k \in 1 .. Len(d) : d[k].type # "message" => d[k].id \in announced'[c]
  <2>1. announced[c] \subseteq announced'[c]
    BY JournalGrows
  <2> QED
    BY <1>2, <1>5, <2>1
<1>13. r.out \in Notices => addressee'[r.out] = c
  BY <1>2, <1>3 DEF spoolVars
<1>14. SlotFine(s)'
  <2> HIDE DEF r
  <2>1. q.consumer \in Consumers /\ \A k \in Up(q) : NowDurable(q.consumer, q.up[k].id)
    BY <1>6, <1>11
  <2>2. \A k \in 1 .. Len(q.down) : q.down[k].type # "message" => q.down[k].id \in announced'[q.consumer]
    BY <1>6, <1>12
  <2>3. q.out \in Notices => addressee'[q.out] = q.consumer
    BY <1>6, <1>13
  <2> QED
    BY <1>1, <1>7, <1>10, <2>1, <2>2, <2>3, SlotFineNow
<1>15. WireFine(c)'
  <2>1. /\ sub'[c].slot = s
        /\ \/ sub'[c].at = "read"
           \/ sub'[c].at = "append" /\ sub'[c].hand = f.id /\ f.type = "message"
           \/ sub'[c].at = "pop" /\ sub'[c].hand = f.id /\ f.type # "message"
    BY <1>0, <1>1, <1>4 DEF Sub
  <2>2. f.type # "message" => f.id \in announced'[c]
    BY <1>2, <1>5, JournalGrows
  <2>3. \A m \in Mail : NowIn(c, m) /\ r.out \in Earlier(m) => NowStored(r.out)
    <3>1. \A m \in Mail : NowIn(c, m) => InInbox(c, m)
      BY <1>3 DEF NowIn, InInbox
    <3> QED
      BY <1>1, <3>1, NowStoredIs
  <2> HIDE DEF r
  <2>4. \/ sub'[c].at = "read"
        \/ /\ sub'[c].at = "append" /\ sub'[c].hand \in Items /\ sub'[c].hand = q.out
           /\ Down(q) = {} /\ Up(q) = {}
        \/ sub'[c].at = "pop" /\ sub'[c].hand \in announced'[c]
    BY <1>6, <1>9, <2>1, <2>2
  <2> QED
    BY <1>1, <1>6, <1>7, <2>1, <2>3, <2>4, WireFineNow
<1>16. \A e \in Consumers \ {c} : sub'[e] = sub[e] /\ (OnWire(e) => sub[e].slot # s)
  BY <1>0, <1>1, <1>4, OwnSession
<1> QED
  BY <1>1, <1>7, <1>14, <1>15, <1>16, OneAtWork

\* c works on, on the same socket.
LEMMA WorksOn ==
    ASSUME IInv, [Next]_vars, NEW c \in Consumers, NEW s \in Slots, s = sub[c].slot, OnWire(c),
           sub'[c].slot = s, sub'[c].at \notin {"off", "dial"},
           session'[s].consumer = c, session'[s].client, session'[s].out = session[s].out,
           sub'[c].at \in {"append", "sync", "ack"} =>
              Works(c) /\ sub'[c].hand = sub[c].hand /\ Down(session'[s]) = {} /\ Up(session'[s]) = {},
           sub'[c].at = "sync" => NowIn(c, sub'[c].hand),
           sub'[c].at = "ack" => NowDurable(c, sub'[c].hand),
           sub'[c].at = "pop" => sub'[c].hand \in announced'[c]
    PROVE  WireFine(c)'
<1> DEFINE r == session[s]
           q == session'[s]
<1>1. /\ Works(c) => sub[c].hand \in Items /\ sub[c].hand = r.out
      /\ \A m \in Mail : InInbox(c, m) /\ r.out \in Earlier(m) => Stored(r.out)
  BY WireIs
<1>2. ASSUME NEW m \in Mail, NowIn(c, m), r.out \in Earlier(m)
      PROVE  NowStored(r.out)
  <2>1. CASE InInbox(c, m)
    BY <1>1, <1>2, <2>1, NowStoredIs
  <2>2. CASE Appends(c) /\ m = sub[c].hand
    <3>1. m = r.out /\ m \in Items
      BY <1>1, <2>2 DEF Appends, Works
    <3>2. r.out < m /\ m \in Nat
      BY <1>2, <3>1, Numbers DEF Earlier
    <3> QED
      BY <3>1, <3>2
  <2> QED
    BY <1>2, <2>1, <2>2, NowInIs
<1>3. \A m \in Mail : NowIn(c, m) /\ q.out \in Earlier(m) => NowStored(q.out)
  BY <1>2
<1> QED
  BY <1>1, <1>3, WireFineNow

\* The same when the socket stays as it is and nobody else moves.
LEMMA WorksAlone ==
    ASSUME IInv, [Next]_vars, NEW c \in Consumers, NEW s \in Slots, s = sub[c].slot, OnWire(c),
           session' = session, \A d \in Consumers \ {c} : sub'[d] = sub[d],
           sub'[c].slot = s, sub'[c].at \notin {"off", "dial"},
           sub'[c].at \in {"append", "sync", "ack"} => Works(c) /\ sub'[c].hand = sub[c].hand,
           sub'[c].at = "sync" => NowIn(c, sub'[c].hand),
           sub'[c].at = "ack" => NowDurable(c, sub'[c].hand),
           sub'[c].at = "pop" => sub'[c].hand \in announced'[c]
    PROVE  WiresFine'
<1>1. /\ session'[s] = session[s] /\ session[s].consumer = c /\ session[s].client
      /\ Works(c) => Down(session[s]) = {} /\ Up(session[s]) = {}
  BY WireIs
<1>2. WireFine(c)'
  BY <1>1, WorksOn
<1>3. Fades(session[s], session'[s])
  BY <1>1, Typed, FadesSame DEF IInv
<1>4. SlotFine(s)'
  BY <1>3, SlotStays
<1>5. \A d \in Consumers \ {c} : sub'[d] = sub[d] /\ (OnWire(d) => sub[d].slot # s)
  BY OwnSession
<1> QED
  BY <1>2, <1>4, <1>5, OneAtWork

LEMMA AppendStep ==
    ASSUME IInv, [Next]_vars, NEW c \in Consumers, ClientAppends(c)
    PROVE  WiresFine'
<1>0. /\ OnWire(c) /\ Works(c) /\ sub[c].at = "append" /\ sub[c].slot \in Slots
      /\ sub \in [Consumers -> Sub] /\ sub[c].hand \in Items /\ inbox[c] \in Seq(Items)
      /\ inbox \in [Consumers -> Seq(Items)]
  BY HandIsItem, Typed DEF IInv, ClientAppends, OnWire, Works
<1>1. CASE ClientHangsUp(c)
  BY <1>0, <1>1, HangUpStep
<1>2. CASE /\ sub' = [sub EXCEPT ![c].at = "sync"] /\ UNCHANGED session
           /\ InInbox(c, sub[c].hand) => UNCHANGED inbox
           /\ ~InInbox(c, sub[c].hand) => inbox' = [inbox EXCEPT ![c] = Append(@, sub[c].hand)]
  <2>1. /\ sub'[c].at = "sync" /\ sub'[c].slot = sub[c].slot /\ sub'[c].hand = sub[c].hand
        /\ \A d \in Consumers \ {c} : sub'[d] = sub[d]
    BY <1>0, <1>2 DEF Sub
  <2>2. NowIn(c, sub[c].hand)
    <3>1. CASE InInbox(c, sub[c].hand)
      BY <1>2, <3>1 DEF InInbox, NowIn
    <3>2. CASE ~InInbox(c, sub[c].hand)
      <4> DEFINE q == Append(inbox[c], sub[c].hand)
      <4>1. q \in Seq(Items) /\ Len(q) = Len(inbox[c]) + 1 /\ q[Len(inbox[c]) + 1] = sub[c].hand
            /\ Len(inbox[c]) \in Nat
        BY <1>0
      <4>2. inbox'[c] = q
        BY <1>0, <1>2, <3>2
      <4> HIDE DEF q
      <4>3. Len(inbox[c]) + 1 \in 1 .. Len(q)
        BY <4>1
      <4>4. sub[c].hand \in ToSet(q)
        BY <4>1, <4>3, ToSetIs
      <4> QED
        BY <4>2, <4>4 DEF NowIn
    <3> QED
      BY <3>1, <3>2
  <2>3. PICK s \in Slots : s = sub[c].slot
    BY <1>0
  <2> QED
    BY <1>0, <1>2, <2>1, <2>2, <2>3, WorksAlone
<1> QED
  BY <1>1, <1>2 DEF ClientAppends

LEMMA SyncStep ==
    ASSUME IInv, [Next]_vars, NEW c \in Consumers, ClientSyncs(c)
    PROVE  WiresFine'
<1>0. /\ OnWire(c) /\ Works(c) /\ sub[c].at = "sync" /\ sub[c].slot \in Slots
      /\ sub \in [Consumers -> Sub] /\ TypeOK /\ synced \in [Consumers -> Nat]
  BY HandIsItem, Typed DEF IInv, ClientSyncs, OnWire, Works
<1>1. CASE ClientHangsUp(c)
  BY <1>0, <1>1, HangUpStep
<1>2. CASE /\ synced' = [synced EXCEPT ![c] = Len(inbox[c])]
           /\ sub' = [sub EXCEPT ![c].at = "ack"] /\ UNCHANGED <<session, inbox>>
  <2>1. /\ sub'[c].at = "ack" /\ sub'[c].slot = sub[c].slot /\ sub'[c].hand = sub[c].hand
        /\ \A d \in Consumers \ {c} : sub'[d] = sub[d]
    BY <1>0, <1>2 DEF Sub
  <2>2. InInbox(c, sub[c].hand) /\ synced'[c] = Len(inbox[c]) /\ inbox' = inbox
    BY <1>0, <1>2, WireIs
  <2>3. NowDurable(c, sub[c].hand)
    BY <1>0, <2>2, Holds DEF NowDurable
  <2>4. PICK s \in Slots : s = sub[c].slot
    BY <1>0
  <2> QED
    BY <1>0, <1>2, <2>1, <2>3, <2>4, WorksAlone
<1> QED
  BY <1>1, <1>2 DEF ClientSyncs, diskVars

LEMMA PopStep ==
    ASSUME IInv, [Next]_vars, NEW c \in Consumers, ClientPops(c)
    PROVE  WiresFine'
<1>0. OnWire(c) /\ sub[c].at = "pop" /\ sub[c].slot \in Slots /\ sub \in [Consumers -> Sub]
  BY WireIs, Typed DEF IInv, ClientPops, OnWire
<1>1. CASE ClientHangsUp(c)
  BY <1>0, <1>1, HangUpStep
<1>2. CASE sub' = [sub EXCEPT ![c].at = "read", ![c].hand = 0] /\ UNCHANGED session
  <2>1. /\ sub'[c].at = "read" /\ sub'[c].slot = sub[c].slot
        /\ \A d \in Consumers \ {c} : sub'[d] = sub[d]
    BY <1>0, <1>2 DEF Sub
  <2>2. PICK s \in Slots : s = sub[c].slot
    BY <1>0
  <2> QED
    BY <1>0, <1>2, <2>1, <2>2, WorksAlone
<1> QED
  BY <1>1, <1>2 DEF ClientPops

LEMMA SendUpShape ==
    ASSUME TypeOK, NEW c \in Consumers, NEW s \in Slots, s = sub[c].slot,
           NEW type, NEW id, [type |-> type, id |-> id] \in Frames, SendUp(c, type, id)
    PROVE  \/ session' = session
           \/ LET r == session[s]  q == session'[s] IN
              /\ \A t \in Slots : t # s => session'[t] = session[t]
              /\ q.consumer = r.consumer /\ q.client = r.client /\ q.server = r.server
              /\ q.out = r.out /\ q.down = r.down
              /\ q.up = Append(r.up, [type |-> type, id |-> id])
<1> DEFINE f == [type |-> type, id |-> id]
           r == session[s]
<1>0. session \in [Slots -> Session] /\ r \in Session /\ r.up \in Seq(Frames)
  BY Typed
<1>1. CASE ~r.server
  <2>1. session' = [session EXCEPT ![s].up = @]
    BY <1>1 DEF SendUp
  <2>2. [r EXCEPT !.up = r.up] = r
    BY <1>0 DEF Session
  <2>3. session' = [session EXCEPT ![s] = [r EXCEPT !.up = r.up]]
    BY <2>1
  <2>4. session' = [session EXCEPT ![s] = r]
    BY <2>2, <2>3
  <2> QED
    BY <1>0, <2>4
<1>2. CASE r.server
  <2> DEFINE u == Append(r.up, f)
             q == [r EXCEPT !.up = u]
  <2>1. session' = [session EXCEPT ![s] = q]
    BY <1>2 DEF SendUp
  <2>2. u \in Seq(Frames)
    BY <1>0
  <2> HIDE DEF u
  <2>3. /\ q.consumer = r.consumer /\ q.client = r.client /\ q.server = r.server
        /\ q.out = r.out /\ q.down = r.down /\ q.up = u
    BY <1>0, <2>2 DEF Session, Pipes
  <2> HIDE DEF q
  <2> QED
    BY <1>0, <2>1, <2>3 DEF u
<1> QED
  BY <1>1, <1>2

LEMMA AckUpStep ==
    ASSUME IInv, [Next]_vars, NEW c \in Consumers, ClientAcks(c)
    PROVE  WiresFine'
<1>0. /\ OnWire(c) /\ Works(c) /\ sub[c].at = "ack" /\ sub[c].slot \in Slots
      /\ TypeOK /\ sub \in [Consumers -> Sub] /\ sub[c].hand \in Items
  BY HandIsItem, Typed DEF IInv, ClientAcks, OnWire, Works
<1> PICK s \in Slots : s = sub[c].slot
  BY <1>0
<1> DEFINE r == session[s]
           q == session'[s]
           i == sub[c].hand
           f == [type |-> "ack", id |-> i]
<1>1. /\ sub'[c].at = "read" /\ sub'[c].slot = s /\ \A d \in Consumers \ {c} : sub'[d] = sub[d]
  BY <1>0 DEF Sub, ClientAcks
<1>2. f \in Frames /\ f.type = "ack" /\ f.id = i
  BY <1>0, FramesAre
<1>3. CASE session' = session
  BY <1>0, <1>1, <1>3, WorksAlone
<1>4. CASE /\ \A t \in Slots : t # s => session'[t] = session[t]
           /\ q.consumer = r.consumer /\ q.client = r.client /\ q.server = r.server
           /\ q.out = r.out /\ q.down = r.down /\ q.up = Append(r.up, f)
  <2>1. r.consumer = c /\ r.client /\ i = r.out /\ Down(r) = {} /\ Up(r) = {} /\ Durable(c, i)
    BY <1>0, WireIs
  <2>2. /\ r.up \in Seq(Frames) /\ r.out \in {0} \cup named
        /\ \A k \in 1 .. Len(r.down) : r.down[k].type # "message" => r.down[k].id \in announced[c]
        /\ r.out \in Notices => addressee[r.out] = c
    BY <2>1, SlotIs
  <2> DEFINE u == Append(r.up, f)
  <2>3. At(u, "ack") = At(r.up, "ack") \cup {Len(r.up) + 1} /\ u[Len(r.up) + 1] = f
    <3> HIDE DEF f
    <3>1. r.up \in Seq(Frames)
      BY <2>2
    <3> HIDE DEF r
    <3> QED
      BY <1>2, <3>1, AtAppend
  <2>4. Up(q) = {Len(r.up) + 1} /\ Down(q) = {} /\ q.up[Len(r.up) + 1] = f
    <3>1. q.up = u
      BY <1>4
    <3> HIDE DEF u, f
    <3> QED
      BY <1>4, <2>1, <2>3, <3>1, AtDownUp
  <2> HIDE DEF u, f
  <2>5. Carries(q)
    BY <1>2, <1>4, <2>1, <2>3, <2>4 DEF Carries
  <2>6. \A k \in Up(q) : NowDurable(c, q.up[k].id)
    BY <1>2, <2>1, <2>3, <2>4, NowDurableIs
  <2>7. \A k \in 1 .. Len(q.down) : q.down[k].type # "message" => q.down[k].id \in announced'[c]
    BY <1>4, <2>2, JournalGrows
  <2>8. q.out \in Notices => addressee'[q.out] = c
    BY <1>4, <2>2, Numbers, AddressStays
  <2>9. q.consumer = c /\ q.client /\ q.out = session[s].out
    BY <1>4, <2>1
  <2>10. SlotFine(s)'
    BY <2>5, <2>6, <2>7, <2>8, <2>9, SlotFineNow
  <2>11. WireFine(c)'
    BY <1>0, <1>1, <2>9, WorksOn
  <2>12. \A d \in Consumers \ {c} : sub'[d] = sub[d] /\ (OnWire(d) => sub[d].slot # s)
    BY <1>0, <1>1, OwnSession
  <2> QED
    BY <1>4, <2>10, <2>11, <2>12, OneAtWork
<1>5. SendUp(c, "ack", i)
  BY DEF ClientAcks
<1> HIDE DEF i
<1>6. session' = session \/ (/\ \A t \in Slots : t # s => session'[t] = session[t]
           /\ q.consumer = r.consumer /\ q.client = r.client /\ q.server = r.server
           /\ q.out = r.out /\ q.down = r.down /\ q.up = Append(r.up, f))
  BY <1>0, <1>2, <1>5, SendUpShape
<1> QED
  BY <1>3, <1>4, <1>6

LEMMA PublishStep ==
    ASSUME IInv, [Next]_vars, NEW c \in Consumers, Publish(c)
    PROVE  WiresFine'
<1>0. /\ OnWire(c) /\ sub[c].slot \in Slots /\ TypeOK /\ sub \in [Consumers -> Sub]
      /\ record[c].outbox \in Seq(Events) /\ record[c].outbox # <<>>
  <2>1. RecordTyped /\ TypeOK
    BY TypeOKIs DEF IInv
  <2>2. record[c].outbox \in Seq(Events)
    BY <2>1 DEF RecordTyped, Record, Outboxes
  <2> QED
    BY <2>1, <2>2, WireIs, Typed DEF Publish
<1> PICK s \in Slots : s = sub[c].slot
  BY <1>0
<1> DEFINE r == session[s]
           q == session'[s]
           e == Head(record[c].outbox)
           f == [type |-> "presence", id |-> e]
<1>1. e \in Events
  BY <1>0
<1>2. f \in Frames /\ f.type = "presence" /\ f.id = e
  BY <1>1, FramesAre
<1>3. /\ sub'[c].at = sub[c].at /\ sub'[c].slot = s /\ sub'[c].hand = sub[c].hand
      /\ \A d \in Consumers \ {c} : sub'[d] = sub[d]
  BY <1>0 DEF Sub, Publish
<1>4. CASE session' = session
  BY <1>3, <1>4, CalmQuiet
<1>5. CASE /\ \A t \in Slots : t # s => session'[t] = session[t]
           /\ q.consumer = r.consumer /\ q.client = r.client /\ q.server = r.server
           /\ q.out = r.out /\ q.down = r.down /\ q.up = Append(r.up, f)
  <2>1. /\ r.consumer = c /\ r.client
        /\ Works(c) => Down(r) = {} /\ Up(r) = {}
        /\ sub[c].at = "sync" => InInbox(c, sub[c].hand)
        /\ sub[c].at = "ack" => Durable(c, sub[c].hand)
        /\ sub[c].at = "pop" => sub[c].hand \in announced[c]
    BY <1>0, WireIs
  <2>2. /\ r.up \in Seq(Frames) /\ r.out \in {0} \cup named /\ Carries(r) /\ r.consumer = c
        /\ \A k \in Up(r) : Durable(c, r.up[k].id)
        /\ \A k \in 1 .. Len(r.down) : r.down[k].type # "message" => r.down[k].id \in announced[c]
        /\ r.out \in Notices => addressee[r.out] = c
    BY <1>0, SlotIs, WireIs
  <2> DEFINE u == Append(r.up, f)
  <2>3. /\ At(u, "ack") = At(r.up, "ack")
        /\ \A k \in At(r.up, "ack") : k \in 1 .. Len(r.up) /\ u[k] = r.up[k]
    <3>1. f \in Frames /\ f.type # "ack" /\ r.up \in Seq(Frames)
      BY <1>2, <2>2
    <3> HIDE DEF f
    <3>2. /\ At(u, "ack") = IF f.type = "ack" THEN At(r.up, "ack") \cup {Len(r.up) + 1} ELSE At(r.up, "ack")
          /\ \A k \in 1 .. Len(r.up) : u[k] = r.up[k]
      BY <3>1, AtAppend
    <3>3. \A k \in At(r.up, "ack") : k \in 1 .. Len(r.up)
      BY DEF At
    <3> QED
      BY <3>1, <3>2, <3>3
  <2>4. Up(q) = Up(r) /\ Down(q) = Down(r) /\ \A k \in Up(q) : q.up[k] = r.up[k]
    <3>1. q.up = u /\ q.down = r.down
      BY <1>5
    <3> HIDE DEF u, f
    <3> QED
      BY <2>3, <3>1, AtDownUp
  <2> HIDE DEF u, f
  <2>5. Carries(q)
    <3>1. q.out = r.out /\ q.down = r.down /\ Carries(r)
      BY <1>5, <2>2
    <3> HIDE DEF q, r
    <3> QED
      BY <2>4, <3>1 DEF Carries
  <2>6. \A k \in Up(q) : NowDurable(c, q.up[k].id)
    BY <2>2, <2>4, NowDurableIs
  <2>7. \A k \in 1 .. Len(q.down) : q.down[k].type # "message" => q.down[k].id \in announced'[c]
    BY <1>5, <2>2, JournalGrows
  <2>8. q.out \in Notices => addressee'[q.out] = c
    BY <1>5, <2>2, Numbers, AddressStays
  <2>9. q.consumer = c /\ q.client /\ q.out = session[s].out
    <3>1. r.consumer = c /\ r.client
      BY <2>1
    <3> QED
      BY <1>5, <3>1
  <2>10. SlotFine(s)'
    BY <2>5, <2>6, <2>7, <2>8, <2>9, SlotFineNow
  <2>11. /\ sub'[c].at \notin {"off", "dial"}
         /\ Works(c) <=> sub'[c].at \in {"append", "sync", "ack"}
    BY <1>0, <1>3 DEF OnWire, Works
  <2>12. /\ sub'[c].at = "sync" => NowIn(c, sub'[c].hand)
         /\ sub'[c].at = "ack" => NowDurable(c, sub'[c].hand)
         /\ sub'[c].at = "pop" => sub'[c].hand \in announced'[c]
    BY <1>3, <2>1, <2>11, NowInIs, NowDurableIs, JournalGrows
  <2>13. WireFine(c)'
    <3>1. session'[s].consumer = c /\ session'[s].client /\ session'[s].out = session[s].out
      BY <2>9
    <3>2. sub'[c].at \in {"append", "sync", "ack"} =>
             Works(c) /\ sub'[c].hand = sub[c].hand /\ Down(session'[s]) = {} /\ Up(session'[s]) = {}
      BY <1>3, <2>1, <2>4, <2>11
    <3> HIDE DEF q, r
    <3> QED
      BY <1>0, <1>3, <2>11, <2>12, <3>1, <3>2, WorksOn
  <2>14. \A d \in Consumers \ {c} : sub'[d] = sub[d] /\ (OnWire(d) => sub[d].slot # s)
    BY <1>0, <1>3, OwnSession
  <2> QED
    BY <1>5, <2>10, <2>13, <2>14, OneAtWork
<1>6. SendUp(c, "presence", e)
  BY DEF Publish
<1> HIDE DEF e
<1>7. session' = session \/ (/\ \A t \in Slots : t # s => session'[t] = session[t]
           /\ q.consumer = r.consumer /\ q.client = r.client /\ q.server = r.server
           /\ q.out = r.out /\ q.down = r.down /\ q.up = Append(r.up, f))
  BY <1>0, <1>2, <1>6, SendUpShape
<1> QED
  BY <1>4, <1>5, <1>7

LEMMA DeathStep ==
    ASSUME IInv, [Next]_vars, NEW c \in Consumers, ClientDies(c)
    PROVE  WiresFine'
<1>0. /\ TypeOK /\ session \in [Slots -> Session] /\ sub \in [Consumers -> Sub]
      /\ \A t \in Slots : session[t] \in Session
  BY Typed DEF IInv
<1>1. session' = [t \in Slots |-> IF t = sub[c].slot
                      THEN Tidy([session[t] EXCEPT !.client = FALSE, !.down = <<>>]) ELSE session[t]]
  BY DEF ClientDies
<1>2. ASSUME NEW t \in Slots
      PROVE  Fades(session[t], session'[t])
  <2> DEFINE q == Tidy([session[t] EXCEPT !.client = FALSE, !.down = <<>>])
  <2>1. Fades(session[t], q) /\ Fades(session[t], session[t])
    BY <1>0, FadesClient, FadesSame
  <2>2. session'[t] = q \/ session'[t] = session[t]
    BY <1>1
  <2> HIDE DEF q
  <2> QED
    BY <2>1, <2>2
<1>3. \A t \in Slots : t # sub[c].slot => session'[t] = session[t]
  BY <1>1
<1>4. ~OnWire(c) => session' = session
  <2>1. ~OnWire(c) => sub[c].slot \notin Slots
    BY Numbers DEF IInv, Unplugged
  <2>2. ~OnWire(c) => session' = [t \in Slots |-> session[t]]
    BY <1>1, <2>1
  <2> QED
    BY <1>0, <2>2
<1>5. sub'[c].at = "off" /\ \A d \in Consumers : d # c => sub'[d] = sub[d]
  BY <1>0, NoSubIs DEF ClientDies
<1> QED
  BY <1>2, <1>3, <1>4, <1>5, CalmLeaves

LEMMA RelayDeathStep == ASSUME IInv, [Next]_vars, ServerDies PROVE WiresFine'
<1>0. /\ TypeOK /\ session \in [Slots -> Session] /\ \A t \in Slots : session[t] \in Session
  BY Typed DEF IInv
<1>1. ASSUME NEW t \in Slots
      PROVE  Fades(session[t], session'[t]) /\ (session[t].client => session'[t].client)
  <2> DEFINE q == Tidy([session[t] EXCEPT !.server = FALSE, !.up = <<>>])
  <2>1. Fades(session[t], q) /\ (session[t].client => q.client)
    BY <1>0, FadesServer
  <2>2. session'[t] = q
    BY DEF ServerDies
  <2> HIDE DEF q
  <2> QED
    BY <2>1, <2>2
<1>2. sub' = sub
  BY DEF ServerDies, clientVars
<1> QED
  BY <1>1, <1>2, CalmServer

LEMMA WiresStep == IInv /\ [Next]_vars => WiresFine'
<1> SUFFICES ASSUME IInv, [Next]_vars
             PROVE  WiresFine'
  OBVIOUS
<1>0. TypeOK /\ sub \in [Consumers -> Sub] /\ \A c \in Consumers : sub[c] \in Sub
  BY Typed DEF IInv
<1>1. ASSUME Post \/ PostAnswers \/ (\E i \in Notices : PostNotice(i)) \/ UNCHANGED vars
      PROVE  WiresFine'
  <2>1. session' = session /\ sub' = sub
    BY <1>1 DEF Post, PostAnswers, PostNotice, vars, clientVars
  <2> QED
    BY <2>1, CalmQuiet
<1>2. ASSUME NEW s \in Slots, ServerCloses(s)
      PROVE  WiresFine'
  <2>1. HandlerReturns(s) /\ sub' = sub
    BY <1>2 DEF ServerCloses, clientVars
  <2> QED
    BY <1>0, <2>1, ReturnsShape, CalmServer
<1>3. ASSUME NEW s \in Slots, Handler(s)
      PROVE  WiresFine'
  BY <1>2, <1>3, SendStep, AckStep, PresenceStep DEF Handler
<1>4. ASSUME NEW c \in Consumers,
             \/ Start(c) \/ RunEnds(c) \/ Observe(c) \/ Disconnect(c) \/ DisconnectAnswers(c) \/ Reconnect(c)
      PROVE  WiresFine'
  <2>1. session' = session
    BY <1>4 DEF Start, RunEnds, Observe, Disconnect, DisconnectAnswers, Reconnect
  <2>2. ASSUME NEW d \in Consumers
        PROVE  \/ sub'[d].at \in {"off", "dial"}
               \/ sub'[d].at = sub[d].at /\ sub'[d].slot = sub[d].slot /\ sub'[d].hand = sub[d].hand
    <3>1. CASE Start(c) \/ RunEnds(c)
      BY <1>0, <3>1, NoSubIs DEF Start, RunEnds
    <3>2. CASE Observe(c) \/ DisconnectAnswers(c)
      BY <3>2 DEF Observe, DisconnectAnswers
    <3>3. CASE Disconnect(c)
      BY <1>0, <3>3 DEF Disconnect, Sub
    <3>4. CASE Reconnect(c)
      BY <1>0, <3>4, NoSubIs DEF Reconnect
    <3> QED
      BY <1>4, <3>1, <3>2, <3>3, <3>4
  <2> QED
    BY <2>1, <2>2, CalmQuiet
<1>5. ASSUME NEW c \in Consumers, PopGivesUp(c) \/ PublisherAborts(c) \/ ClientFails(c)
      PROVE  WiresFine'
  <2>1. OnWire(c) /\ ClientHangsUp(c)
    BY <1>5 DEF PopGivesUp, PublisherAborts, ClientFails, OnWire
  <2> QED
    BY <2>1, HangUpStep
<1>6. ASSUME NEW c \in Consumers, ClientReads(c)
      PROVE  WiresFine'
  <2>1. OnWire(c)
    BY <1>6 DEF ClientReads, OnWire
  <2>2. PICK s \in Slots : s = sub[c].slot
    BY <2>1, WireIs
  <2> QED
    BY <1>6, <2>2, ReadStep
<1>7. ASSUME NEW c \in Consumers, Subscription(c)
      PROVE  WiresFine'
  BY <1>4, <1>5, <1>6, <1>7, DialStep, AppendStep, SyncStep, AckUpStep, PopStep, PublishStep DEF Subscription
<1>8. ASSUME NEW c \in Consumers, Verbs(c)
      PROVE  WiresFine'
  BY <1>4, <1>8, DeathStep DEF Verbs
<1> QED
  BY <1>1, <1>3, <1>7, <1>8, RelayDeathStep DEF Next

-----------------------------------------------------------------------------
(* The types, and who is off the wire. *)

LEMMA OneSub ==
    ASSUME IInv, NEW c \in Consumers, NEW v \in Sub, sub' = [sub EXCEPT ![c] = v],
           v.at \in {"off", "dial"} => v.slot = NoSlot
    PROVE  sub' \in [Consumers -> Sub] /\ Unplugged'
<1>1. sub \in [Consumers -> Sub] /\ Unplugged
  BY Typed DEF IInv
<1>2. sub' \in [Consumers -> Sub] /\ sub'[c] = v /\ \A d \in Consumers : d # c => sub'[d] = sub[d]
  BY <1>1
<1> QED
  BY <1>1, <1>2 DEF Unplugged, OnWire

LEMMA OffWire ==
    ASSUME IInv, NEW c \in Consumers,
           sub' = [sub EXCEPT ![c] = NoSub] \/ sub' = [sub EXCEPT ![c] = Dialing]
    PROVE  sub' \in [Consumers -> Sub] /\ Unplugged'
<1>1. NoSub.slot = NoSlot /\ Dialing.slot = NoSlot
  BY DEF NoSub, Dialing
<1> QED
  BY <1>1, NoSubIs, OneSub

LEMMA HangUpSub ==
    ASSUME IInv, NEW c \in Consumers, ClientHangsUp(c)
    PROVE  sub' \in [Consumers -> Sub] /\ Unplugged'
<1>1. sub' = [sub EXCEPT ![c] = NoSub] \/ sub' = [sub EXCEPT ![c] = Dialing]
  BY DEF ClientHangsUp
<1> QED
  BY <1>1, OffWire

LEMMA SubStep == IInv /\ [Next]_vars => sub' \in [Consumers -> Sub] /\ Unplugged'
<1> SUFFICES ASSUME IInv, [Next]_vars
             PROVE  sub' \in [Consumers -> Sub] /\ Unplugged'
  OBVIOUS
<1>0. TypeOK /\ sub \in [Consumers -> Sub] /\ \A c \in Consumers : sub[c] \in Sub
  BY Typed DEF IInv
<1>1. ASSUME sub' = sub
      PROVE  sub' \in [Consumers -> Sub] /\ Unplugged'
  BY <1>0, <1>1 DEF IInv, Unplugged, OnWire
<1>2. Post \/ PostAnswers \/ (\E i \in Notices : PostNotice(i)) \/ ServerDies \/ UNCHANGED vars => sub' = sub
  BY DEF Post, PostAnswers, PostNotice, ServerDies, vars, clientVars
<1>3. ASSUME NEW s \in Slots, Handler(s)
      PROVE  sub' = sub
  BY <1>3 DEF Handler, ServerSend, ServerAck, ServerPresence, ServerCloses, MarkDelivered, clientVars
<1>4. ASSUME NEW c \in Consumers, Subscription(c)
      PROVE  sub' \in [Consumers -> Sub] /\ Unplugged'
  <2>1. CASE Start(c) \/ RunEnds(c)
    BY <2>1, OffWire DEF Start, RunEnds
  <2>2. CASE ClientHangsUp(c)
    BY <2>2, HangUpSub
  <2>3. CASE Dial(c)
    <3>1. ASSUME NEW s \in Slots, sub' = [sub EXCEPT ![c].at = "read", ![c].slot = s]
          PROVE  sub' \in [Consumers -> Sub] /\ Unplugged'
      <4> DEFINE v == [sub[c] EXCEPT !.at = "read", !.slot = s]
      <4>1. v \in Sub /\ v.at = "read"
        BY <1>0 DEF Sub
      <4>2. sub' = [sub EXCEPT ![c] = v]
        BY <3>1
      <4> HIDE DEF v
      <4> QED
        BY <4>1, <4>2, OneSub
    <3> QED
      BY <1>1, <2>3, <3>1 DEF Dial
  <2>4. CASE ClientReads(c)
    <3> DEFINE s == sub[c].slot
               f == Head(session[s].down)
               v == [sub[c] EXCEPT !.hand = f.id, !.at = IF f.type = "message" THEN "append" ELSE "pop"]
    <3>1. OnWire(c) /\ s \in Slots /\ session[s].down \in Seq(Frames) /\ session[s].down # <<>>
      <4>1. OnWire(c)
        BY <2>4 DEF ClientReads, OnWire
      <4> QED
        BY <2>4, <4>1, WireIs, SlotIs DEF ClientReads
    <3>2. f \in Frames
      BY <3>1
    <3>3. f.id \in Nat
      BY <3>2, FramesAre, Numbers
    <3>4. sub' = sub \/ sub' = [sub EXCEPT ![c] = v]
      BY <2>4 DEF ClientReads
    <3> HIDE DEF f
    <3>5. v \in Sub /\ v.at \in {"append", "pop"}
      BY <1>0, <3>3 DEF Sub
    <3> HIDE DEF v
    <3> QED
      BY <1>1, <3>4, <3>5, OneSub
  <2>5. ASSUME NEW at \in {"sync", "ack"}, sub' = [sub EXCEPT ![c].at = at]
        PROVE  sub' \in [Consumers -> Sub] /\ Unplugged'
    <3> DEFINE v == [sub[c] EXCEPT !.at = at]
    <3>1. v \in Sub /\ v.at = at /\ sub' = [sub EXCEPT ![c] = v]
      BY <1>0, <2>5 DEF Sub
    <3> HIDE DEF v
    <3> QED
      BY <2>5, <3>1, OneSub
  <2>6. ASSUME sub' = [sub EXCEPT ![c].at = "read", ![c].hand = 0]
        PROVE  sub' \in [Consumers -> Sub] /\ Unplugged'
    <3> DEFINE v == [sub[c] EXCEPT !.at = "read", !.hand = 0]
    <3>1. v \in Sub /\ v.at = "read"
      BY <1>0 DEF Sub
    <3>2. sub' = [sub EXCEPT ![c] = v]
      BY <2>6
    <3> HIDE DEF v
    <3> QED
      BY <3>1, <3>2, OneSub
  <2>7. CASE Publish(c)
    <3> DEFINE e == Head(record[c].outbox)
               v == [sub[c] EXCEPT !.sent = e]
    <3>1. record[c].outbox \in Seq(Events) /\ record[c].outbox # <<>>
      BY <1>0, <2>7, TypeOKIs DEF Publish, RecordTyped, Record, Outboxes
    <3>2. e \in Events
      BY <3>1
    <3>3. e \in EventNumbers
      BY <3>2, Numbers DEF EventNumbers, Events
    <3>4. OnWire(c) /\ sub' = [sub EXCEPT ![c] = v]
      BY <2>7 DEF Publish
    <3> HIDE DEF e
    <3>5. v \in Sub /\ v.at = sub[c].at
      BY <1>0, <3>3 DEF Sub
    <3> HIDE DEF v
    <3> QED
      BY <3>4, <3>5, OneSub DEF OnWire
  <2>8. ASSUME ClientAppends(c)
        PROVE  ClientHangsUp(c) \/ sub' = [sub EXCEPT ![c].at = "sync"]
    BY <2>8 DEF ClientAppends
  <2>9. ASSUME ClientSyncs(c)
        PROVE  ClientHangsUp(c) \/ sub' = [sub EXCEPT ![c].at = "ack"]
    BY <2>9 DEF ClientSyncs
  <2>10. ASSUME ClientAcks(c) \/ ClientPops(c)
         PROVE  ClientHangsUp(c) \/ sub' = [sub EXCEPT ![c].at = "read", ![c].hand = 0]
    BY <2>10 DEF ClientAcks, ClientPops
  <2>11. PopGivesUp(c) \/ PublisherAborts(c) \/ ClientFails(c) => ClientHangsUp(c)
    BY DEF PopGivesUp, PublisherAborts, ClientFails
  <2> QED
    BY <1>4, <2>1, <2>2, <2>3, <2>4, <2>5, <2>6, <2>7, <2>8, <2>9, <2>10, <2>11 DEF Subscription
<1>5. ASSUME NEW c \in Consumers, Verbs(c)
      PROVE  sub' \in [Consumers -> Sub] /\ Unplugged'
  <2>1. CASE Observe(c) \/ DisconnectAnswers(c)
    BY <1>1, <2>1 DEF Observe, DisconnectAnswers
  <2>2. CASE Disconnect(c)
    <3> DEFINE v == [sub[c] EXCEPT !.cancelled = sub[c].at # "off"]
    <3>1. v \in Sub /\ v.at = sub[c].at /\ v.slot = sub[c].slot
      BY <1>0 DEF Sub
    <3>2. sub' = [sub EXCEPT ![c] = v]
      BY <2>2 DEF Disconnect
    <3> HIDE DEF v
    <3> QED
      BY <3>1, <3>2, OneSub DEF IInv, Unplugged, OnWire
  <2>3. CASE Reconnect(c) \/ ClientDies(c)
    BY <1>1, <2>3, OffWire DEF Reconnect, ClientDies
  <2> QED
    BY <1>5, <2>1, <2>2, <2>3 DEF Verbs
<1> QED
  BY <1>1, <1>2, <1>3, <1>4, <1>5 DEF Next

LEMMA CountersStep == IInv /\ [Next]_vars => stopping' \in [Consumers -> BOOLEAN] /\ faults' \in 0 .. MaxFaults
<1> SUFFICES ASSUME IInv, [Next]_vars
             PROVE  stopping' \in [Consumers -> BOOLEAN] /\ faults' \in 0 .. MaxFaults
  OBVIOUS
<1>0. stopping \in [Consumers -> BOOLEAN] /\ faults \in 0 .. MaxFaults
  BY TypeOKIs DEF IInv, SubTyped
<1>1. Fault => faults' \in 0 .. MaxFaults
  BY <1>0, Numbers DEF Fault
<1>2. ASSUME NEW s \in Slots, Handler(s)
      PROVE  stopping' = stopping /\ (faults' = faults \/ Fault)
  BY <1>2 DEF Handler, ServerSend, ServerAck, ServerPresence, ServerCloses, MarkDelivered, clientVars
<1>3. ASSUME NEW c \in Consumers, Subscription(c)
      PROVE  stopping' = stopping /\ (faults' = faults \/ Fault)
  BY <1>3 DEF Subscription, Start, RunEnds, Dial, ClientReads, ClientAppends, ClientSyncs, ClientAcks,
     ClientPops, PopGivesUp, Publish, PublisherAborts, ClientFails
<1>4. ASSUME NEW c \in Consumers, Verbs(c)
      PROVE  /\ stopping' = stopping \/ \E b \in BOOLEAN : stopping' = [stopping EXCEPT ![c] = b]
             /\ faults' = faults \/ Fault
  BY <1>4 DEF Verbs, Observe, Disconnect, DisconnectAnswers, Reconnect, ClientDies
<1>5. ASSUME Post \/ PostAnswers \/ (\E i \in Notices : PostNotice(i)) \/ ServerDies \/ UNCHANGED vars
      PROVE  stopping' = stopping /\ (faults' = faults \/ Fault)
  BY <1>5 DEF Post, PostAnswers, PostNotice, ServerDies, vars, clientVars
<1> QED
  BY <1>0, <1>1, <1>2, <1>3, <1>4, <1>5 DEF Next

NewlySent(i) == queued # {} /\ i = Min(queued) /\ UNCHANGED spoolVars

SessionsTyped ==
    /\ session' \in [Slots -> Session]
    /\ \A t \in Slots :
        /\ session'[t].out \in {0} \cup named'
        /\ session'[t].out \in {0, session[t].out} \/ NewlySent(session'[t].out)

LEMMA OneSession ==
    ASSUME IInv, [Next]_vars, NEW s \in Slots, NEW v \in Session, session' = [session EXCEPT ![s] = v],
           v.out \in {0, session[s].out} \/ (v.out \in named /\ NewlySent(v.out))
    PROVE  SessionsTyped
<1>1. session \in [Slots -> Session] /\ named \subseteq named' /\ \A t \in Slots : session[t].out \in {0} \cup named
  BY SpoolTypeStep, TypeOKIs DEF IInv, SessionTyped
<1>2. session' \in [Slots -> Session] /\ session'[s] = v /\ \A t \in Slots : t # s => session'[t] = session[t]
  BY <1>1
<1> QED
  BY <1>1, <1>2 DEF SessionsTyped

LEMMA SameSessions == ASSUME IInv, [Next]_vars, session' = session PROVE SessionsTyped
<1>1. session \in [Slots -> Session] /\ named \subseteq named' /\ \A t \in Slots : session[t].out \in {0} \cup named
  BY SpoolTypeStep, TypeOKIs DEF IInv, SessionTyped
<1> QED
  BY <1>1 DEF SessionsTyped

LEMMA ReturnsTyped ==
    ASSUME IInv, [Next]_vars, NEW s \in Slots, HandlerReturns(s)
    PROVE  SessionsTyped
<1> DEFINE v == Tidy([session[s] EXCEPT !.server = FALSE, !.up = <<>>])
<1>1. session[s] \in Session
  BY Typed DEF IInv
<1>2. Fades(session[s], v) /\ session' = [session EXCEPT ![s] = v]
  BY <1>1, FadesServer DEF HandlerReturns
<1> HIDE DEF v
<1> QED
  BY <1>2, OneSession DEF Fades

LEMMA HangUpTyped ==
    ASSUME IInv, [Next]_vars, NEW c \in Consumers, OnWire(c), ClientHangsUp(c)
    PROVE  SessionsTyped
<1> PICK s \in Slots : s = sub[c].slot
  BY WireIs
<1> DEFINE v == Tidy([session[s] EXCEPT !.client = FALSE, !.down = <<>>])
<1>1. session[s] \in Session
  BY Typed DEF IInv
<1>2. Fades(session[s], v) /\ session' = [session EXCEPT ![s] = v]
  BY <1>1, FadesClient DEF ClientHangsUp
<1> HIDE DEF v
<1> QED
  BY <1>2, OneSession DEF Fades

LEMMA SessionStep == IInv /\ [Next]_vars => SessionsTyped
<1> SUFFICES ASSUME IInv, [Next]_vars
             PROVE  SessionsTyped
  OBVIOUS
<1>0. TypeOK /\ session \in [Slots -> Session]
  BY Typed DEF IInv
<1>1. \A s \in Slots : session[s] \in Session /\ session[s].down \in Seq(Frames) /\ session[s].up \in Seq(Frames)
                          /\ session[s].out \in {0} \cup named /\ session[s].ignored \in BOOLEAN
  BY SlotIs DEF Session
<1>3. ASSUME NEW s \in Slots, ServerSend(s)
      PROVE  SessionsTyped
  <2> DEFINE i == Min(queued)
             d == Append(session[s].down, [type |-> "message", id |-> i])
             v == [session[s] EXCEPT !.out = i, !.down = d]
  <2>1. i \in named /\ i \in Items /\ d \in Seq(Frames)
    <3>1. i \in queued /\ i \in Items
      BY <1>0, <1>3, LeastQueued DEF ServerSend
    <3>2. [type |-> "message", id |-> i] \in Frames
      BY <3>1, FramesAre
    <3> QED
      BY <1>0, <1>1, <3>1, <3>2, TypeOKIs DEF SpoolTyped
  <2>2. \/ session' = [session EXCEPT ![s] = v] /\ NewlySent(i)
        \/ session' = [session EXCEPT ![s] = session[s]]
        \/ HandlerReturns(s)
    BY <1>0, <1>3 DEF ServerSend, MarkDelivered, NewlySent
  <2> HIDE DEF i, d
  <2>3. v \in Session /\ v.out = i
    BY <1>1, <2>1 DEF Session, Pipes
  <2> HIDE DEF v
  <2>4. session' = [session EXCEPT ![s] = session[s]] => session' = session
    BY <1>0
  <2> QED
    BY <2>1, <2>2, <2>3, <2>4, OneSession, SameSessions, ReturnsTyped
<1>4. ASSUME NEW s \in Slots, ServerAck(s)
      PROVE  SessionsTyped
  <2> DEFINE u == Tail(session[s].up)
             v == [session[s] EXCEPT !.out = 0, !.up = u]
  <2>1. u \in Seq(Frames)
    BY <1>1, <1>4 DEF ServerAck, UpFrame
  <2>2. session' = [session EXCEPT ![s] = v] \/ HandlerReturns(s)
    BY <1>0, <1>4 DEF ServerAck, MarkDelivered
  <2> HIDE DEF u
  <2>3. v \in Session /\ v.out = 0
    BY <1>1, <2>1 DEF Session, Pipes
  <2> HIDE DEF v
  <2> QED
    BY <2>2, <2>3, OneSession, ReturnsTyped
<1>5. ASSUME NEW s \in Slots, ServerPresence(s)
      PROVE  SessionsTyped
  <2> DEFINE u == Tail(session[s].up)
             e == Head(session[s].up).id
             d == Append(session[s].down, [type |-> "presence-ack", id |-> e])
             v == [session[s] EXCEPT !.up = u, !.down = d]
  <2>1. u \in Seq(Frames) /\ d \in Seq(Frames)
    <3>1. session[s].up \in Seq(Frames) /\ session[s].up # <<>> /\ Head(session[s].up).type = "presence"
      BY <1>1, <1>5 DEF ServerPresence, UpFrame
    <3>2. Head(session[s].up) \in Frames /\ u \in Seq(Frames)
      BY <3>1
    <3>3. [type |-> "presence-ack", id |-> e] \in Frames
      BY <3>1, <3>2, FramesAre
    <3> QED
      BY <1>1, <3>2, <3>3
  <2>2. session' = [session EXCEPT ![s] = v] \/ HandlerReturns(s)
    BY <1>0, <1>5 DEF ServerPresence
  <2> HIDE DEF e, u, d
  <2>3. v \in Session /\ v.out = session[s].out
    BY <1>1, <2>1 DEF Session, Pipes
  <2> HIDE DEF v
  <2> QED
    BY <2>2, <2>3, OneSession, ReturnsTyped
<1>6. ASSUME ServerDies
      PROVE  SessionsTyped
  <2>1. session' = [t \in Slots |-> Tidy([session[t] EXCEPT !.server = FALSE, !.up = <<>>])]
        /\ named' = named
    BY <1>6 DEF ServerDies
  <2>2. ASSUME NEW t \in Slots
        PROVE  /\ Tidy([session[t] EXCEPT !.server = FALSE, !.up = <<>>]) \in Session
               /\ session'[t].out \in {0} \cup named' /\ session'[t].out \in {0, session[t].out}
    BY <1>1, <2>1, FadesServer DEF Fades
  <2> QED
    BY <2>1, <2>2 DEF SessionsTyped
<1>7. ASSUME NEW c \in Consumers, Dial(c)
      PROVE  SessionsTyped
  <2>1. ASSUME NEW s \in Slots, NEW ready \in BOOLEAN, session[s] = NoSession,
               session' = [session EXCEPT ![s].consumer = c, ![s].server = TRUE, ![s].client = ready]
        PROVE  SessionsTyped
    <3> DEFINE v == [NoSession EXCEPT !.consumer = c, !.server = TRUE, !.client = ready]
    <3>1. session' = [session EXCEPT ![s] = v]
      BY <1>0, <2>1
    <3>2. v \in Session /\ v.out = 0
      BY NoSessionIs DEF Session
    <3> HIDE DEF v
    <3> QED
      BY <3>1, <3>2, OneSession
  <2> QED
    BY <1>7, <2>1, SameSessions DEF Dial
<1>8. ASSUME NEW c \in Consumers, ClientReads(c)
      PROVE  SessionsTyped
  <2>1. OnWire(c)
    BY <1>8 DEF ClientReads, OnWire
  <2> PICK s \in Slots : s = sub[c].slot
    BY <2>1, WireIs
  <2> DEFINE d == Tail(session[s].down)
             f == Head(session[s].down)
             g == session[s].ignored \/ (f.type = "message" /\ ~Live(c))
             v == [session[s] EXCEPT !.down = d, !.ignored = g]
  <2>2. session' = [session EXCEPT ![s] = v] /\ session[s].down # <<>>
    BY <1>0, <1>8 DEF ClientReads
  <2>3. d \in Seq(Frames) /\ g \in BOOLEAN
    BY <1>1, <2>2
  <2> HIDE DEF d, g
  <2>4. v \in Session /\ v.out = session[s].out
    BY <1>1, <2>3 DEF Session, Pipes
  <2> HIDE DEF v
  <2> QED
    BY <2>2, <2>4, OneSession
<1>9. ASSUME NEW c \in Consumers, NEW type, NEW id, OnWire(c), [type |-> type, id |-> id] \in Frames,
             SendUp(c, type, id)
      PROVE  SessionsTyped
  <2> PICK s \in Slots : s = sub[c].slot
    BY <1>9, WireIs
  <2> DEFINE f == [type |-> type, id |-> id]
             u == IF session[s].server THEN Append(session[s].up, f) ELSE session[s].up
             v == [session[s] EXCEPT !.up = u]
  <2>1. u \in Seq(Frames)
    BY <1>1, <1>9
  <2>2. session' = [session EXCEPT ![s] = v]
    BY <1>9 DEF SendUp
  <2> HIDE DEF u
  <2>3. v \in Session /\ v.out = session[s].out
    BY <1>1, <2>1 DEF Session, Pipes
  <2> HIDE DEF v
  <2> QED
    BY <2>2, <2>3, OneSession
<1>10. ASSUME NEW c \in Consumers, ClientAcks(c)
       PROVE  SessionsTyped
  <2>1. Works(c) /\ SendUp(c, "ack", sub[c].hand)
    BY <1>10 DEF ClientAcks, Works
  <2> QED
    BY <1>9, <2>1, HandIsItem, FramesAre
<1>11. ASSUME NEW c \in Consumers, Publish(c)
       PROVE  SessionsTyped
  <2>1. OnWire(c) /\ SendUp(c, "presence", Head(record[c].outbox)) /\ record[c].outbox # <<>>
        /\ record[c].outbox \in Seq(Events)
    BY <1>0, <1>11, TypeOKIs DEF Publish, RecordTyped, Record, Outboxes
  <2>2. Head(record[c].outbox) \in Events
    BY <2>1
  <2> QED
    BY <1>9, <2>1, <2>2, FramesAre
<1>12. ASSUME NEW c \in Consumers,
              ClientAppends(c) \/ ClientSyncs(c) \/ ClientPops(c) \/ PopGivesUp(c) \/ PublisherAborts(c) \/ ClientFails(c)
       PROVE  SessionsTyped
  <2>1. OnWire(c) /\ (ClientHangsUp(c) \/ session' = session)
    BY <1>12 DEF ClientAppends, ClientSyncs, ClientPops, PopGivesUp, PublisherAborts, ClientFails, OnWire
  <2> QED
    BY <2>1, HangUpTyped, SameSessions
<1>13. ASSUME NEW c \in Consumers,
              \/ Start(c) \/ RunEnds(c) \/ Observe(c) \/ Disconnect(c) \/ DisconnectAnswers(c) \/ Reconnect(c)
       PROVE  SessionsTyped
  BY <1>13, SameSessions DEF Start, RunEnds, Observe, Disconnect, DisconnectAnswers, Reconnect
<1>14. ASSUME NEW c \in Consumers, ClientDies(c)
       PROVE  SessionsTyped
  <2>1. /\ session' = [s \in Slots |-> IF s = sub[c].slot
                        THEN Tidy([session[s] EXCEPT !.client = FALSE, !.down = <<>>]) ELSE session[s]]
        /\ named' = named
    BY <1>14 DEF ClientDies, spoolVars
  <2>2. ASSUME NEW t \in Slots
        PROVE  /\ session'[t] \in Session /\ session'[t].out \in {0} \cup named'
               /\ session'[t].out \in {0, session[t].out}
    <3> DEFINE q == Tidy([session[t] EXCEPT !.client = FALSE, !.down = <<>>])
    <3>1. q \in Session /\ q.out \in {0, session[t].out}
      BY <1>1, FadesClient DEF Fades
    <3>2. session'[t] = q \/ session'[t] = session[t]
      BY <2>1
    <3> HIDE DEF q
    <3> QED
      BY <1>1, <2>1, <3>1, <3>2
  <2>3. session' = [s \in Slots |-> session'[s]]
    BY <2>1
  <2> QED
    BY <2>2, <2>3 DEF SessionsTyped
<1>15. Post \/ PostAnswers \/ (\E i \in Notices : PostNotice(i)) \/ UNCHANGED vars => session' = session
  BY DEF Post, PostAnswers, PostNotice, vars
<1>16. ASSUME NEW s \in Slots, ServerCloses(s)
       PROVE  SessionsTyped
  BY <1>16, ReturnsTyped DEF ServerCloses
<1> QED
  BY <1>3, <1>4, <1>5, <1>6, <1>7, <1>8, <1>10, <1>11, <1>12, <1>13, <1>14, <1>15, <1>16, SameSessions
     DEF Next, Handler, Subscription, Verbs

LEMMA TailStep == IInv /\ [Next]_vars => tail' \in Slots \cup {NoSlot}
<1> SUFFICES ASSUME IInv, [Next]_vars
             PROVE  tail' \in Slots \cup {NoSlot}
  OBVIOUS
<1>0. tail \in Slots \cup {NoSlot}
  BY TypeOKIs DEF IInv, SessionTyped
<1>1. ASSUME NEW s \in Slots, Handler(s)
      PROVE  tail' \in {tail, NoSlot}
  BY <1>1 DEF Handler, ServerSend, ServerAck, ServerPresence, ServerCloses, MarkDelivered, HandlerReturns, serverVars
<1>2. ASSUME NEW c \in Consumers, Dial(c)
      PROVE  tail' = tail \/ tail' \in Slots
  BY <1>2 DEF Dial
<1>3. ASSUME NEW c \in Consumers, Subscription(c) \/ Verbs(c), ~Dial(c)
      PROVE  tail' = tail
  BY <1>3 DEF Subscription, Verbs, Start, RunEnds, ClientReads, ClientAppends, ClientSyncs, ClientAcks,
     ClientPops, PopGivesUp, Publish, PublisherAborts, ClientFails, Observe, Disconnect,
     DisconnectAnswers, Reconnect, ClientDies, serverVars
<1>4. Post \/ PostAnswers \/ (\E i \in Notices : PostNotice(i)) \/ ServerDies \/ UNCHANGED vars
         => tail' \in {tail, NoSlot}
  BY DEF Post, PostAnswers, PostNotice, ServerDies, vars, serverVars
<1> QED
  BY <1>0, <1>1, <1>2, <1>3, <1>4 DEF Next

\* What becomes of a record's transitions: none, a new one is appended, or
\* the head is popped.
SameEvents(c) == record'[c].outbox = record[c].outbox /\ record'[c].last = record[c].last
NewEvent(c) ==
    /\ record[c].last < MaxEvents /\ record'[c].last = record[c].last + 1
    /\ record'[c].outbox = Append(record[c].outbox, record[c].last + 1)
Pops(c) ==
    /\ record[c].outbox # <<>> /\ sub[c].at = "pop" /\ Head(record[c].outbox) = sub[c].hand
    /\ record'[c].outbox = Tail(record[c].outbox) /\ record'[c].last = record[c].last

LEMMA AnnouncedIs ==
    ASSUME NEW r \in Record, r.last < MaxEvents, NEW on \in BOOLEAN
    PROVE  LET q == Announced(r, on) IN
           q \in Record /\ q.last = r.last + 1 /\ q.outbox = Append(r.outbox, r.last + 1)
<1> DEFINE n == r.last + 1
           o == Append(r.outbox, n)
           q == [r EXCEPT !.online = on, !.last = n, !.outbox = o]
<1>1. r.last \in EventNumbers /\ r.outbox \in Seq(Events)
  BY DEF Record, Outboxes
<1>2. n \in Events /\ n \in EventNumbers
  BY <1>1, Numbers DEF EventNumbers, Events
<1>3. o \in Outboxes
  BY <1>1, <1>2 DEF Outboxes
<1>4. Announced(r, on) = q
  BY DEF Announced
<1> HIDE DEF n, o
<1>5. q \in Record /\ q.last = n /\ q.outbox = o
  BY <1>2, <1>3 DEF Record
<1> QED
  BY <1>4, <1>5 DEF n, o

RecordsOK ==
    /\ record' \in [Consumers -> Record]
    /\ \A c \in Consumers : SameEvents(c) \/ NewEvent(c) \/ Pops(c)

LEMMA OneRecord ==
    ASSUME IInv, NEW c \in Consumers, NEW v \in Record, record' = [record EXCEPT ![c] = v],
           \/ v.outbox = record[c].outbox /\ v.last = record[c].last
           \/ /\ record[c].last < MaxEvents /\ v.last = record[c].last + 1
              /\ v.outbox = Append(record[c].outbox, record[c].last + 1)
           \/ /\ record[c].outbox # <<>> /\ sub[c].at = "pop" /\ Head(record[c].outbox) = sub[c].hand
              /\ v.outbox = Tail(record[c].outbox) /\ v.last = record[c].last
    PROVE  RecordsOK
<1>1. record \in [Consumers -> Record]
  BY TypeOKIs DEF IInv, RecordTyped
<1>2. record' \in [Consumers -> Record] /\ record'[c] = v /\ \A d \in Consumers : d # c => record'[d] = record[d]
  BY <1>1
<1> QED
  BY <1>2 DEF RecordsOK, SameEvents, NewEvent, Pops

LEMMA RecordStep == IInv /\ [Next]_vars => RecordsOK
<1> SUFFICES ASSUME IInv, [Next]_vars
             PROVE  RecordsOK
  OBVIOUS
<1>0. record \in [Consumers -> Record]
  BY TypeOKIs DEF IInv, RecordTyped
<1>r. \A c \in Consumers : record[c] \in Record /\ record[c].online \in BOOLEAN
  BY <1>0 DEF Record
<1>1. ASSUME record' = record
      PROVE  RecordsOK
  BY <1>0, <1>1 DEF RecordsOK, SameEvents
<1>2. Post \/ PostAnswers \/ (\E i \in Notices : PostNotice(i)) \/ ServerDies \/ UNCHANGED vars
         => record' = record
  BY DEF Post, PostAnswers, PostNotice, ServerDies, vars, clientVars
<1>3. ASSUME NEW s \in Slots, Handler(s)
      PROVE  record' = record
  BY <1>3 DEF Handler, ServerSend, ServerAck, ServerPresence, ServerCloses, MarkDelivered, clientVars
<1>4. ASSUME NEW c \in Consumers, Subscription(c), ~ClientPops(c)
      PROVE  record' = record
  BY <1>4 DEF Subscription, Start, RunEnds, Dial, ClientReads, ClientAppends, ClientSyncs, ClientAcks,
     PopGivesUp, Publish, PublisherAborts, ClientFails
<1>5. ASSUME NEW c \in Consumers, ClientPops(c)
      PROVE  RecordsOK
  <2> DEFINE o == Tail(record[c].outbox)
             v == [record[c] EXCEPT !.outbox = o]
  <2>1. CASE /\ record[c].outbox # <<>> /\ Head(record[c].outbox) = sub[c].hand /\ sub[c].at = "pop"
             /\ record' = [record EXCEPT ![c].outbox = Tail(@)]
    <3>1. record[c].outbox \in Seq(Events)
      BY <1>r DEF Record, Outboxes
    <3>2. o \in Outboxes
      BY <2>1, <3>1 DEF Outboxes
    <3>3. record' = [record EXCEPT ![c] = v]
      BY <2>1
    <3> HIDE DEF o
    <3>4. v \in Record /\ v.outbox = o /\ v.last = record[c].last
      BY <1>r, <3>2 DEF Record
    <3> HIDE DEF v
    <3> QED
      BY <2>1, <3>3, <3>4, OneRecord DEF o
  <2>2. CASE record' = record
    BY <1>1, <2>2
  <2> QED
    BY <1>5, <2>1, <2>2 DEF ClientPops
<1>6. ASSUME NEW c \in Consumers, Observe(c)
      PROVE  RecordsOK
  <2> DEFINE v == Announced(record[c], ~record[c].online)
  <2>1. record' = [record EXCEPT ![c] = v] /\ record[c].last < MaxEvents
    BY <1>6 DEF Observe
  <2>2. v \in Record /\ v.last = record[c].last + 1 /\ v.outbox = Append(record[c].outbox, record[c].last + 1)
    BY <1>r, <2>1, AnnouncedIs
  <2> HIDE DEF v
  <2> QED
    BY <2>1, <2>2, OneRecord
<1>7. ASSUME NEW c \in Consumers, NEW on \in BOOLEAN, NEW b \in BOOLEAN, NEW st \in {"ready", "disconnected"},
             b => record[c].last < MaxEvents,
             record' = [record EXCEPT ![c] = [(IF b THEN Announced(record[c], on) ELSE record[c]) EXCEPT !.state = st]]
      PROVE  RecordsOK
  <2> DEFINE q == IF b THEN Announced(record[c], on) ELSE record[c]
             v == [q EXCEPT !.state = st]
  <2>1. /\ q \in Record
        /\ \/ q.outbox = record[c].outbox /\ q.last = record[c].last
           \/ /\ record[c].last < MaxEvents /\ q.last = record[c].last + 1
              /\ q.outbox = Append(record[c].outbox, record[c].last + 1)
    <3>1. CASE b
      BY <1>r, <1>7, <3>1, AnnouncedIs
    <3>2. CASE ~b
      BY <1>r, <3>2
    <3> QED
      BY <3>1, <3>2
  <2>2. record' = [record EXCEPT ![c] = v]
    BY <1>7
  <2> HIDE DEF q
  <2>3. v \in Record /\ v.outbox = q.outbox /\ v.last = q.last
    BY <2>1 DEF Record
  <2> HIDE DEF v
  <2> QED
    BY <2>1, <2>2, <2>3, OneRecord
<1>8. ASSUME NEW c \in Consumers, Disconnect(c)
      PROVE  RecordsOK
  <2>1. record' = [record EXCEPT ![c] =
            [(IF record[c].online THEN Announced(record[c], FALSE) ELSE record[c]) EXCEPT !.state = "disconnected"]]
    BY <1>0, <1>8 DEF Disconnect
  <2>2. record[c].online => record[c].last < MaxEvents
    BY <1>8 DEF Disconnect
  <2> QED
    BY <1>r, <1>7, <2>1, <2>2
<1>9. ASSUME NEW c \in Consumers, Reconnect(c)
      PROVE  RecordsOK
  <2>1. PICK joins \in BOOLEAN :
        /\ joins => ~record[c].online /\ record[c].last < MaxEvents
        /\ record' = [record EXCEPT ![c] =
                [(IF joins THEN Announced(record[c], TRUE) ELSE record[c]) EXCEPT !.state = "ready"]]
    BY <1>0, <1>9 DEF Reconnect
  <2> QED
    BY <1>7, <2>1
<1>10. ASSUME NEW c \in Consumers, DisconnectAnswers(c) \/ ClientDies(c)
       PROVE  record' = record
  BY <1>10 DEF DisconnectAnswers, ClientDies
<1> QED
  BY <1>1, <1>2, <1>3, <1>4, <1>5, <1>6, <1>8, <1>9, <1>10 DEF Next, Verbs

LEMMA InboxTypedStep == IInv /\ [Next]_vars => InboxTyped'
<1> SUFFICES ASSUME IInv, [Next]_vars
             PROVE  InboxTyped'
  OBVIOUS
<1>0. /\ TypeOK /\ inbox \in [Consumers -> Seq(Items)] /\ synced \in [Consumers -> Nat]
      /\ \A c \in Consumers : synced[c] <= Len(inbox[c]) /\ Len(inbox[c]) \in Nat
      /\ inbox' \in [Consumers -> Seq(Items)] /\ synced' \in [Consumers -> Nat]
  BY Typed, InboxTypeStep DEF IInv
<1>1. ASSUME NEW c \in Consumers
      PROVE  synced'[c] <= Len(inbox'[c])
  <2>1. ASSUME NEW d \in Consumers, Appends(d)
        PROVE  synced'[c] <= Len(inbox'[c])
    <3>1. /\ inbox'[d] \in Seq(Items) /\ Len(inbox'[d]) = Len(inbox[d]) + 1 /\ synced' = synced
          /\ \A e \in Consumers : e # d => inbox'[e] = inbox[e]
      BY <1>0, <2>1, HandIsItem, AppendsShape DEF Appends, Works
    <3>2. CASE c = d
      <4>1. synced[d] \in Nat /\ Len(inbox[d]) \in Nat /\ synced[d] <= Len(inbox[d])
        BY <1>0
      <4>2. synced[d] <= Len(inbox[d]) + 1
        BY <4>1
      <4> QED
        BY <3>1, <3>2, <4>2
    <3>3. CASE c # d
      BY <1>0, <3>1, <3>3
    <3> QED
      BY <3>2, <3>3
  <2>2. ASSUME NEW d \in Consumers, Truncates(d)
        PROVE  synced'[c] <= Len(inbox'[c])
    <3>1. /\ synced[d] <= Len(inbox'[d]) /\ synced' = synced
          /\ \A e \in Consumers : e # d => inbox'[e] = inbox[e]
      BY <1>0, <2>2, TruncatesShape DEF Truncates
    <3> QED
      BY <1>0, <3>1
  <2>3. ASSUME NEW d \in Consumers, Syncs(d)
        PROVE  synced'[c] <= Len(inbox'[c])
    BY <1>0, <2>3 DEF Syncs
  <2> QED
    BY <1>0, <2>1, <2>2, <2>3, InboxStep
<1>2. partial' \in [Consumers -> BOOLEAN]
  <2>0. partial \in [Consumers -> BOOLEAN]
    BY <1>0, TypeOKIs DEF InboxTyped
  <2>1. ASSUME NEW s \in Slots, Handler(s)
        PROVE  partial' = partial
    BY <2>1 DEF Handler, ServerSend, ServerAck, ServerPresence, ServerCloses, MarkDelivered, diskVars
  <2>2. ASSUME NEW c \in Consumers, Subscription(c) \/ Verbs(c)
        PROVE  partial' = partial \/ \E b \in BOOLEAN : partial' = [partial EXCEPT ![c] = b]
    <3>1. ASSUME ~ClientAppends(c), ~ClientDies(c)
          PROVE  partial' = partial
      BY <2>2, <3>1 DEF Subscription, Verbs, Start, RunEnds, Dial, ClientReads, ClientSyncs, ClientAcks,
         ClientPops, PopGivesUp, Publish, PublisherAborts, ClientFails, Observe, Disconnect,
         DisconnectAnswers, Reconnect, diskVars
    <3>2. ClientAppends(c) => partial' = partial \/ partial' = [partial EXCEPT ![c] = TRUE]
      BY DEF ClientAppends
    <3>3. ClientDies(c) => \E torn \in BOOLEAN : partial' = [partial EXCEPT ![c] = partial[c] \/ torn]
      BY <2>0 DEF ClientDies
    <3>4. \A torn \in BOOLEAN : (partial[c] \/ torn) \in BOOLEAN
      BY <2>0
    <3> QED
      BY <3>1, <3>2, <3>3, <3>4
  <2>3. Post \/ PostAnswers \/ (\E i \in Notices : PostNotice(i)) \/ ServerDies \/ UNCHANGED vars
           => partial' = partial
    BY DEF Post, PostAnswers, PostNotice, ServerDies, vars, diskVars
  <2> QED
    BY <2>0, <2>1, <2>2, <2>3 DEF Next
<1> QED
  BY <1>0, <1>1, <1>2 DEF InboxTyped, Inboxes

LEMMA TypeStep == IInv /\ [Next]_vars => TypeOK'
<1> SUFFICES ASSUME IInv, [Next]_vars
             PROVE  TypeOK'
  OBVIOUS
<1>1. SpoolTyped'
  BY SpoolTypeStep
<1>2. SessionTyped'
  BY SessionStep, TailStep DEF SessionTyped, SessionsTyped
<1>3. RecordTyped'
  BY JournalGrows, RecordStep DEF RecordTyped, RecordsOK
<1>4. InboxTyped'
  BY InboxTypedStep
<1>5. SubTyped'
  BY SubStep, CountersStep DEF SubTyped
<1>6. TypeOK' <=> SpoolTyped' /\ SessionTyped' /\ RecordTyped' /\ InboxTyped' /\ SubTyped'
  BY TypeOKIs, PTL
<1> QED
  BY <1>1, <1>2, <1>3, <1>4, <1>5, <1>6

-----------------------------------------------------------------------------
(* What is accepted, and what an inbox holds. *)

\* Mail leaves new/ when its consumer has it synced.
LEMMA SettledStored ==
    ASSUME IInv, NEW s \in Slots, NEW i \in Mail, Settles(s, i)
    PROVE  session[s].consumer \in Consumers /\ Durable(session[s].consumer, i) /\ Stored(i)
<1>1. session[s].up # <<>> /\ Head(session[s].up).type = "ack" /\ Head(session[s].up).id = i
  BY DEF Settles, MaySettle, Mail
<1>2. session[s].up \in Seq(Frames) /\ session[s].consumer \in Consumers
      /\ \A k \in Up(session[s]) : Durable(session[s].consumer, session[s].up[k].id)
  BY <1>1, SlotIs
<1>3. 1 \in Up(session[s]) /\ session[s].up[1] = Head(session[s].up)
  BY <1>1, <1>2, AtTail, AtDownUp
<1>4. Durable(session[s].consumer, i)
  BY <1>1, <1>2, <1>3
<1> QED
  BY <1>2, <1>4 DEF Stored

\* What is new in an inbox came over the socket.
LEMMA ArrivedIs ==
    ASSUME IInv, NEW c \in Consumers, Appends(c)
    PROVE  /\ sub[c].hand \in Items /\ sub[c].hand \in named /\ OnWire(c) /\ ~InInbox(c, sub[c].hand)
           /\ \E s \in Slots : session[s].out = sub[c].hand
           /\ sub[c].hand \in Notices => addressee[sub[c].hand] = c
           /\ \A m \in Mail : InInbox(c, m) /\ sub[c].hand \in Earlier(m) => Stored(sub[c].hand)
<1>1. Works(c)
  BY DEF Appends, Works
<1>2. /\ sub[c].hand \in Items /\ OnWire(c) /\ sub[c].slot \in Slots
      /\ session[sub[c].slot].consumer = c /\ sub[c].hand = session[sub[c].slot].out
  BY <1>1, HandIsItem
<1>3. session[sub[c].slot].out \in {0} \cup named
      /\ (session[sub[c].slot].out \in Notices => addressee[session[sub[c].slot].out] = c)
  BY <1>2, SlotIs
<1>4. \A m \in Mail : InInbox(c, m) /\ sub[c].hand \in Earlier(m) => Stored(sub[c].hand)
  BY <1>2, WireIs
<1> QED
  BY <1>2, <1>3, <1>4, Numbers DEF Appends

LEMMA BackedStep == IInv /\ [Next]_vars => Backed'
<1> SUFFICES ASSUME IInv, [Next]_vars
             PROVE  Backed'
  OBVIOUS
<1>0. /\ \A i \in loose \cap Mail : Stored(i)
      /\ posting # 0 => posting \in queued \cap Mail /\ posting \notin accepted
      /\ \A c \in Consumers, i \in Items : InInbox(c, i) => i \in named
      /\ TypeOK /\ accepted \subseteq named /\ queued \subseteq named /\ 0 \notin Items /\ Mail = Items \ Notices
  BY TypeOKIs, Numbers DEF IInv, Backed, SpoolTyped, Mail
<1>1. ASSUME NEW i \in Mail, i \in loose'
      PROVE  Stored(i)'
  <2>1. i \in loose \/ \E s \in Slots : Settles(s, i)
    <3>1. ASSUME NEW j \in Items, Grows(j)
          PROVE  i \in loose
      BY <1>1, <3>1 DEF Grows
    <3>2. PostAnswers => i \in loose
      BY <1>1 DEF PostAnswers
    <3>3. ~ServerDies
      BY <1>1 DEF ServerDies
    <3>4. ASSUME NEW s \in Slots, NEW j \in Items, Settles(s, j)
          PROVE  i \in loose \/ Settles(s, i)
      BY <1>1, <3>4 DEF Settles
    <3>5. UNCHANGED spoolVars => i \in loose
      BY <1>1 DEF spoolVars
    <3> QED
      BY <1>0, <3>1, <3>2, <3>3, <3>4, <3>5, SpoolStep
  <2> QED
    BY <1>0, <1>1, <2>1, SettledStored, StoredStays
<1>2. posting' # 0 => posting' \in queued' \cap Mail /\ posting' \notin accepted'
  <2>1. ASSUME NEW i \in Items, Grows(i)
        PROVE  posting' # 0 => posting' \in queued' \cap Mail /\ posting' \notin accepted'
    BY <1>0, <2>1 DEF Grows
  <2>2. PostAnswers \/ ServerDies => posting' = 0
    BY DEF PostAnswers, ServerDies
  <2>3. ASSUME NEW s \in Slots, NEW i \in Items, Settles(s, i)
        PROVE  posting' = 0
    BY <2>3 DEF Settles
  <2>4. UNCHANGED spoolVars => UNCHANGED <<posting, queued, accepted>>
    BY DEF spoolVars
  <2> QED
    BY <1>0, <2>1, <2>2, <2>3, <2>4, SpoolStep
<1>3. ASSUME NEW c \in Consumers, NEW i \in Items, InInbox(c, i)'
      PROVE  i \in named'
  <2>1. i \in named
    BY <1>0, <1>3, InboxKeeps, ArrivedIs
  <2> QED
    BY <2>1, SpoolTypeStep
<1> QED
  BY <1>1, <1>2, <1>3 DEF Backed

LEMMA OrderStep == IInv /\ [Next]_vars => SentInOrder'
<1> SUFFICES ASSUME IInv, [Next]_vars
             PROVE  SentInOrder'
  OBVIOUS
<1>0. /\ \A m \in Mail : m \in queued \cup loose => Earlier(m) \subseteq named
      /\ \A m \in Mail : Seen(m) => \A i \in Earlier(m) : i \in named /\ (i \in queued \cup loose => Stored(i))
      /\ \A i \in loose \cap Mail : Stored(i)
      /\ TypeOK /\ named \subseteq named' /\ Mail = Items \ Notices /\ Items \subseteq Nat /\ 0 \notin Items
      /\ posting # 0 => posting \in queued
  BY TypeOKIs, SpoolTypeStep, Numbers DEF IInv, SentInOrder, Backed, Mail
<1>1. \/ queued' \cup loose' \subseteq queued \cup loose
      \/ \E j \in Items : Grows(j) /\ queued' \cup loose' \subseteq queued \cup loose \cup {j}
  BY <1>0, SpoolStep DEF spoolVars, Grows, PostAnswers, ServerDies, Settles
<1>2. ASSUME NEW m \in Mail, m \in queued' \cup loose'
      PROVE  Earlier(m) \subseteq named'
  BY <1>0, <1>1, <1>2 DEF Grows
<1>3. ASSUME NEW m \in Mail, NEW i \in Earlier(m), Seen(m)'
      PROVE  i \in named' /\ (i \in queued' \cup loose' => Stored(i)')
  <2>1. Seen(m) \/ NewlySent(m)
    <3>1. ASSUME NEW c \in Consumers, InInbox(c, m)'
          PROVE  Seen(m)
      BY <3>1, InboxKeeps, ArrivedIs DEF Seen
    <3>2. ASSUME NEW s \in Slots, session'[s].out = m
          PROVE  Seen(m) \/ NewlySent(m)
      BY <1>0, <3>2, SessionStep DEF SessionsTyped, Seen
    <3> QED
      BY <1>3, <3>1, <3>2 DEF Seen
  <2>2. CASE Seen(m)
    <3>1. i \in named /\ (i \in queued \cup loose => Stored(i))
      BY <1>0, <2>2
    <3>2. i \in queued' \cup loose' => i \in queued \cup loose
      BY <1>1, <3>1 DEF Grows
    <3> QED
      BY <1>0, <3>1, <3>2, StoredStays
  <2>3. CASE NewlySent(m)
    <3>1. m \in queued /\ (\A j \in queued : m <= j) /\ UNCHANGED <<queued, loose>>
      BY <1>0, <2>3, LeastQueued DEF NewlySent, spoolVars
    <3>2. i \in named /\ i \notin queued /\ i \in Mail
      <4>1. i < m /\ i \in Mail /\ i \in Nat /\ m \in Nat
        BY <1>0 DEF Earlier
      <4> QED
        BY <1>0, <3>1, <4>1
    <3>3. i \in queued' \cup loose' => Stored(i)
      BY <1>0, <3>1, <3>2
    <3> QED
      BY <1>0, <3>2, <3>3, StoredStays
  <2> QED
    BY <2>1, <2>2, <2>3
<1> QED
  BY <1>2, <1>3 DEF SentInOrder, Earlier

LEMMA AcceptedStep == IInv /\ [Next]_vars => NothingAcceptedIsLost'
<1> SUFFICES ASSUME IInv, [Next]_vars
             PROVE  NothingAcceptedIsLost'
  OBVIOUS
<1>0. /\ \A i \in accepted \cap Mail : i \in queued \/ Stored(i)
      /\ \A c \in Consumers : \A e \in 1 .. record[c].last : e \in announced[c] \/ e \in ToSet(record[c].outbox)
      /\ posting # 0 => posting \in queued /\ posting \notin accepted
      /\ TypeOK /\ RecordTyped /\ Mail = Items \ Notices
  BY TypeOKIs DEF IInv, NothingAcceptedIsLost, Backed, Mail, Stored
<1>1. ASSUME NEW i \in Mail, i \in accepted'
      PROVE  i \in queued' \/ Stored(i)'
  <2>0. (i \in accepted => i \in queued \/ Stored(i)) /\ (posting # 0 => posting \in queued /\ posting \notin accepted)
    BY <1>0
  <2>1. ASSUME NEW j \in Items, Grows(j)
        PROVE  i \in queued' \/ Stored(i)
    BY <1>0, <1>1, <2>1 DEF Grows
  <2>2. ASSUME PostAnswers
        PROVE  i \in queued' \/ Stored(i)
    <3>1. posting # 0 /\ queued' = queued /\ accepted' \subseteq accepted \cup {posting}
      BY <2>2 DEF PostAnswers, GateFree
    <3> QED
      BY <1>1, <2>0, <3>1
  <2>3. ASSUME ServerDies
        PROVE  i \in queued' \/ Stored(i)
    <3>1. accepted' = accepted
      BY <2>3 DEF ServerDies
    <3>2. PICK back \in SUBSET loose, lost \in SUBSET ({posting} \ {0}) : queued' = (queued \cup back) \ lost
      BY <2>3 DEF ServerDies
    <3>3. i \notin lost
      BY <1>1, <2>0, <3>1, <3>2
    <3> QED
      BY <1>1, <2>0, <3>1, <3>2, <3>3
  <2>4. ASSUME NEW s \in Slots, NEW j \in Items, Settles(s, j)
        PROVE  i \in queued' \/ Stored(i)
    <3>1. i \in accepted /\ queued' = queued \ {j}
      BY <1>1, <2>4 DEF Settles
    <3>2. i = j => Stored(i)
      BY <2>4, SettledStored
    <3> QED
      BY <1>0, <3>1, <3>2
  <2>5. UNCHANGED spoolVars => i \in queued' \/ Stored(i)
    BY <1>0, <1>1 DEF spoolVars
  <2>6. i \in queued' \/ Stored(i)
    <3>1. TypeOK
      BY <1>0
    <3> QED
      BY <2>1, <2>2, <2>3, <2>4, <2>5, <3>1, SpoolStep
  <2> QED
    BY <2>6, StoredStays
<1>2. ASSUME NEW c \in Consumers, NEW e \in 1 .. record'[c].last
      PROVE  e \in announced'[c] \/ e \in ToSet(record'[c].outbox)
  <2> DEFINE o == record[c].outbox
  <2>1. o \in Seq(Events) /\ record[c].last \in Nat /\ announced[c] \subseteq announced'[c]
    <3>1. record[c].outbox \in Outboxes /\ record[c].last \in EventNumbers
      BY <1>0 DEF RecordTyped, Record
    <3> QED
      BY <3>1, JournalGrows, Numbers DEF Outboxes, EventNumbers
  <2>2. CASE SameEvents(c)
    BY <1>0, <1>2, <2>1, <2>2 DEF SameEvents
  <2>3. CASE NewEvent(c)
    <3> DEFINE n == record[c].last + 1
               q == Append(o, n)
    <3>1. record'[c].outbox = q /\ record'[c].last = n /\ n \in Nat
      BY <2>1, <2>3 DEF NewEvent
    <3>2. n \in Events
      <4>1. record[c].last < MaxEvents
        BY <2>3 DEF NewEvent
      <4> QED
        BY <2>1, <4>1, Numbers DEF Events
    <3>3. /\ q \in Seq(Events) /\ Len(q) = Len(o) + 1 /\ q[Len(o) + 1] = n /\ Len(o) \in Nat
          /\ \A k \in 1 .. Len(o) : q[k] = o[k]
      BY <2>1, <3>2
    <3> HIDE DEF q
    <3>4. Len(o) + 1 \in 1 .. Len(q) /\ \A k \in 1 .. Len(o) : k \in 1 .. Len(q)
      BY <3>3
    <3>5. n \in ToSet(q)
      BY <3>3, <3>4, ToSetIs
    <3>6. \A x \in ToSet(o) : x \in ToSet(q)
      BY <2>1, <3>3, <3>4, ToSetIs
    <3>7. e = n \/ e \in 1 .. record[c].last
      BY <1>2, <2>1, <3>1
    <3> HIDE DEF n, o
    <3> QED
      BY <1>0, <2>1, <3>1, <3>5, <3>6, <3>7 DEF o
  <2>4. CASE Pops(c)
    <3>1. /\ o # <<>> /\ Head(o) = sub[c].hand /\ record'[c].outbox = Tail(o) /\ record'[c].last = record[c].last
          /\ OnWire(c) /\ sub[c].at = "pop"
      BY <2>4 DEF Pops, OnWire
    <3>2. Head(o) \in announced'[c]
      BY <2>1, <3>1, WireIs
    <3>3. \A x \in ToSet(o) : x = Head(o) \/ x \in ToSet(Tail(o))
      <4>1. /\ Len(o) \in Nat /\ Tail(o) \in Seq(Events) /\ Len(Tail(o)) = Len(o) - 1 /\ o[1] = Head(o)
            /\ \A k \in 1 .. Len(Tail(o)) : Tail(o)[k] = o[k + 1]
        BY <2>1, <3>1, HeadTailProperties
      <4>2. ASSUME NEW x \in ToSet(o)
            PROVE  x = Head(o) \/ x \in ToSet(Tail(o))
        <5>1. PICK k \in 1 .. Len(o) : o[k] = x
          BY <2>1, <4>2, ToSetIs
        <5>2. CASE k = 1
          BY <4>1, <5>1, <5>2
        <5>3. CASE k # 1
          <6> DEFINE l == k - 1
          <6>1. l \in 1 .. Len(Tail(o)) /\ l + 1 = k
            BY <4>1, <5>3
          <6>2. Tail(o)[l] = x
            BY <4>1, <5>1, <6>1
          <6> QED
            BY <4>1, <6>1, <6>2, ToSetIs
        <5> QED
          BY <5>2, <5>3
      <4> QED
        BY <4>2
    <3> QED
      BY <1>0, <1>2, <2>1, <3>1, <3>2, <3>3
  <2> QED
    BY <2>2, <2>3, <2>4, RecordStep DEF RecordsOK
<1> QED
  BY <1>1, <1>2 DEF NothingAcceptedIsLost, Stored

LEMMA DurableHeld ==
    ASSUME IInv, NEW c \in Consumers, NEW i, Durable(c, i)
    PROVE  InInbox(c, i)
<1>0. TypeOK /\ synced[c] \in Nat /\ synced[c] <= Len(inbox[c]) /\ Len(inbox[c]) \in Nat
  BY Typed DEF IInv
<1>1. PICK k \in 1 .. synced[c] : inbox[c][k] = i
  BY DEF Durable
<1>2. k \in 1 .. Len(inbox[c])
  BY <1>0, <1>1
<1> QED
  BY <1>0, <1>1, <1>2, Holds

LEMMA InboxHoldsStep == IInv /\ [Next]_vars => InboxHoldsOnceInOrder'
<1> SUFFICES ASSUME IInv, [Next]_vars
             PROVE  InboxHoldsOnceInOrder'
  OBVIOUS
<1>0. TypeOK /\ InboxHoldsOnceInOrder /\ inbox \in [Consumers -> Seq(Items)] /\ inbox' \in [Consumers -> Seq(Items)]
  BY Typed, InboxTypeStep DEF IInv
<1> DEFINE Once(c) == \A j, k \in 1 .. Len(inbox'[c]) : inbox'[c][j] = inbox'[c][k] => j = k
           Elsewhere(c, i) == \E d \in Consumers \ {c} : NowDurable(d, i)
           Ordered(c) ==
              \A j, k \in 1 .. Len(inbox'[c]) :
                (j < k /\ inbox'[c][j] \in Mail /\ inbox'[c][k] \in Mail /\ inbox'[c][j] > inbox'[c][k])
                  => Elsewhere(c, inbox'[c][k])
<1>1. ASSUME NEW c \in Consumers
      PROVE  /\ \A j, k \in 1 .. Len(inbox[c]) : inbox[c][j] = inbox[c][k] => j = k
             /\ \A j, k \in 1 .. Len(inbox[c]) :
                  (j < k /\ inbox[c][j] \in Mail /\ inbox[c][k] \in Mail /\ inbox[c][j] > inbox[c][k])
                    => Elsewhere(c, inbox[c][k])
  <2>1. \A j, k \in 1 .. Len(inbox[c]) : inbox[c][j] = inbox[c][k] => j = k
    BY <1>0, InjectiveIs DEF InboxHoldsOnceInOrder
  <2>2. ASSUME NEW j \in 1 .. Len(inbox[c]), NEW k \in 1 .. Len(inbox[c]),
               j < k, inbox[c][j] \in Mail, inbox[c][k] \in Mail, inbox[c][j] > inbox[c][k]
        PROVE  Elsewhere(c, inbox[c][k])
    <3>1. PICK d \in Consumers \ {c} : Durable(d, inbox[c][k])
      BY <1>0, <2>2 DEF InboxHoldsOnceInOrder
    <3> QED
      BY <3>1, NowDurableIs
  <2> HIDE DEF Elsewhere
  <2> QED
    BY <2>1, <2>2
<1> HIDE DEF Elsewhere
<1>2. ASSUME NEW c \in Consumers, inbox'[c] = inbox[c]
      PROVE  Once(c) /\ Ordered(c)
  BY <1>1, <1>2
<1>3. ASSUME NEW c \in Consumers, Truncates(c)
      PROVE  Once(c) /\ Ordered(c)
  <2>1. /\ Len(inbox[c]) \in Nat /\ Len(inbox'[c]) \in Nat /\ Len(inbox'[c]) <= Len(inbox[c])
        /\ \A k \in 1 .. Len(inbox'[c]) : inbox'[c][k] = inbox[c][k]
    BY <1>0, <1>3, TruncatesShape
  <2>2. \A k \in 1 .. Len(inbox'[c]) : k \in 1 .. Len(inbox[c])
    BY <2>1
  <2> QED
    BY <1>1, <2>1, <2>2
<1>4. ASSUME NEW c \in Consumers, Appends(c)
      PROVE  Once(c) /\ Ordered(c)
  <2> DEFINE n == Len(inbox[c])
             i == sub[c].hand
  <2>1. /\ i \in Items /\ ~InInbox(c, i)
        /\ \A m \in Mail : InInbox(c, m) /\ i \in Earlier(m) => Stored(i)
    BY <1>4, ArrivedIs
  <2>2. /\ n \in Nat /\ Len(inbox'[c]) = n + 1 /\ inbox'[c][n + 1] = i
        /\ \A k \in 1 .. n : inbox'[c][k] = inbox[c][k]
    BY <1>0, <1>4, <2>1, AppendsShape
  <2>3. \A k \in 1 .. n : inbox[c][k] # i /\ InInbox(c, inbox[c][k])
    BY <1>0, <2>1, Holds
  <2>4. \A k \in 1 .. Len(inbox'[c]) : k \in 1 .. n \/ k = n + 1
    BY <2>2
  <2> HIDE DEF n, i
  <2>5. Once(c)
    BY <1>1, <2>2, <2>3, <2>4 DEF n
  <2>6. ASSUME NEW j \in 1 .. Len(inbox'[c]), NEW k \in 1 .. Len(inbox'[c]),
               j < k, inbox'[c][j] \in Mail, inbox'[c][k] \in Mail, inbox'[c][j] > inbox'[c][k]
        PROVE  Elsewhere(c, inbox'[c][k])
    <3>1. CASE k \in 1 .. n
      <4>1. j \in 1 .. n
        BY <2>2, <2>6, <3>1
      <4> QED
        BY <1>1, <2>2, <2>6, <3>1, <4>1 DEF n
    <3>2. CASE k = n + 1
      <4>1. j \in 1 .. n
        BY <2>2, <2>4, <2>6, <3>2
      <4> DEFINE m == inbox[c][j]
      <4>2. m \in Mail /\ m > i /\ InInbox(c, m) /\ inbox'[c][k] = i /\ i \in Mail
        BY <2>2, <2>3, <2>6, <3>2, <4>1
      <4> HIDE DEF m
      <4>3. i \in Earlier(m)
        <5>1. i \in Nat /\ m \in Nat
          BY <4>2, Numbers
        <5> QED
          BY <4>2, <5>1 DEF Earlier
      <4>4. PICK d \in Consumers : Durable(d, i)
        BY <2>1, <4>2, <4>3 DEF Stored
      <4>5. d # c
        BY <2>1, <4>4, DurableHeld
      <4>6. NowDurable(d, i)
        BY <4>4, NowDurableIs
      <4> QED
        BY <4>2, <4>5, <4>6 DEF Elsewhere
    <3> QED
      BY <2>4, <3>1, <3>2
  <2> QED
    BY <2>5, <2>6
<1>5. ASSUME NEW c \in Consumers
      PROVE  Once(c) /\ Ordered(c)
  <2>1. ASSUME NEW d \in Consumers, d # c, Appends(d) \/ Truncates(d)
        PROVE  inbox'[c] = inbox[c]
    <3>1. Appends(d) => sub[d].hand \in Items
      BY ArrivedIs
    <3> QED
      BY <1>0, <2>1, <3>1, AppendsShape, TruncatesShape
  <2>2. ASSUME NEW d \in Consumers, Syncs(d)
        PROVE  inbox'[c] = inbox[c]
    BY <2>2 DEF Syncs
  <2>3. UNCHANGED <<inbox, synced>> => inbox'[c] = inbox[c]
    OBVIOUS
  <2> HIDE DEF Once, Ordered
  <2> QED
    BY <1>0, <1>2, <1>3, <1>4, <2>1, <2>2, <2>3, InboxStep
<1>6. \A c \in Consumers : inbox'[c] \in Seq(Items)
  BY <1>0
<1>7. \A c \in Consumers : IsInjective(inbox'[c])
  BY <1>5, <1>6, InjectiveIs
<1>8. \A c \in Consumers : Ordered(c)
  BY <1>5
<1> QED
  BY <1>7, <1>8 DEF InboxHoldsOnceInOrder, Elsewhere, NowDurable, Durable

LEMMA NoticeStep == IInv /\ [Next]_vars => NoticeReachesItsEpoch'
<1> SUFFICES ASSUME IInv, [Next]_vars
             PROVE  NoticeReachesItsEpoch'
  OBVIOUS
<1>1. ASSUME NEW c \in Consumers, NEW i \in Notices, InInbox(c, i)'
      PROVE  addressee'[i] = c
  <2>1. i \in named /\ addressee[i] = c
    <3>1. i \in Items
      BY Numbers
    <3>2. InInbox(c, i) => i \in named /\ addressee[i] = c
      BY <3>1 DEF IInv, Backed, NoticeReachesItsEpoch
    <3> QED
      BY <1>1, <3>2, InboxKeeps, ArrivedIs
  <2> QED
    BY <2>1, AddressStays
<1> QED
  BY <1>1 DEF NoticeReachesItsEpoch

LEMMA Step == IInv /\ [Next]_vars => IInv'
BY TypeStep, WiresStep, SubStep, BackedStep, OrderStep, AcceptedStep, InboxHoldsStep, NoticeStep DEF IInv

LEMMA OpenedIInv ==
    ASSUME NEW opened \in SUBSET Consumers, NEW used \in SUBSET Items, NEW reported \in 0 .. MaxEvents,
           NEW spent \in 0 .. MaxFaults, Opened(opened, used, reported, spent)
    PROVE  IInv
<1>0. /\ sub = [c \in Consumers |-> NoSub] /\ session = [s \in Slots |-> NoSession]
      /\ inbox = [c \in Consumers |-> <<>>] /\ synced = [c \in Consumers |-> 0]
      /\ queued = {} /\ loose = {} /\ posting = 0 /\ accepted = {} /\ named = used
      /\ 0 \notin Items /\ Notices \subseteq Items /\ MaxEvents \in Nat /\ MaxFaults \in Nat
  BY Numbers DEF Opened
<1>1. TypeOK
  <2>1. SpoolTyped
    BY <1>0 DEF Opened, SpoolTyped
  <2>2. SessionTyped
    BY NoSessionIs DEF Opened, SessionTyped
  <2>3. RecordTyped
    <3>1. 1 .. reported \subseteq Events /\ reported \in EventNumbers
      BY <1>0 DEF Events, EventNumbers
    <3>2. <<>> \in Outboxes
      BY DEF Outboxes
    <3>3. \A st \in {"ready", "absent"}, b \in BOOLEAN :
             [state |-> st, online |-> b, outbox |-> <<>>, last |-> reported] \in Record
      BY <3>1, <3>2 DEF Record
    <3>4. (reported % 2 = 1) \in BOOLEAN
      OBVIOUS
    <3> QED
      BY <3>1, <3>3, <3>4 DEF Opened, RecordTyped
  <2>4. InboxTyped
    BY <1>0 DEF Opened, InboxTyped, Inboxes
  <2>5. SubTyped
    BY NoSubIs DEF Opened, SubTyped
  <2> QED
    BY <2>1, <2>2, <2>3, <2>4, <2>5, TypeOKIs
<1>2. \A c \in Consumers : ~OnWire(c) /\ sub[c].slot = NoSlot
  BY <1>0, NoSubIs DEF OnWire, NoSub
<1>3. \A c \in Consumers : \A i : ~InInbox(c, i)
  BY <1>0, <1>1, Holds
<1>4. WiresFine
  <2>1. ASSUME NEW s \in Slots
        PROVE  SlotFine(s)
    <3>1. session[s] = NoSession
      BY <1>0
    <3>2. Carries(NoSession) /\ Up(NoSession) = {}
      BY NoSessionIs, EmptyCarries
    <3> QED
      BY <1>0, <3>1, <3>2, NoSessionIs DEF SlotFine
  <2> QED
    BY <1>2, <2>1 DEF WiresFine, WireFine
<1>5. Unplugged
  BY <1>2 DEF Unplugged
<1>6. Backed
  BY <1>0, <1>3 DEF Backed
<1>7. SentInOrder
  <2>1. \A s \in Slots : session[s].out = 0
    BY <1>0, NoSessionIs
  <2> QED
    BY <1>0, <1>3, <2>1 DEF SentInOrder, Seen, Mail
<1>8. NothingAcceptedIsLost
  BY <1>0 DEF NothingAcceptedIsLost, Opened
<1>9. InboxHoldsOnceInOrder
  <2>1. \A c \in Consumers : inbox[c] = <<>> /\ inbox[c] \in Seq(Items)
    BY <1>0
  <2>2. \A c \in Consumers : IsInjective(inbox[c])
    BY <2>1, InjectiveIs
  <2> QED
    BY <2>1, <2>2 DEF InboxHoldsOnceInOrder
<1>10. NoticeReachesItsEpoch
  BY <1>3 DEF NoticeReachesItsEpoch
<1> QED
  BY <1>1, <1>4, <1>5, <1>6, <1>7, <1>8, <1>9, <1>10 DEF IInv

LEMMA Inductive == Spec => []IInv
<1>1. Init => IInv
  BY OpenedIInv, Numbers DEF Init
<1> QED
  BY <1>1, Step, PTL DEF Spec

-----------------------------------------------------------------------------
(* The theorems. *)

\* Every variable has its type.
THEOREM Types == Spec => []TypeOK
BY Inductive, PTL DEF IInv

\* Whatever crashes, breaks or changes hands, mail whose sender was told ok is
\* on the relay or in a synced inbox, and a transition is in its consumer's
\* outbox until the relay has journaled it (durable_tail.go, relay.go).
THEOREM Kept == Spec => []NothingAcceptedIsLost
BY Inductive, PTL DEF IInv

\* An inbox holds an item once, and its mail in the order the relay accepted
\* it, save what the relay takes back after another consumer stored it
\* (appendRelay; durable_tail.go).
THEOREM OnceInOrder == Spec => []InboxHoldsOnceInOrder
BY Inductive, PTL DEF IInv

\* A notice enters no inbox but that of the epoch it was published for.
THEOREM OwnNotices == Spec => []NoticeReachesItsEpoch
BY Inductive, PTL DEF IInv

\* A message leaves new/ only for the current subscription, whose consumer has
\* it in its synced inbox: a displaced one's acknowledgement does not count.
THEOREM HolderSettles == Spec => SettledByHolder
<1>1. IInv /\ [Next]_vars =>
        [\A i \in queued \ queued' :
          \/ i = posting
          \/ tail # NoSlot /\ (i \in Notices \/ Durable(session[tail].consumer, i))]_vars
  <2> SUFFICES ASSUME IInv, [Next]_vars, NEW i \in queued \ queued'
               PROVE  i = posting \/ (tail # NoSlot /\ (i \in Notices \/ Durable(session[tail].consumer, i)))
    OBVIOUS
  <2>0. TypeOK /\ (i \in Mail \/ i \in Notices)
    <3>1. TypeOK /\ SpoolTyped
      BY TypeOKIs DEF IInv
    <3> QED
      BY <3>1 DEF SpoolTyped, Mail
  <2>1. ~UNCHANGED spoolVars /\ ~PostAnswers /\ \A j \in Items : ~Grows(j)
    BY DEF spoolVars, PostAnswers, Grows
  <2>2. ServerDies => i = posting
    BY DEF ServerDies
  <2>3. ASSUME NEW s \in Slots, NEW j \in Items, Settles(s, j)
        PROVE  tail # NoSlot /\ (i \in Notices \/ Durable(session[tail].consumer, i))
    <3>1. i = j /\ tail = s /\ tail # NoSlot
      BY <2>3, Numbers DEF Settles
    <3> QED
      BY <2>0, <2>3, <3>1, SettledStored
  <2> QED
    BY <2>0, <2>1, <2>2, <2>3, SpoolStep
<1> QED
  BY <1>1, Inductive, PTL DEF Spec, SettledByHolder

-----------------------------------------------------------------------------
(* Relay implements Postbox. *)

\* The prefix of an inbox depends on no more than the prefix.
LEMMA SamePrefix ==
    ASSUME NEW s \in Seq(Items), NEW t \in Seq(Items), NEW n \in Nat, n <= Len(s), n <= Len(t),
           \A k \in 1 .. n : s[k] = t[k]
    PROVE  SubSeq(s, 1, n) = SubSeq(t, 1, n)
<1>1. /\ Len(s) \in Nat /\ \A i \in 1 .. Len(s) : s[i] \in Items
      /\ Len(t) \in Nat /\ \A i \in 1 .. Len(t) : t[i] \in Items
  OBVIOUS
<1>2. /\ \A i \in 1 .. n : s[i] \in Items /\ t[i] \in Items
      /\ 1 \in Int /\ n \in Int /\ n - 1 + 1 = n /\ \A i \in 1 .. n : 1 + i - 1 = i
      /\ (IF 1 <= n THEN n - 1 + 1 ELSE 0) = n
  BY <1>1
<1>3. /\ SubSeq(s, 1, n) \in Seq(Items) /\ Len(SubSeq(s, 1, n)) = n
      /\ \A i \in 1 .. n : SubSeq(s, 1, n)[i] = s[i]
  BY <1>2, SubSeqProperties
<1>4. /\ SubSeq(t, 1, n) \in Seq(Items) /\ Len(SubSeq(t, 1, n)) = n
      /\ \A i \in 1 .. n : SubSeq(t, 1, n)[i] = t[i]
  BY <1>2, SubSeqProperties
<1> QED
  BY <1>3, <1>4, SeqEqual

LEMMA ForGoodIs ==
    ASSUME TypeOK, NEW c \in Consumers
    PROVE  /\ ForGood[c] = SubSeq(inbox[c], 1, synced[c])
           /\ ForGood[c] \in Seq(Items) /\ Len(ForGood[c]) = synced[c]
           /\ \A k \in 1 .. synced[c] : ForGood[c][k] = inbox[c][k]
<1>1. /\ inbox[c] \in Seq(Items) /\ Len(inbox[c]) \in Nat
      /\ synced[c] \in Nat /\ synced[c] <= Len(inbox[c])
  BY Typed
<1>2. /\ \A i \in 1 .. synced[c] : inbox[c][i] \in Items
      /\ 1 \in Int /\ synced[c] \in Int /\ synced[c] - 1 + 1 = synced[c]
      /\ \A i \in 1 .. synced[c] : 1 + i - 1 = i
      /\ (IF 1 <= synced[c] THEN synced[c] - 1 + 1 ELSE 0) = synced[c]
  BY <1>1
<1>3. ForGood[c] = SubSeq(inbox[c], 1, synced[c])
  BY DEF ForGood
<1> QED
  BY <1>2, <1>3, SubSeqProperties

LEMMA HasIs ==
    ASSUME TypeOK, NEW c \in Consumers, NEW i
    PROVE  Box!Has(c, i) <=> Durable(c, i)
BY ForGoodIs DEF Box!Has, Durable

\* Only a sync adds to what a consumer has for good, and nothing takes from it.
LEMMA ForGoodStep ==
    ASSUME IInv, [Next]_vars
    PROVE  ForGood' = ForGood \/ \E c \in Consumers : Syncs(c)
<1>0. TypeOK /\ inbox \in [Consumers -> Seq(Items)] /\ inbox' \in [Consumers -> Seq(Items)]
  BY Typed, InboxTypeStep DEF IInv
<1>1. UNCHANGED <<inbox, synced>> => ForGood' = ForGood
  BY DEF ForGood
<1>2. ASSUME NEW c \in Consumers, synced' = synced,
             Len(inbox'[c]) \in Nat /\ synced[c] <= Len(inbox'[c]),
             \A k \in 1 .. synced[c] : inbox'[c][k] = inbox[c][k],
             \A d \in Consumers : d # c => inbox'[d] = inbox[d]
      PROVE  ForGood' = ForGood
  <2>1. /\ inbox[c] \in Seq(Items) /\ inbox'[c] \in Seq(Items)
        /\ synced[c] \in Nat /\ synced[c] <= Len(inbox[c])
    BY <1>0, Typed
  <2>2. SubSeq(inbox'[c], 1, synced[c]) = SubSeq(inbox[c], 1, synced[c])
    BY <1>2, <2>1, SamePrefix
  <2>3. \A d \in Consumers : SubSeq(inbox'[d], 1, synced[d]) = SubSeq(inbox[d], 1, synced[d])
    BY <1>2, <2>2
  <2> QED
    BY <1>2, <2>3 DEF ForGood
<1>3. ASSUME NEW c \in Consumers, Appends(c)
      PROVE  ForGood' = ForGood
  <2>1. sub[c].hand \in Items /\ synced' = synced
    BY <1>3, HandIsItem DEF Appends, Works
  <2>2. synced[c] \in Nat /\ synced[c] <= Len(inbox[c])
    BY <1>0, Typed
  <2>3. /\ Len(inbox[c]) \in Nat /\ Len(inbox'[c]) = Len(inbox[c]) + 1
        /\ \A k \in 1 .. Len(inbox[c]) : inbox'[c][k] = inbox[c][k]
        /\ \A d \in Consumers : d # c => inbox'[d] = inbox[d]
    BY <1>0, <1>3, <2>1, AppendsShape
  <2>4. /\ Len(inbox'[c]) \in Nat /\ synced[c] <= Len(inbox'[c])
        /\ \A k \in 1 .. synced[c] : inbox'[c][k] = inbox[c][k]
    BY <2>2, <2>3
  <2> QED
    BY <1>2, <2>1, <2>3, <2>4
<1>4. ASSUME NEW c \in Consumers, Truncates(c)
      PROVE  ForGood' = ForGood
  <2>1. /\ Len(inbox'[c]) \in Nat /\ synced[c] <= Len(inbox'[c]) /\ synced[c] \in Nat
        /\ \A k \in 1 .. Len(inbox'[c]) : inbox'[c][k] = inbox[c][k]
        /\ \A d \in Consumers : d # c => inbox'[d] = inbox[d]
    BY <1>0, <1>4, TruncatesShape
  <2>2. synced' = synced /\ \A k \in 1 .. synced[c] : inbox'[c][k] = inbox[c][k]
    BY <1>4, <2>1 DEF Truncates
  <2> QED
    BY <1>2, <2>1, <2>2
<1> QED
  BY <1>0, <1>1, <1>3, <1>4, InboxStep

\* No step is one of the relay and of a disk.
LEMMA OneSide ==
    ASSUME [Next]_vars
    PROVE  UNCHANGED spoolVars \/ UNCHANGED <<inbox, synced>>
<1>1. Post \/ PostAnswers \/ (\E i \in Notices : PostNotice(i)) \/ ServerDies \/ UNCHANGED vars
         => UNCHANGED <<inbox, synced>>
  BY DEF Post, PostAnswers, PostNotice, ServerDies, vars, diskVars
<1>2. ASSUME NEW s \in Slots, Handler(s)
      PROVE  UNCHANGED <<inbox, synced>>
  BY <1>2 DEF Handler, ServerSend, ServerAck, ServerPresence, ServerCloses, MarkDelivered, diskVars
<1>3. ASSUME NEW c \in Consumers, Subscription(c) \/ Verbs(c)
      PROVE  UNCHANGED spoolVars
  BY <1>3 DEF Subscription, Verbs, Start, RunEnds, Dial, ClientReads, ClientAppends, ClientSyncs, ClientAcks,
     ClientPops, PopGivesUp, Publish, PublisherAborts, ClientFails, Observe, Disconnect,
     DisconnectAnswers, Reconnect, ClientDies
<1> QED
  BY <1>1, <1>2, <1>3 DEF Next

\* An inbox holds no more than there are items.
LEMMA InboxFits ==
    ASSUME TypeOK, InboxHoldsOnceInOrder, NEW c \in Consumers
    PROVE  Len(inbox[c]) <= LastItem
<1> DEFINE q == inbox[c]
           n == Len(q)
<1>1. q \in Seq(Items) /\ n \in Nat /\ LastItem \in Nat
  BY Typed, Numbers
<1>2. \A j, k \in 1 .. n : q[j] = q[k] => j = k
  BY <1>1, InjectiveIs DEF InboxHoldsOnceInOrder
<1>3. q \in [1 .. n -> 1 .. LastItem]
  BY <1>1 DEF Items
<1> HIDE DEF q, n
<1>4. /\ IsFiniteSet(1 .. LastItem) /\ Cardinality(1 .. LastItem) = LastItem
      /\ IsFiniteSet(1 .. n) /\ Cardinality(1 .. n) = n
  <2>1. ASSUME NEW m \in Nat
        PROVE  IsFiniteSet(1 .. m) /\ Cardinality(1 .. m) = m
    <3>1. 1 \in Int /\ m \in Int /\ (IF 1 > m THEN 0 ELSE m - 1 + 1) = m
      OBVIOUS
    <3>2. IsFiniteSet(1 .. m) /\ Cardinality(1 .. m) = IF 1 > m THEN 0 ELSE m - 1 + 1
      BY <3>1, FS_Interval
    <3> QED
      BY <3>1, <3>2
  <2> QED
    BY <1>1, <2>1
<1>5. ASSUME Cardinality(1 .. LastItem) < Cardinality(1 .. n)
      PROVE  FALSE
  <2> DEFINE S == 1 .. n
             T == 1 .. LastItem
  <2>1. IsFiniteSet(S) /\ IsFiniteSet(T) /\ Cardinality(T) < Cardinality(S) /\ q \in [S -> T]
    BY <1>3, <1>4, <1>5
  <2> HIDE DEF S, T
  <2>2. \E x, y \in S : x # y /\ q[x] = q[y]
    BY <2>1, FS_PigeonHole
  <2> QED
    BY <1>2, <2>2 DEF S
<1>6. n <= LastItem
  BY <1>1, <1>4, <1>5
<1> QED
  BY <1>6 DEF n, q

LEMMA SyncsRefine ==
    ASSUME IInv, NEW c \in Consumers, Syncs(c), UNCHANGED spoolVars
    PROVE  [Box!Next]_Box!vars
<1> DEFINE q == inbox[c]
           n == synced[c]
           more == SubSeq(q, n + 1, Len(q))
<1>0. /\ TypeOK /\ InboxHoldsOnceInOrder /\ inbox' = inbox
      /\ q \in Seq(Items) /\ Len(q) \in Nat /\ n \in Nat /\ n <= Len(q)
      /\ synced \in [Consumers -> Nat] /\ synced' = [synced EXCEPT ![c] = Len(q)]
  BY Typed DEF IInv, Syncs
<1>1. /\ more \in Seq(Items) /\ Len(more) = Len(q) - n
      /\ \A i \in 1 .. Len(q) - n : more[i] = q[n + i]
  <2> HIDE DEF q, n
  <2>1. /\ \A i \in n + 1 .. Len(q) : q[i] \in Items
        /\ n + 1 \in Int /\ Len(q) \in Int /\ Len(q) - (n + 1) + 1 = Len(q) - n
        /\ \A i \in 1 .. Len(q) - n : n + 1 + i - 1 = n + i
        /\ (IF n + 1 <= Len(q) THEN Len(q) - (n + 1) + 1 ELSE 0) = Len(q) - n
    BY <1>0
  <2> QED
    BY <2>1, SubSeqProperties
<1>3. /\ ForGood[c] \in Seq(Items) /\ Len(ForGood[c]) = n /\ \A k \in 1 .. n : ForGood[c][k] = q[k]
  BY <1>0, ForGoodIs
<1>4. ForGood'[c] = q
  <2>1. ForGood'[c] = SubSeq(q, 1, Len(q))
    BY <1>0 DEF ForGood
  <2> QED
    BY <1>0, <2>1, SubSeqFull
<1>5. q = ForGood[c] \o more
  <2>1. /\ ForGood[c] \o more \in Seq(Items) /\ Len(ForGood[c] \o more) = n + Len(more)
        /\ \A i \in 1 .. n + Len(more) :
              (ForGood[c] \o more)[i] = IF i <= n THEN ForGood[c][i] ELSE more[i - n]
    <3> DEFINE g == ForGood[c]
    <3>1. g \in Seq(Items) /\ more \in Seq(Items) /\ Len(g) = n
      BY <1>1, <1>3
    <3> HIDE DEF q, n, more, g
    <3>2. /\ g \o more \in Seq(Items) /\ Len(g \o more) = Len(g) + Len(more)
          /\ \A i \in 1 .. Len(g) + Len(more) : (g \o more)[i] = IF i <= Len(g) THEN g[i] ELSE more[i - Len(g)]
      BY <3>1, ConcatProperties
    <3> QED
      BY <3>1, <3>2 DEF g
  <2>2. n + Len(more) = Len(q)
    BY <1>0, <1>1
  <2>3. ASSUME NEW i \in 1 .. Len(q)
        PROVE  q[i] = (ForGood[c] \o more)[i]
    <3>1. CASE i <= n
      BY <1>0, <1>3, <2>1, <2>2, <3>1
    <3>2. CASE ~(i <= n)
      <4>1. i - n \in 1 .. Len(q) - n /\ n + (i - n) = i
        BY <1>0, <3>2
      <4> HIDE DEF more
      <4>2. (ForGood[c] \o more)[i] = more[i - n] /\ more[i - n] = q[n + (i - n)]
        BY <1>1, <2>1, <2>2, <3>2, <4>1
      <4> QED
        BY <4>1, <4>2
    <3> QED
      BY <3>1, <3>2
  <2> HIDE DEF q, n, more
  <2> QED
    BY <1>0, <2>1, <2>2, <2>3, SeqEqual
<1>6. ForGood' = [ForGood EXCEPT ![c] = ForGood[c] \o more]
  <2>1. \A d \in Consumers \ {c} : ForGood'[d] = ForGood[d]
    BY <1>0 DEF ForGood
  <2>2. ForGood = [d \in Consumers |-> ForGood[d]] /\ ForGood' = [d \in Consumers |-> ForGood'[d]]
    BY DEF ForGood
  <2> QED
    BY <1>4, <1>5, <2>1, <2>2
<1>7. \A k \in 1 .. Len(more) : more[k] \in named
  <2>1. \A k \in 1 .. Len(q) : InInbox(c, q[k]) /\ q[k] \in Items
    BY <1>0, Holds
  <2>2. \A k \in 1 .. Len(q) : q[k] \in named
    BY <2>1 DEF IInv, Backed
  <2>3. \A k \in 1 .. Len(more) : n + k \in 1 .. Len(q) /\ more[k] = q[n + k]
    <3>1. Len(q) \in Nat /\ n \in Nat /\ n <= Len(q)
      BY <1>0
    <3> HIDE DEF q, n, more
    <3>2. \A k \in 1 .. Len(more) : k \in 1 .. Len(q) - n /\ n + k \in 1 .. Len(q)
      BY <1>1, <3>1
    <3> QED
      BY <1>1, <3>2
  <2> QED
    BY <2>2, <2>3
<1>8. Box!InPlace(c, q)
  <2>1. \A j, k \in 1 .. Len(q) : q[j] = q[k] => j = k
    BY <1>0, InjectiveIs DEF InboxHoldsOnceInOrder
  <2>2. \A j, k \in 1 .. Len(q) :
           (j < k /\ q[j] \in Mail /\ q[k] \in Mail /\ q[j] > q[k])
              => \E d \in Consumers \ {c} : Durable(d, q[k])
    BY <1>0 DEF InboxHoldsOnceInOrder
  <2>3. \A d \in Consumers \ {c}, i \in Items : Box!Has(d, i) <=> Durable(d, i)
    BY <1>0, HasIs
  <2>4. \A k \in 1 .. Len(q) : q[k] \in Items
    BY <1>0
  <2> QED
    BY <2>1, <2>2, <2>3, <2>4 DEF Box!InPlace
<1>9. more \in Box!Lists
  <2>1. Len(q) - n \in 0 .. LastItem
    BY <1>0, InboxFits, Numbers
  <2>2. Box!Items = Items
    BY DEF Box!Items, Items
  <2>3. more \in [1 .. Len(q) - n -> Items]
    <3> HIDE DEF q, n, more
    <3> QED
      BY <1>1
  <2> HIDE DEF more
  <2> QED
    BY <2>1, <2>2, <2>3 DEF Box!Lists
<1> HIDE DEF more, q
<1>10. Box!Keep(c, more)
  BY <1>4, <1>6, <1>7, <1>8 DEF Box!Keep, spoolVars
<1> QED
  BY <1>9, <1>10 DEF Box!Next

LEMMA SpoolRefines ==
    ASSUME IInv, [Next]_vars, ForGood' = ForGood
    PROVE  [Box!Next]_Box!vars
<1> DEFINE Held == queued \cup loose
           Dropped == Held \ (queued' \cup loose')
<1>0. /\ TypeOK /\ SpoolTyped /\ Box!Items = Items /\ Mail \subseteq Items /\ Notices = Items \ Mail
      /\ \A i \in loose \cap Mail : Stored(i)
      /\ posting # 0 => posting \in queued \cap Mail /\ posting \notin accepted
  BY TypeOKIs, Numbers DEF IInv, Backed, Box!Items, Items, Mail
<1>1. \A i \in Items : Stored(i) => \E c \in Consumers : Box!Has(c, i)
  BY <1>0, HasIs DEF Stored
<1>2. CASE UNCHANGED spoolVars
  BY <1>2 DEF spoolVars, Box!vars
<1>3. ASSUME NEW i \in Items, Grows(i)
      PROVE  Box!Next
  <2>1. /\ named' = named \cup {i} /\ queued' \cup loose' = (queued \cup loose) \cup {i}
        /\ i \in Items \ named /\ (i \in Mail => Earlier(i) \subseteq named)
    BY <1>3 DEF Grows
  <2>2. accepted' \cap Mail = accepted \cap Mail
    BY <1>0, <1>3 DEF Grows
  <2>3. Box!Take(i)
    BY <1>0, <2>1, <2>2 DEF Box!Take, Earlier
  <2> QED
    BY <1>0, <2>3 DEF Box!Next
<1>4. ASSUME PostAnswers
      PROVE  Box!Next \/ UNCHANGED Box!vars
  <2>1. /\ named' = named /\ queued' = queued /\ loose' = loose /\ posting \in queued \cap Mail
        /\ accepted' = accepted \/ accepted' = accepted \cup {posting}
    BY <1>0, <1>4 DEF PostAnswers, GateFree
  <2>2. CASE accepted' = accepted
    BY <2>1, <2>2 DEF Box!vars
  <2>3. CASE accepted' = accepted \cup {posting}
    <3>1. Box!Promise(posting)
      BY <2>1, <2>3 DEF Box!Promise
    <3> QED
      BY <1>0, <2>1, <3>1 DEF Box!Next
  <2> QED
    BY <2>1, <2>2, <2>3
<1>5. ASSUME named' = named, accepted' = accepted, queued' \cup loose' \subseteq Held,
             \A i \in Dropped \cap accepted \cap Mail : Stored(i)
      PROVE  Box!Next
  <2>1. queued' \cup loose' = Held \ Dropped /\ Dropped \in SUBSET Held
    BY <1>5
  <2>2. \A i \in Dropped \cap (accepted \cap Mail) : \E c \in Consumers : Box!Has(c, i)
    BY <1>0, <1>1, <1>5
  <2> HIDE DEF Dropped
  <2>3. Box!Drop(Dropped)
    BY <1>5, <2>1, <2>2 DEF Box!Drop
  <2> QED
    BY <2>1, <2>3 DEF Box!Next
<1>6. ASSUME ServerDies
      PROVE  Box!Next
  <2>1. PICK back \in SUBSET loose, lost \in SUBSET ({posting} \ {0}) :
           queued' = (queued \cup back) \ lost
    BY <1>6 DEF ServerDies
  <2>2. named' = named /\ accepted' = accepted /\ loose' = {}
    BY <1>6 DEF ServerDies
  <2>3. \A i \in Dropped : i \in loose \/ (i = posting /\ posting # 0)
    BY <2>1
  <2> QED
    BY <1>0, <1>5, <2>1, <2>2, <2>3
<1>7. ASSUME NEW s \in Slots, NEW i \in Items, Settles(s, i)
      PROVE  Box!Next
  <2>1. /\ named' = named /\ accepted' = accepted /\ queued' = queued \ {i} /\ i \in queued
        /\ loose' \subseteq loose \cup {i}
    BY <1>7 DEF Settles
  <2>2. i \in Mail => Stored(i)
    BY <1>0, <1>7, SettledStored
  <2>3. \A j \in Dropped \cap accepted \cap Mail : j = i \/ j \in loose
    BY <2>1
  <2> QED
    BY <1>0, <1>5, <2>1, <2>2, <2>3
<1> QED
  BY <1>0, <1>2, <1>3, <1>4, <1>6, <1>7, SpoolStep

LEMMA StepRefines == IInv /\ [Next]_vars => [Box!Next]_Box!vars
<1> SUFFICES ASSUME IInv, [Next]_vars
             PROVE  [Box!Next]_Box!vars
  OBVIOUS
<1>1. CASE ForGood' = ForGood
  BY <1>1, SpoolRefines
<1>2. ASSUME NEW c \in Consumers, Syncs(c)
      PROVE  [Box!Next]_Box!vars
  <2>1. UNCHANGED <<inbox, synced>> => ForGood' = ForGood
    BY DEF ForGood
  <2> QED
    BY <1>1, <1>2, <2>1, OneSide, SyncsRefine
<1> QED
  BY <1>1, <1>2, ForGoodStep

\* The relay and its daemons are one mailbox that holds what it promised until
\* a consumer has it for good, and hands nothing over twice or out of place
\* but what another consumer had before.
THEOREM Refinement == Spec => ImplementsPostbox
<1>1. Init => Box!Init
  <2>1. Init => \A c \in Consumers : SubSeq(inbox[c], 1, synced[c]) = <<>>
    BY DEF Init, Opened
  <2> QED
    BY <2>1 DEF Init, Opened, Box!Init, Box!Items, ForGood
<1> QED
  BY <1>1, Inductive, StepRefines, PTL DEF Spec, ImplementsPostbox, Box!Spec
=============================================================================
