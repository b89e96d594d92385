------------------------------- MODULE Relay -------------------------------
(***************************************************************************)
(* One mailbox of the relay and the daemons that subscribe to it over      *)
(* /tail/durable-v1.  The relay keeps a spool (new/, cur/), the mailbox's  *)
(* current subscription (hub.tails) and one handler per WebSocket; it      *)
(* sends one message, waits for its acknowledgement, and only then moves   *)
(* it to cur/.  A daemon appends each message to a synced inbox before it  *)
(* acknowledges it, drops what it already has, and publishes its presence  *)
(* transitions from a persisted outbox over the same socket.               *)
(*                                                                         *)
(* A consumer is a connection ID, with a daemon and an inbox of its own.   *)
(* A server step is one section under the mailbox's tail gate, or one      *)
(* frame; a client step is one section under the peer lock or the          *)
(* connection's lane, or one frame.  Frames written before a socket closes *)
(* may or may not still be read.                                           *)
(***************************************************************************)
EXTENDS Naturals, Sequences, FiniteSets, FiniteSetsExt, SequencesExt

CONSTANTS
    Consumers,   \* connection IDs that may subscribe to the mailbox
    Slots,       \* WebSockets: the durable-tail handlers alive at once
    LastItem,    \* spool names are 1 .. LastItem, in the order they sort
    Notices,     \* the names that are presence notices, not mail
    MaxEvents,   \* bound on one consumer's presence transitions
    MaxFaults,   \* bound on crashes, broken sockets and failed syncs
    NoOne, NoSlot

ASSUME ConstantsAssumption ==
    /\ IsFiniteSet(Consumers) /\ IsFiniteSet(Slots)
    /\ LastItem \in Nat /\ MaxEvents \in Nat /\ MaxFaults \in Nat
    /\ Notices \subseteq 1 .. LastItem
    /\ NoOne \notin Consumers /\ NoSlot \notin Slots

VARIABLES
    \* the relay
    named,      \* spool names used so far
    queued,     \* new/
    loose,      \* moved to cur/ by a rename whose directory sync failed
    posting,    \* the item a /send holds the tail gate for; 0 for none
    accepted,   \* items whose sender was told ok
    addressee,  \* addressee[i]: the recipient epoch in a notice's name
    owner,      \* .durable-owners: the last consumer that subscribed
    tail,       \* hub.tails: the current subscription's slot
    session,    \* session[s]: the WebSocket in slot s
    announced,  \* announced[c]: c's transitions the relay has journaled
    \* the daemons
    record,     \* record[c]: the connection record, saved before it is used
    inbox,      \* inbox[c]: spool names in inbox.jsonl, in order
    synced,     \* synced[c]: how many of them survive a power loss
    partial,    \* partial[c]: inbox.jsonl ends in a partial record
    sub,        \* sub[c]: the relay subscription's goroutines
    stopping,   \* stopping[c]: a disconnect waits in stopRelay
    faults      \* counter for the bound

spoolVars  == <<named, queued, loose, posting, accepted, addressee>>
serverVars == <<owner, tail, announced>>
diskVars   == <<inbox, synced, partial>>
clientVars == <<record, sub, stopping>>
vars == <<spoolVars, serverVars, session, diskVars, clientVars, faults>>

Items  == 1 .. LastItem
Mail   == Items \ Notices
Events == 1 .. MaxEvents

Frames == [type : {"message", "ack"}, id : Items]
            \cup [type : {"presence", "presence-ack"}, id : Events]

(* server, client: the end is open; out: the unacknowledged item, 0 for    *)
(* none; ignored: the client dropped a message without an ACK.             *)
NoSession == [consumer |-> NoOne, server |-> FALSE, client |-> FALSE,
              out |-> 0, ignored |-> FALSE, down |-> <<>>, up |-> <<>>]

(* at: where the read loop is; hand: the frame's ID it works on; sent: the *)
(* publisher's last event on this socket.                                  *)
NoSub   == [at |-> "off", slot |-> NoSlot, hand |-> 0, sent |-> 0, cancelled |-> FALSE]
Dialing == [NoSub EXCEPT !.at = "dial"]

Fault == faults < MaxFaults /\ faults' = faults + 1

-----------------------------------------------------------------------------
(* The relay. *)

(* A session both ends of which are closed is forgotten. *)
Tidy(r) == IF r.server \/ r.client THEN r ELSE NoSession

(* The handler returns: hub.detach, then the socket closes. *)
HandlerReturns(s) ==
    /\ session' = [session EXCEPT ![s] = Tidy([@ EXCEPT !.server = FALSE, !.up = <<>>])]
    /\ tail' = IF tail = s THEN NoSlot ELSE tail

GateFree == posting = 0

(* POST /send: spool.Write links the item into new/ under the gate ... *)
Post ==
    /\ GateFree
    /\ \E i \in Mail \ named :
        /\ \A j \in Mail : j < i => j \in named
        /\ named' = named \cup {i}
        /\ queued' = queued \cup {i}
        /\ posting' = i
    /\ UNCHANGED <<loose, accepted, addressee, serverVars, session, diskVars, clientVars, faults>>

(* ... and answers once the directories are synced, or the sync failed. *)
PostAnswers ==
    /\ ~GateFree
    /\ posting' = 0
    /\ \/ accepted' = accepted \cup {posting} /\ UNCHANGED faults
       \/ Fault /\ UNCHANGED accepted
    /\ UNCHANGED <<named, queued, loose, addressee, serverVars, session, diskVars, clientVars>>

(* Another peer's transition is published to the mailbox's recorded owner, *)
(* under a name that carries the owner's epoch and sorts anywhere.         *)
PostNotice(i) ==
    /\ GateFree
    /\ i \in Notices \ named /\ owner # NoOne
    /\ named' = named \cup {i}
    /\ queued' = queued \cup {i}
    /\ accepted' = accepted \cup {i}
    /\ addressee' = [addressee EXCEPT ![i] = owner]
    /\ UNCHANGED <<loose, posting, serverVars, session, diskVars, clientVars, faults>>

(* Mutant: every item goes to whoever subscribes. *)
MutantSpoolMatchesAll(i, c) == TRUE

SpoolMatches(i, c) == i \notin Notices \/ addressee[i] = c

Current(s) == tail = s

(* Mutant: a displaced subscription may acknowledge. *)
MutantMarkUnchecked(s, i, next) ==
    /\ GateFree
    /\ IF i \in queued
         THEN /\ queued' = queued \ {i}
              /\ loose' = {}
              /\ session' = [session EXCEPT ![s] = next]
              /\ UNCHANGED <<tail, faults>>
         ELSE HandlerReturns(s) /\ UNCHANGED <<queued, loose, faults>>
    /\ UNCHANGED <<named, posting, accepted, addressee, owner, announced, diskVars, clientVars>>

(* markDelivered: refused to a displaced subscription and when the item is *)
(* not in new/ any more; a failed sync ends the session after the rename.  *)
MarkDelivered(s, i, next) ==
    /\ GateFree
    /\ IF Current(s) /\ i \in queued
         THEN /\ queued' = queued \ {i}
              /\ \/ /\ loose' = {}
                    /\ session' = [session EXCEPT ![s] = next]
                    /\ UNCHANGED <<tail, faults>>
                 \/ /\ Fault
                    /\ loose' = loose \cup {i}
                    /\ HandlerReturns(s)
         ELSE HandlerReturns(s) /\ UNCHANGED <<queued, loose, faults>>
    /\ UNCHANGED <<named, posting, accepted, addressee, owner, announced, diskVars, clientVars>>

(* The handler's loop with nothing outstanding: the first item in new/ is  *)
(* sent, or, a notice for a superseded epoch, set aside.                   *)
ServerSend(s) ==
    /\ session[s].server /\ session[s].out = 0 /\ queued # {}
    /\ LET i == Min(queued) IN
        IF SpoolMatches(i, session[s].consumer)
          THEN /\ session' = [session EXCEPT ![s].out = i,
                                ![s].down = Append(@, [type |-> "message", id |-> i])]
               /\ UNCHANGED <<spoolVars, serverVars, diskVars, clientVars, faults>>
          ELSE MarkDelivered(s, i, session[s])

UpFrame(s, type) ==
    session[s].server /\ session[s].up # <<>> /\ Head(session[s].up).type = type

ServerAck(s) ==
    /\ UpFrame(s, "ack")
    /\ LET i == Head(session[s].up).id IN
        IF session[s].out = i
          THEN MarkDelivered(s, i, [session[s] EXCEPT !.out = 0, !.up = Tail(@)])
          ELSE /\ HandlerReturns(s)
               /\ UNCHANGED <<spoolVars, owner, announced, diskVars, clientVars, faults>>

(* acceptDurablePresence journals the transition and resolves its fan-out, *)
(* idempotently; only then is it acknowledged.  It may fail after the      *)
(* journal is written.                                                     *)
ServerPresence(s) ==
    /\ UpFrame(s, "presence") /\ GateFree
    /\ LET e == Head(session[s].up).id
           c == session[s].consumer
           journaled == [announced EXCEPT ![c] = @ \cup {e}] IN
        \/ /\ Current(s)
           /\ announced' = journaled
           /\ session' = [session EXCEPT ![s].up = Tail(@),
                            ![s].down = Append(@, [type |-> "presence-ack", id |-> e])]
           /\ UNCHANGED <<tail, faults>>
        \/ /\ Current(s) /\ Fault
           /\ announced' = journaled
           /\ HandlerReturns(s)
        \/ /\ ~Current(s)
           /\ HandlerReturns(s)
           /\ UNCHANGED <<announced, faults>>
    /\ UNCHANGED <<spoolVars, owner, diskVars, clientVars>>

(* The handler sees that it was displaced or that the client has gone; or  *)
(* its socket or the spool fails.                                          *)
ServerCloses(s) ==
    /\ session[s].server
    /\ HandlerReturns(s)
    /\ \/ (~Current(s) \/ ~session[s].client) /\ UNCHANGED faults
       \/ Fault
    /\ UNCHANGED <<spoolVars, owner, announced, diskVars, clientVars>>

(* The relay's machine dies: an unsynced link or rename may be undone. *)
ServerDies ==
    /\ Fault
    /\ session' = [s \in Slots |-> Tidy([session[s] EXCEPT !.server = FALSE, !.up = <<>>])]
    /\ tail' = NoSlot
    /\ posting' = 0
    /\ loose' = {}
    /\ \E back \in SUBSET loose, lost \in SUBSET ({posting} \ {0}) :
        queued' = (queued \cup back) \ lost
    /\ UNCHANGED <<named, accepted, addressee, owner, announced, diskVars, clientVars>>

-----------------------------------------------------------------------------
(* A daemon's subscription. *)

Connected(c) == record[c].state # "absent"

Live(c) == record[c].state = "ready"

(* Mutant: a disconnected connection gets no subscription for its leave. *)
MutantWantedLive(c) == Live(c)

Wanted(c) == Live(c) \/ record[c].outbox # <<>>
OnWire(c) == sub[c].at \notin {"off", "dial"}

(* The connection's lane, held by disconnect through stopRelay; the peer   *)
(* lock, held by disconnect and by appendRelay up to the sync.             *)
LaneFree(c) == ~stopping[c]
PeerFree(c) == ~stopping[c] /\ sub[c].at # "sync"

(* consumeRelay returns: the socket is aborted, and runRelay dials again   *)
(* unless its context was cancelled.                                       *)
ClientHangsUp(c) ==
    LET s == sub[c].slot IN
    /\ session' = [session EXCEPT ![s] = Tidy([@ EXCEPT !.client = FALSE, !.down = <<>>])]
    /\ sub' = [sub EXCEPT ![c] = IF @.cancelled THEN NoSub ELSE Dialing]

(* startRelay from the scheduled operation. *)
Start(c) ==
    /\ LaneFree(c)
    /\ sub[c].at = "off" /\ Wanted(c)
    /\ sub' = [sub EXCEPT ![c] = Dialing]
    /\ UNCHANGED <<spoolVars, serverVars, session, diskVars, record, stopping, faults>>

(* runRelay ends: cancelled, or disconnected with nothing to publish. *)
RunEnds(c) ==
    /\ sub[c].at = "dial"
    /\ sub[c].cancelled \/ ~Wanted(c)
    /\ sub' = [sub EXCEPT ![c] = NoSub]
    /\ UNCHANGED <<spoolVars, serverVars, session, diskVars, record, stopping, faults>>

(* upgradeOwnedTail under the gate: another consumer's subscription is     *)
(* refused, one's own is displaced.  The ready frame may be lost, or the   *)
(* owner record's sync fail after it was renamed into place.               *)
Dial(c) ==
    /\ sub[c].at = "dial" /\ ~sub[c].cancelled /\ Wanted(c)
    /\ GateFree
    /\ tail # NoSlot => session[tail].consumer = c
    /\ owner' = c
    /\ \/ \E s \in Slots, ready \in BOOLEAN :
            /\ session[s] = NoSession
            /\ tail' = s
            /\ session' = [session EXCEPT ![s].consumer = c, ![s].server = TRUE, ![s].client = ready]
            /\ IF ready
                 THEN /\ sub' = [sub EXCEPT ![c].at = "read", ![c].slot = s]
                      /\ UNCHANGED faults
                 ELSE Fault /\ UNCHANGED sub
       \/ Fault /\ UNCHANGED <<tail, session, sub>>
    /\ UNCHANGED <<spoolVars, announced, diskVars, record, stopping>>

(* The read loop takes a frame.  A disconnected connection drops a message *)
(* without an ACK.                                                         *)
ClientReads(c) ==
    LET s == sub[c].slot IN
    /\ sub[c].at = "read" /\ session[s].down # <<>>
    /\ LET f == Head(session[s].down)
           ignores == f.type = "message" /\ ~Live(c) IN
        /\ session' = [session EXCEPT ![s].down = Tail(@), ![s].ignored = @ \/ ignores]
        /\ sub' = IF ignores THEN sub
                  ELSE [sub EXCEPT ![c].hand = f.id,
                          ![c].at = IF f.type = "message" THEN "append" ELSE "pop"]
    /\ UNCHANGED <<spoolVars, serverVars, diskVars, record, stopping, faults>>

(* Mutant: only what is known to be synced counts as a duplicate. *)
MutantInInboxSynced(c, i) == i \in ToSet(SubSeq(inbox[c], 1, synced[c]))

InInbox(c, i) == i \in ToSet(inbox[c])

(* Mutant: a duplicate is acknowledged without a sync. *)
MutantDuplicateUnsynced(c) ==
    /\ sub[c].at = "append" /\ PeerFree(c) /\ Live(c) /\ ~partial[c]
    /\ IF InInbox(c, sub[c].hand)
         THEN sub' = [sub EXCEPT ![c].at = "ack"] /\ UNCHANGED inbox
         ELSE /\ inbox' = [inbox EXCEPT ![c] = Append(@, sub[c].hand)]
              /\ sub' = [sub EXCEPT ![c].at = "sync"]
    /\ UNCHANGED <<spoolVars, serverVars, session, synced, partial, record, stopping, faults>>

(* Mutant: a duplicate is dropped and not acknowledged. *)
MutantDuplicateUnacked(c) ==
    /\ sub[c].at = "append" /\ PeerFree(c) /\ Live(c) /\ ~partial[c]
    /\ IF InInbox(c, sub[c].hand)
         THEN sub' = [sub EXCEPT ![c].at = "read"] /\ UNCHANGED inbox
         ELSE /\ inbox' = [inbox EXCEPT ![c] = Append(@, sub[c].hand)]
              /\ sub' = [sub EXCEPT ![c].at = "sync"]
    /\ UNCHANGED <<spoolVars, serverVars, session, synced, partial, record, stopping, faults>>

(* appendRelay up to the sync, under the peer lock: a message already in   *)
(* the inbox is not appended again.  A short write leaves a partial        *)
(* record, and every later append is refused.                              *)
ClientAppends(c) ==
    LET i == sub[c].hand
        syncs == sub' = [sub EXCEPT ![c].at = "sync"] /\ UNCHANGED session IN
    /\ sub[c].at = "append" /\ PeerFree(c)
    /\ IF ~Live(c) \/ partial[c]
         THEN ClientHangsUp(c) /\ UNCHANGED <<inbox, partial, faults>>
         ELSE IF InInbox(c, i)
         THEN syncs /\ UNCHANGED <<inbox, partial, faults>>
         ELSE \/ /\ inbox' = [inbox EXCEPT ![c] = Append(@, i)]
                 /\ syncs /\ UNCHANGED <<partial, faults>>
              \/ /\ Fault
                 /\ partial' = [partial EXCEPT ![c] = TRUE]
                 /\ ClientHangsUp(c) /\ UNCHANGED inbox
    /\ UNCHANGED <<spoolVars, serverVars, synced, record, stopping>>

(* Mutant: the error of a sync is dropped. *)
MutantSyncUnchecked(c) ==
    /\ sub[c].at = "sync"
    /\ \/ synced' = [synced EXCEPT ![c] = Len(inbox[c])] /\ UNCHANGED faults
       \/ Fault /\ UNCHANGED synced
    /\ sub' = [sub EXCEPT ![c].at = "ack"]
    /\ UNCHANGED <<spoolVars, serverVars, session, inbox, partial, record, stopping>>

(* f.Sync and syncRelayParents, for a duplicate as well: the append before *)
(* it may have ended without them.                                         *)
ClientSyncs(c) ==
    /\ sub[c].at = "sync"
    /\ \/ /\ synced' = [synced EXCEPT ![c] = Len(inbox[c])]
          /\ sub' = [sub EXCEPT ![c].at = "ack"]
          /\ UNCHANGED <<session, faults>>
       \/ /\ Fault
          /\ ClientHangsUp(c) /\ UNCHANGED synced
    /\ UNCHANGED <<spoolVars, serverVars, inbox, partial, record, stopping>>

SendUp(c, type, id) ==
    session' = [session EXCEPT ![sub[c].slot].up =
                  IF session[sub[c].slot].server THEN Append(@, [type |-> type, id |-> id]) ELSE @]

ClientAcks(c) ==
    /\ sub[c].at = "ack" /\ ~sub[c].cancelled
    /\ SendUp(c, "ack", sub[c].hand)
    /\ sub' = [sub EXCEPT ![c].at = "read", ![c].hand = 0]
    /\ UNCHANGED <<spoolVars, serverVars, diskVars, record, stopping, faults>>

(* ackRelayPresence, under the lane: the outbox's head and nothing else    *)
(* may be acknowledged.                                                    *)
ClientPops(c) ==
    /\ sub[c].at = "pop" /\ LaneFree(c)
    /\ IF record[c].outbox # <<>> /\ Head(record[c].outbox) = sub[c].hand
         THEN \/ /\ record' = [record EXCEPT ![c].outbox = Tail(@)]
                 /\ sub' = [sub EXCEPT ![c].at = "read", ![c].hand = 0]
                 /\ UNCHANGED <<session, faults>>
              \/ Fault /\ ClientHangsUp(c) /\ UNCHANGED record
         ELSE ClientHangsUp(c) /\ UNCHANGED <<record, faults>>
    /\ UNCHANGED <<spoolVars, serverVars, diskVars, stopping>>

(* Mutant: the loop does not look at the subscription's context. *)
MutantPopWaitsOn(c) ==
    /\ sub[c].at = "pop" /\ ~LaneFree(c) /\ sub[c].cancelled
    /\ UNCHANGED vars

(* beginControl gives up after controlWait; the loop goes on waiting       *)
(* unless the subscription was cancelled.                                  *)
PopGivesUp(c) ==
    /\ sub[c].at = "pop" /\ ~LaneFree(c) /\ sub[c].cancelled
    /\ ClientHangsUp(c)
    /\ UNCHANGED <<spoolVars, serverVars, diskVars, record, stopping, faults>>

(* The publisher goroutine: the outbox's head, once per socket. *)
Publish(c) ==
    /\ OnWire(c) /\ ~sub[c].cancelled /\ PeerFree(c)
    /\ record[c].outbox # <<>>
    /\ LET e == Head(record[c].outbox) IN
        /\ e # sub[c].sent
        /\ SendUp(c, "presence", e)
        /\ sub' = [sub EXCEPT ![c].sent = e]
    /\ UNCHANGED <<spoolVars, serverVars, diskVars, record, stopping, faults>>

(* The publisher aborts the socket once a disconnected connection has      *)
(* nothing left to publish.                                                *)
PublisherAborts(c) ==
    /\ sub[c].at \in {"read", "ack"} /\ ~Wanted(c)
    /\ ClientHangsUp(c)
    /\ UNCHANGED <<spoolVars, serverVars, diskVars, record, stopping, faults>>

(* A read, a write or a wait for the peer lock fails: cancelled, closed by *)
(* the relay, or broken.                                                   *)
ClientFails(c) ==
    /\ \/ sub[c].at \in {"read", "append", "ack"} /\ sub[c].cancelled /\ UNCHANGED faults
       \/ sub[c].at \in {"read", "ack"} /\ ~session[sub[c].slot].server /\ UNCHANGED faults
       \/ sub[c].at \in {"read", "ack"} /\ Fault
    /\ ClientHangsUp(c)
    /\ UNCHANGED <<spoolVars, serverVars, diskVars, record, stopping>>

-----------------------------------------------------------------------------
(* The connection's record. *)

Announced(r, online) ==
    [r EXCEPT !.online = online, !.last = @ + 1, !.outbox = Append(@, r.last + 1)]

(* The consumer's CLI comes or goes: join or departed enters the outbox. *)
Observe(c) ==
    /\ LaneFree(c) /\ Live(c) /\ record[c].last < MaxEvents
    /\ record' = [record EXCEPT ![c] = Announced(@, ~@.online)]
    /\ UNCHANGED <<spoolVars, serverVars, session, diskVars, sub, stopping, faults>>

(* disconnectExact: the record is saved with its leave, the subscription   *)
(* leaves d.relays and is cancelled ...                                    *)
Disconnect(c) ==
    /\ Connected(c) /\ LaneFree(c) /\ PeerFree(c)
    /\ record[c].online => record[c].last < MaxEvents
    /\ record' = [record EXCEPT ![c] =
            [(IF @.online THEN Announced(@, FALSE) ELSE @) EXCEPT !.state = "disconnected"]]
    /\ stopping' = [stopping EXCEPT ![c] = TRUE]
    /\ sub' = [sub EXCEPT ![c].cancelled = sub[c].at # "off"]
    /\ UNCHANGED <<spoolVars, serverVars, session, diskVars, faults>>

(* ... and the verb answers when its goroutine has ended. *)
DisconnectAnswers(c) ==
    /\ stopping[c] /\ sub[c].at = "off"
    /\ stopping' = [stopping EXCEPT ![c] = FALSE]
    /\ UNCHANGED <<spoolVars, serverVars, session, diskVars, record, sub, faults>>

(* connect again: connectRelay keeps a subscription that is running, and   *)
(* opens one otherwise; when that fails the scheduler does it later.       *)
Reconnect(c) ==
    /\ record[c].state = "disconnected" /\ LaneFree(c) /\ PeerFree(c)
    /\ \E joins \in BOOLEAN :
        /\ joins => ~record[c].online /\ record[c].last < MaxEvents
        /\ record' = [record EXCEPT ![c] =
                [(IF joins THEN Announced(@, TRUE) ELSE @) EXCEPT !.state = "ready"]]
    /\ sub' \in IF sub[c].at = "off" THEN {sub, [sub EXCEPT ![c] = Dialing]} ELSE {sub}
    /\ UNCHANGED <<spoolVars, serverVars, session, diskVars, stopping, faults>>

(* The daemon's machine dies.  Unsynced records may be lost, the first of  *)
(* them in part; an append under way may leave a partial record.           *)
ClientDies(c) ==
    /\ Connected(c) /\ Fault
    /\ \E kept \in synced[c] .. Len(inbox[c]), torn \in BOOLEAN :
        /\ torn => kept < Len(inbox[c]) \/ sub[c].at = "append"
        /\ inbox' = [inbox EXCEPT ![c] = SubSeq(@, 1, kept)]
        /\ partial' = [partial EXCEPT ![c] = @ \/ torn]
    /\ session' = [s \in Slots |-> IF s = sub[c].slot
                        THEN Tidy([session[s] EXCEPT !.client = FALSE, !.down = <<>>])
                        ELSE session[s]]
    /\ sub' = [sub EXCEPT ![c] = NoSub]
    /\ stopping' = [stopping EXCEPT ![c] = FALSE]
    /\ UNCHANGED <<spoolVars, serverVars, synced, record>>

-----------------------------------------------------------------------------
(* The connections of some consumers have been opened, `used` items have   *)
(* been sent, delivered and pruned, and every consumer has reported so     *)
(* many transitions, in quiet times, with so many faults.                  *)
Opened(opened, used, reported, spent) ==
    /\ named = used /\ queued = {} /\ loose = {} /\ posting = 0 /\ accepted = {}
    /\ addressee = [i \in Notices |-> NoOne]
    /\ owner = NoOne /\ tail = NoSlot
    /\ session = [s \in Slots |-> NoSession]
    /\ announced = [c \in Consumers |-> 1 .. reported]
    /\ record = [c \in Consumers |->
                    [state |-> IF c \in opened THEN "ready" ELSE "absent",
                     online |-> reported % 2 = 1, outbox |-> <<>>, last |-> reported]]
    /\ inbox = [c \in Consumers |-> <<>>]
    /\ synced = [c \in Consumers |-> 0]
    /\ partial = [c \in Consumers |-> FALSE]
    /\ sub = [c \in Consumers |-> NoSub]
    /\ stopping = [c \in Consumers |-> FALSE]
    /\ faults = spent

Init == Opened(Consumers, {}, 0, 0)

Handler(s) == ServerSend(s) \/ ServerAck(s) \/ ServerPresence(s) \/ ServerCloses(s)

Subscription(c) ==
    \/ Start(c) \/ RunEnds(c) \/ Dial(c)
    \/ ClientReads(c) \/ ClientAppends(c) \/ ClientSyncs(c) \/ ClientAcks(c)
    \/ ClientPops(c) \/ PopGivesUp(c)
    \/ Publish(c) \/ PublisherAborts(c) \/ ClientFails(c)

Verbs(c) == Observe(c) \/ Disconnect(c) \/ DisconnectAnswers(c) \/ Reconnect(c) \/ ClientDies(c)

Next ==
    \/ Post \/ PostAnswers \/ \E i \in Notices : PostNotice(i)
    \/ \E s \in Slots : Handler(s)
    \/ ServerDies
    \/ \E c \in Consumers : Subscription(c) \/ Verbs(c)

Spec == Init /\ [][Next]_vars

(* The goroutines and handlers take their steps; crashes, broken sockets   *)
(* and failed syncs are owed nothing, and neither are the verbs' callers.  *)
NoFault == UNCHANGED faults

Fairness ==
    /\ WF_vars(PostAnswers /\ NoFault)
    /\ \A s \in Slots :
        /\ WF_vars(ServerSend(s) /\ NoFault)
        /\ WF_vars(ServerAck(s) /\ NoFault)
        /\ WF_vars(ServerPresence(s) /\ NoFault)
        /\ WF_vars(ServerCloses(s) /\ NoFault)
    /\ \A c \in Consumers :
        /\ WF_vars(Start(c))
        /\ WF_vars(RunEnds(c))
        /\ WF_vars(Dial(c) /\ NoFault)
        /\ WF_vars(ClientReads(c))
        /\ WF_vars(ClientAppends(c) /\ NoFault)
        /\ WF_vars(ClientSyncs(c) /\ NoFault)
        /\ WF_vars(ClientAcks(c))
        /\ WF_vars(ClientPops(c) /\ NoFault)
        /\ WF_vars(PopGivesUp(c))
        /\ WF_vars(Publish(c))
        /\ WF_vars(PublisherAborts(c))
        /\ WF_vars(ClientFails(c) /\ NoFault)
        /\ WF_vars(DisconnectAnswers(c))

FairSpec == Spec /\ Fairness

-----------------------------------------------------------------------------
(* Every variable has its type. *)
TypeOK ==
    /\ named \subseteq Items /\ queued \subseteq named /\ loose \subseteq named \ queued
    /\ posting \in {0} \cup named /\ accepted \subseteq named
    /\ addressee \in [Notices -> Consumers \cup {NoOne}]
    /\ owner \in Consumers \cup {NoOne}
    /\ tail \in Slots \cup {NoSlot}
    /\ session \in [Slots -> [consumer : Consumers \cup {NoOne}, server : BOOLEAN,
                              client : BOOLEAN, out : {0} \cup named, ignored : BOOLEAN,
                              down : Seq(Frames), up : Seq(Frames)]]
    /\ announced \in [Consumers -> SUBSET Events]
    /\ record \in [Consumers -> [state : {"absent", "ready", "disconnected"}, online : BOOLEAN,
                                 outbox : Seq(Events), last : 0 .. MaxEvents]]
    /\ inbox \in [Consumers -> Seq(Items)]
    /\ synced \in [Consumers -> Nat] /\ \A c \in Consumers : synced[c] <= Len(inbox[c])
    /\ partial \in [Consumers -> BOOLEAN]
    /\ sub \in [Consumers -> [at : {"off", "dial", "read", "append", "sync", "ack", "pop"},
                              slot : Slots \cup {NoSlot}, hand : Nat, sent : 0 .. MaxEvents,
                              cancelled : BOOLEAN]]
    /\ stopping \in [Consumers -> BOOLEAN]
    /\ faults \in 0 .. MaxFaults

Durable(c, i) == \E k \in 1 .. synced[c] : inbox[c][k] = i

(* Nothing accepted is lost, whatever crashes, breaks or changes hands.    *)
(* Mail whose sender was told ok is on the relay or in a synced inbox: the *)
(* relay settles a message only by an acknowledgement, and that is written *)
(* after the sync, also when the message had been appended before.  A      *)
(* transition is in its consumer's outbox until the relay has it.          *)
NothingAcceptedIsLost ==
    /\ \A i \in accepted \cap Mail : i \in queued \/ \E c \in Consumers : Durable(c, i)
    /\ \A c \in Consumers : \A e \in 1 .. record[c].last :
            e \in announced[c] \/ e \in ToSet(record[c].outbox)

(* An inbox holds an item at most once, however often the relay sends it   *)
(* (after a lost acknowledgement, a crash of either machine, a rename that *)
(* was undone), and its mail in the order the relay accepted it, save what *)
(* the relay takes back after another consumer had stored it.              *)
InboxHoldsOnceInOrder ==
    \A c \in Consumers :
        /\ IsInjective(inbox[c])
        /\ \A j, k \in 1 .. Len(inbox[c]) :
              (j < k /\ inbox[c][j] \in Mail /\ inbox[c][k] \in Mail /\ inbox[c][j] > inbox[c][k])
                => \E d \in Consumers \ {c} : Durable(d, inbox[c][k])

(* A notice enters no other consumer's inbox than the one it was published *)
(* for, whoever owns the alias when it is sent.                            *)
NoticeReachesItsEpoch ==
    \A c \in Consumers, i \in Notices : InInbox(c, i) => addressee[i] = c

(* A message leaves new/ only while the consumer whose subscription is     *)
(* current has it in its synced inbox: an acknowledgement that was under   *)
(* way when its subscription was displaced, or its mailbox changed hands,  *)
(* does not count.                                                         *)
SettledByHolder ==
    [][\A i \in queued \ queued' :
          \/ i = posting
          \/ tail # NoSlot /\ (i \in Notices \/ Durable(session[tail].consumer, i))]_vars

(* What a consumer has for good.  A power loss takes none of it, whatever   *)
(* of the inbox was not synced.                                            *)
ForGood == [c \in Consumers |-> SubSeq(inbox[c], 1, synced[c])]

Box == INSTANCE Postbox WITH
    taken    <- named,
    held     <- queued \cup loose,
    promised <- accepted \cap Mail,
    kept     <- ForGood

(* The relay and its daemons are one mailbox that holds what it promised   *)
(* until a consumer has it for good, through every lost frame, repeated    *)
(* send, takeover and crash of either machine.                             *)
ImplementsPostbox == Box!Spec

(* A disconnect answers, although the goroutine it waits for may itself    *)
(* wait for the lane the disconnect holds.                                 *)
DisconnectReturns == \A c \in Consumers : stopping[c] ~> ~stopping[c]

(* Another consumer may keep the mailbox for as long as it stays; what     *)
(* follows is about one that has it to itself.                             *)
Alone(c) == \A d \in Consumers \ {c} : ~Connected(d)

(* Mail does not stay on the relay for ever while the consumer that could  *)
(* store it is connected: the daemon reconnects and the relay sends what   *)
(* it was not acknowledged.                                                *)
Waits(i, c) == i \in queued /\ Alone(c) /\ Live(c) /\ ~partial[c]

MailReachesConnected ==
    \A c \in Consumers, i \in Mail : ~<>[]Waits(i, c)

(* The same, but for a session in which the client dropped a message while *)
(* it was disconnected, for as long as that session lasts.                 *)
MailReachesUnlessIgnored ==
    \A c \in Consumers, i \in Mail :
        ~<>[](Waits(i, c) /\ ~\E s \in Slots : session[s].ignored)

(* A transition in the outbox reaches the relay unless disconnects never   *)
(* cease, or the inbox ends in a partial record: then every socket ends at *)
(* the first message, before the acknowledgement is read.                  *)
PresenceReachesRelay ==
    \A c \in Consumers, e \in Events :
        ~<>[](Alone(c) /\ e \in ToSet(record[c].outbox) /\ ~partial[c] /\ ~stopping[c])
=============================================================================
