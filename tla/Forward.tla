------------------------------ MODULE Forward ------------------------------
(***************************************************************************)
(* cbus forward: one process drains a mailbox of the relay into a webhook. *)
(* Each message is posted, tried again, or given up into the dead-letter   *)
(* file, and only then acknowledged; with --skip-queued the backlog goes   *)
(* to that file unposted.  A replay posts records of the file and removes  *)
(* them beside a running forwarder.  Connections break, answers and        *)
(* acknowledgements are lost, writes fail and processes are killed.        *)
(*                                                                         *)
(* The relay is what this code sees of it (module Relay has the rest): a   *)
(* queue that sends the oldest message, waits for the acknowledgement and  *)
(* sends the same again to a new connection.  Left out: the payload, the   *)
(* rate cap and the backoff, which only delay, and a rival on another      *)
(* machine.                                                                *)
(***************************************************************************)
EXTENDS Naturals, Sequences, FiniteSets

CONSTANTS
    Kinds,        \* Kinds[m]: what message m is, in the order of arrival
    MaxAttempts,  \* --max-attempts
    Budgets       \* bound: how often each command and each mishap may happen

ASSUME ForwardAssumption ==
    /\ Kinds \in Seq({"chat", "presence", "stale", "garbled", "oversize"})
    /\ MaxAttempts \in Nat \ {0}

VARIABLES
    arrived,   \* messages that reached the relay
    spool,     \* the relay's queue: the messages in it, older ones first
    acks,      \* acknowledgements on their way to the relay
    open,      \* the connection is up
    fwd,       \* the forwarder
    dead,      \* the dead-letter file
    rep,       \* the replay
    left,      \* left[k]: how often command or mishap k may still happen
    received,  \* ghost: messages the webhook took
    counted,   \* ghost: messages that had arrived at the last count
    wrong      \* ghost: the relay's count was of messages it will not send

relayVars == <<arrived, spool, acks>>
vars == <<relayVars, open, fwd, dead, rep, left, received, counted, wrong>>

Messages == 1 .. Len(Kinds)

\* A record of the file, or a line cut short by a write that failed.
Record(m, why) == [m |-> m, why |-> why]
Torn == Record(0, "torn")
Reasons == {"skipped", "failed", "unreadable", "torn"}
Letters == [m : Messages \cup {0}, why : Reasons]

\* The forwarder: where it stands, its mode, what it holds, the attempt, the
\* frames it still has to skip and the ones it skipped.
Stopped == [pc |-> "off", mode |-> "service", m |-> 0, why |-> "failed", attempt |-> 0,
            skip |-> 0, skipped |-> {}]
\* The replay: the lines it read, the one it is at, whether it sends skipped
\* ones too, and, holding the lock, the lines it will keep.
NoReplay == [pc |-> "off", lines |-> <<>>, at |-> 0, all |-> FALSE, kept |-> <<>>]

Init ==
    /\ arrived = 0 /\ spool = {} /\ acks = {} /\ open = FALSE
    /\ fwd = Stopped /\ dead = <<>> /\ rep = NoReplay
    /\ left \in Budgets /\ received = {} /\ counted = 0 /\ wrong = FALSE

Forwarders ==
    [pc : {"off", "count", "dial", "wait", "post", "letter", "ack"},
     mode : {"service", "once", "dry"}, m : Messages \cup {0}, why : Reasons,
     attempt : Nat, skip : Nat, skipped : SUBSET Messages]
Replays ==
    [pc : {"off", "run", "remove", "rewrite"}, lines : Seq(Letters), at : Nat,
     all : BOOLEAN, kept : Seq(Letters)]

TypeOK ==
    /\ arrived \in 0 .. Len(Kinds) /\ spool \subseteq 1 .. arrived /\ acks \subseteq Messages
    /\ open \in BOOLEAN /\ received \subseteq Messages
    /\ counted \in 0 .. arrived /\ wrong \in BOOLEAN
    /\ fwd \in Forwarders
    /\ dead \in Seq(Letters)
    /\ rep \in Replays

Use(k) == left[k] > 0 /\ left' = [left EXCEPT ![k] = @ - 1]

(* --------------------------------------------------------------- relay -- *)

RelayOnly == UNCHANGED <<open, fwd, dead, rep, left, received, counted, wrong>>

\* A send: the message is queued.
Arrive ==
    /\ arrived < Len(Kinds)
    /\ arrived' = arrived + 1 /\ spool' = spool \cup {arrived + 1}
    /\ UNCHANGED acks /\ RelayOnly

\* The message the relay would send next.
Oldest(m) == m \in spool /\ \A n \in spool : m <= n

\* A presence notice for a consumer of the past is thrown away, not sent.
Discard ==
    /\ open
    /\ \E m \in Messages : Oldest(m) /\ Kinds[m] = "stale" /\ spool' = spool \ {m}
    /\ UNCHANGED <<arrived, acks>> /\ RelayOnly

\* An acknowledgement arrives, after its connection closed perhaps, and the
\* message leaves the queue, or it does not arrive.
TakeAck ==
    /\ acks # {} /\ acks' = {}
    /\ spool' = spool \ acks
    /\ UNCHANGED arrived /\ RelayOnly

LoseAck ==
    /\ ~open /\ acks # {} /\ acks' = {}
    /\ UNCHANGED <<arrived, spool>> /\ RelayOnly

Break ==
    /\ open /\ open' = FALSE /\ Use("break")
    /\ UNCHANGED <<relayVars, fwd, dead, rep, received, counted, wrong>>

(* ----------------------------------------------------------- forwarder -- *)

\* A step of the forwarder that only moves it on.
Goes(f) == fwd' = f /\ UNCHANGED <<relayVars, rep, counted, wrong>>
At(pc)  == [fwd EXCEPT !.pc = pc]

\* The session ended with an error: a service connects again, anything else
\* gives up.
Ended == IF fwd.mode = "service" THEN [fwd EXCEPT !.pc = "dial", !.m = 0, !.attempt = 0] ELSE Stopped

\* The lock of the mailbox: one forwarder at a time.
MailboxFree == fwd.pc = "off"

\* runForward: the backlog is counted before anything is consumed.
StartForward(mode, skipping) ==
    /\ MailboxFree /\ Use(IF skipping THEN "skip" ELSE "start")
    /\ skipping => mode # "dry"
    /\ Goes([Stopped EXCEPT !.mode = mode, !.pc = IF skipping THEN "count" ELSE "dial"])
    /\ UNCHANGED <<open, dead, received>>

\* --skip-queued: the relay says how many messages are queued.  A stale
\* notice among them, or one whose acknowledgement is on its way, is counted
\* and will never be sent.
RelayQueued ==
    /\ fwd.pc = "count"
    /\ fwd' = [fwd EXCEPT !.pc = "dial", !.skip = Cardinality(spool)]
    /\ counted' = arrived
    /\ wrong' = (acks # {} \/ \E m \in spool : Kinds[m] = "stale")
    /\ UNCHANGED <<relayVars, open, dead, rep, left, received>>

\* A new connection; the relay closes the old one, and reads no more of it.
Dial ==
    /\ fwd.pc = "dial" /\ acks = {} /\ open' = TRUE
    /\ Goes(At("wait")) /\ UNCHANGED <<dead, left, received>>

\* handle, before its first attempt: a notice is only acknowledged.
Handled(f) ==
    CASE Kinds[f.m] = "garbled" -> [f EXCEPT !.pc = "letter", !.why = "unreadable"]
      [] Kinds[f.m] = "presence" -> [f EXCEPT !.pc = "ack"]
      [] OTHER -> [f EXCEPT !.pc = "post", !.attempt = 1]

\* The relay sends its oldest message.
Sent(m) == fwd.pc = "wait" /\ open /\ acks = {} /\ Oldest(m) /\ Kinds[m] # "stale"

\* A frame over the client's limit cannot be read: the error ends the session,
\* and the relay sends the same message to the next one.
Unreadable ==
    /\ \E m \in Messages : Sent(m) /\ Kinds[m] = "oversize"
    /\ open' = FALSE
    /\ Goes(Ended) /\ UNCHANGED <<dead, left, received>>

Frame(m) == Sent(m) /\ Kinds[m] # "oversize"
Skip(f) == [f EXCEPT !.pc = "letter", !.why = "skipped"]

\* Mutant: what was skipped already is counted again.
MutantReceive(m) ==
    /\ Frame(m)
    /\ LET f == [fwd EXCEPT !.m = m]
           ends == f.skip = 0 /\ f.mode = "dry"
       IN  /\ open' = ~ends
           /\ Goes(IF ends THEN Stopped ELSE IF f.skip > 0 THEN Skip(f) ELSE Handled(f))
    /\ UNCHANGED <<dead, left, received>>

\* session: the next frame, skipped already, part of the backlog, or to be
\* handled; a dry run ends here.
Receive(m) ==
    /\ Frame(m)
    /\ LET f == [fwd EXCEPT !.m = m]
           again == f.m \in f.skipped
           ends == ~again /\ f.skip = 0 /\ f.mode = "dry"
       IN  /\ open' = ~ends
           /\ Goes(CASE again -> [f EXCEPT !.pc = "ack"]
                     [] ends -> Stopped
                     [] ~again /\ f.skip > 0 -> Skip(f)
                     [] ~again /\ f.skip = 0 /\ ~ends -> Handled(f))
    /\ UNCHANGED <<dead, left, received>>

\* A connection that broke ends the session, before or during a delivery.
Lost ==
    /\ fwd.pc \in {"wait", "post", "ack"} /\ ~open
    /\ Goes(Ended) /\ UNCHANGED <<open, dead, left, received>>

\* The mailbox was quiet for a while, and the run was for what is queued.
IdleEnds ==
    /\ fwd.pc = "wait" /\ fwd.mode # "service" /\ open' = FALSE
    /\ Goes(Stopped) /\ UNCHANGED <<dead, left, received>>

\* What a POST may come to: taken, refused for good, failed, or taken without
\* the answer arriving.
Answers == {"ok", "refused", "failed", "unheard"}
Takes(a) == a \in {"ok", "unheard"}

\* Mutant: after the last attempt the count starts again.
MutantPost(a) ==
    /\ fwd.pc = "post"
    /\ received' = IF Takes(a) THEN received \cup {fwd.m} ELSE received
    /\ Goes(CASE a = "ok" -> At("ack")
              [] a = "refused" -> [fwd EXCEPT !.pc = "letter", !.why = "failed"]
              [] OTHER -> IF ~open THEN Ended
                          ELSE [fwd EXCEPT !.attempt = IF @ < MaxAttempts THEN @ + 1 ELSE 1])
    /\ UNCHANGED <<open, dead, left>>

\* handle: one attempt.  After the last one, or a refusal that another attempt
\* would meet too, the message is given up.
Post(a) ==
    /\ fwd.pc = "post"
    /\ received' = IF Takes(a) THEN received \cup {fwd.m} ELSE received
    /\ Goes(CASE a = "ok" -> At("ack")
              [] a = "refused" -> [fwd EXCEPT !.pc = "letter", !.why = "failed"]
              [] OTHER -> IF ~open THEN Ended
                          ELSE IF fwd.attempt < MaxAttempts THEN [fwd EXCEPT !.attempt = @ + 1]
                          ELSE [fwd EXCEPT !.pc = "letter", !.why = "failed"])
    /\ UNCHANGED <<open, dead, left>>

FileFree == rep.pc # "rewrite"

\* A frame of the backlog counts as skipped once it is dealt with.
Dealt ==
    IF fwd.why = "skipped"
    THEN [fwd EXCEPT !.pc = "ack", !.skip = @ - 1, !.skipped = @ \cup {fwd.m}] ELSE At("ack")

\* Mutant: the message counts as settled although it could not be recorded.
MutantDeadLetter ==
    /\ fwd.pc = "letter" /\ FileFree
    /\ \/ dead' = Append(dead, Record(fwd.m, fwd.why)) /\ Goes(Dealt) /\ UNCHANGED left
       \/ dead' = dead /\ Use("unwritten") /\ Goes(Dealt)
    /\ UNCHANGED <<open, received>>

\* deadLetter, under the file's lock: a record written and synced, or none, or
\* part of one, and the session ends without the acknowledgement.  A notice
\* of the backlog leaves no record.
DeadLetter ==
    /\ fwd.pc = "letter"
    /\ \/ /\ FileFree \/ Kinds[fwd.m] = "presence"
          /\ dead' = IF Kinds[fwd.m] = "presence" THEN dead ELSE Append(dead, Record(fwd.m, fwd.why))
          /\ Goes(Dealt) /\ UNCHANGED <<open, left>>
       \/ /\ Kinds[fwd.m] # "presence" /\ Use("unwritten")
          /\ dead' \in {dead} \cup IF FileFree THEN {Append(dead, Torn)} ELSE {}
          /\ Goes(Ended) /\ open' = FALSE
    /\ UNCHANGED received

Acknowledge ==
    /\ fwd.pc = "ack" /\ open
    /\ acks' = {fwd.m}
    /\ fwd' = [fwd EXCEPT !.pc = "wait", !.m = 0, !.attempt = 0]
    /\ UNCHANGED <<arrived, spool, open, dead, rep, left, received, counted, wrong>>

\* A signal, or a crash: a POST under way may have been taken.
Stop ==
    /\ fwd.pc # "off" /\ Use("stop")
    /\ open' = FALSE /\ Goes(Stopped)
    /\ \/ fwd.pc = "post" /\ received' = received \cup {fwd.m}
       \/ UNCHANGED received
    /\ UNCHANGED dead

(* -------------------------------------------------------------- replay -- *)

ReplayOnly == UNCHANGED <<relayVars, open, fwd, counted, wrong>>

\* ReplayDeadLetters reads the file once ...
ReplayStarts(all) ==
    /\ rep.pc = "off" /\ Use("replay")
    /\ rep' = [NoReplay EXCEPT !.pc = "run", !.lines = dead, !.at = 1, !.all = all]
    /\ ReplayOnly /\ UNCHANGED <<dead, received>>

\* ... posts each record it can read, a skipped one only when asked to, once,
Sendable(r) == r.m # 0 /\ Kinds[r.m] # "garbled" /\ (r.why = "skipped" => rep.all)

ReplayPosts(a) ==
    /\ rep.pc = "run" /\ rep.at <= Len(rep.lines)
    /\ LET r == rep.lines[rep.at]
       IN  /\ Sendable(r) \/ a = "failed"
           /\ received' = IF Sendable(r) /\ Takes(a) THEN received \cup {r.m} ELSE received
           /\ rep' = IF Sendable(r) /\ a = "ok" THEN [rep EXCEPT !.pc = "remove"]
                                               ELSE [rep EXCEPT !.at = @ + 1]
    /\ ReplayOnly /\ UNCHANGED <<dead, left>>

\* The file without its i-th line.
Without(s, i) == SubSeq(s, 1, i - 1) \o SubSeq(s, i + 1, Len(s))

\* removeDeadLetterLine: with the lock it reads the file again, without the
\* first line that equals the one delivered ...
ReplayReads ==
    /\ rep.pc = "remove"
    /\ \/ \E i \in 1 .. Len(dead) :
             /\ dead[i] = rep.lines[rep.at] /\ \A j \in 1 .. i - 1 : dead[j] # dead[i]
             /\ rep' = [rep EXCEPT !.pc = "rewrite", !.kept = Without(dead, i)]
       \/ /\ \A i \in 1 .. Len(dead) : dead[i] # rep.lines[rep.at]
          /\ rep' = [rep EXCEPT !.pc = "run", !.at = @ + 1]
    /\ ReplayOnly /\ UNCHANGED <<dead, left, received>>

\* ... and renames what is left over the file.
ReplayRewrites ==
    /\ rep.pc = "rewrite"
    /\ dead' = rep.kept
    /\ rep' = [rep EXCEPT !.pc = "run", !.at = @ + 1, !.kept = <<>>]
    /\ ReplayOnly /\ UNCHANGED <<left, received>>

\* It is through, or a removal failed, or it was killed.
ReplayEnds ==
    /\ rep.pc # "off"
    /\ IF rep.pc = "run" /\ rep.at > Len(rep.lines) THEN UNCHANGED left ELSE Use("stop")
    /\ rep' = NoReplay
    /\ ReplayOnly /\ UNCHANGED <<dead, received>>

(* -------------------------------------------------------- specification -- *)

Delivering ==
    \/ RelayQueued \/ Dial \/ Unreadable \/ (\E m \in Messages : Receive(m))
    \/ Lost \/ IdleEnds
    \/ \E a \in Answers : Post(a)
    \/ DeadLetter \/ Acknowledge

Replaying ==
    (\E a \in Answers : ReplayPosts(a)) \/ ReplayReads \/ ReplayRewrites \/ ReplayEnds

Next ==
    \/ Arrive \/ Discard \/ TakeAck \/ LoseAck \/ Break
    \/ \E mode \in {"service", "once", "dry"}, skipping \in BOOLEAN : StartForward(mode, skipping)
    \/ Delivering \/ Stop
    \/ \E all \in BOOLEAN : ReplayStarts(all)
    \/ Replaying

Spec == Init /\ [][Next]_vars

\* The forwarder and the replay do their next step, mishaps aside, and the
\* relay reads what it is sent; a webhook may fail forever.
FairSpec ==
    /\ Spec
    /\ WF_vars(Delivering) /\ WF_vars(Replaying)
    /\ WF_vars(Discard) /\ WF_vars(TakeAck \/ LoseAck)

(* ------------------------------------------------------------ properties - *)

\* No message disappears: one that is no longer queued was taken by the
\* webhook or is in the dead-letter file, whatever broke between the POST, the
\* record, the acknowledgement and the rewriting of the file by a replay.
Settled(m) ==
    \/ Kinds[m] \in {"presence", "stale"}
    \/ m \in received
    \/ \E i \in 1 .. Len(dead) : dead[i].m = m
NothingIsLost == \A m \in 1 .. arrived : m \in spool \/ Settled(m)

\* --skip-queued skips exactly what was queued when it counted, also when
\* connections break in the middle of the backlog: nothing that came later is
\* skipped, unless the count was of messages the relay never sends, and nothing
\* of the backlog is posted.
SkipsTheBacklog ==
    /\ ~wrong => \A i \in 1 .. Len(dead) : dead[i].why = "skipped" => dead[i].m <= counted
    /\ fwd.skipped # {} /\ fwd.pc = "post" => fwd.m > counted

\* A message over the client's frame limit, and what is queued behind it.
Blocked(m) == \E n \in spool : n <= m /\ Kinds[n] = "oversize"

\* While a service runs, no message stays at the head of the queue forever, a
\* webhook that always fails included, save one that cannot be read: it stays,
\* and everything behind it (session, docs/forward.md's known limit).
EverythingSettles ==
    \A m \in Messages :
        m \in spool /\ ~Blocked(m) /\ fwd.pc # "off" /\ fwd.mode = "service"
            ~> m \notin spool \/ fwd.pc = "off"
=============================================================================
