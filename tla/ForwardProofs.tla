---------------------------- MODULE ForwardProofs ----------------------------
(***************************************************************************)
(* The safety of Forward for any number and kind of messages, any number   *)
(* of attempts and any budget of commands and mishaps: no message is lost, *)
(* and --skip-queued skips the backlog and nothing else.                   *)
(*                                                                         *)
(* A message leaves the queue by its acknowledgement, so each point of the *)
(* forwarder from which one may be sent must know that the message is      *)
(* settled; and a replay that has read the file but not yet written it     *)
(* back may drop a record only of a message that the webhook took.         *)
(*                                                                         *)
(* Skipping counts frames, not messages.  What ties the count to the       *)
(* backlog is that the frames still to skip are at least as many as the    *)
(* messages of the backlog that are queued and not yet skipped, and just   *)
(* as many unless the relay counted what it does not send.                 *)
(***************************************************************************)
EXTENDS Forward, FiniteSetTheorems, SequenceTheorems, TLAPS

\* What the forwarder may acknowledge, now or after a reconnect, is settled.
AcksAreSettled ==
    /\ \A m \in acks \cup fwd.skipped : Settled(m)
    /\ fwd.pc = "ack" => Settled(fwd.m)

\* The message in hand is the one at the head of the queue, and no
\* acknowledgement is under way that could change that.
Handling == fwd.pc \in {"post", "letter", "ack"}
HandIsOldest == Handling => Oldest(fwd.m) /\ acks = {} /\ Kinds[fwd.m] # "stale"

\* A replay removes a record only once the webhook has the message, and while
\* it rewrites the file it holds all the others.
ReplayKeeps ==
    /\ rep.pc \in {"run", "remove", "rewrite"} => rep.at >= 1
    /\ rep.pc \in {"remove", "rewrite"} =>
          rep.at <= Len(rep.lines) /\ rep.lines[rep.at].m \in received
    /\ rep.pc = "rewrite" =>
          /\ \A i \in 1 .. Len(dead) :
                dead[i].m \in received \/ \E j \in 1 .. Len(rep.kept) : rep.kept[j] = dead[i]
          /\ \A j \in 1 .. Len(rep.kept) : \E i \in 1 .. Len(dead) : dead[i] = rep.kept[j]

\* The part of the backlog that is still to be skipped.
Unskipped == {m \in spool : m <= counted /\ m \notin fwd.skipped}

CountsTheBacklog ==
    fwd.skip > 0 \/ fwd.skipped # {} =>
        /\ fwd.pc # "count" /\ fwd.mode # "dry"
        /\ fwd.skip >= Cardinality(Unskipped)
        /\ ~wrong => fwd.skip = Cardinality(Unskipped)

\* What the relay counted leaves the queue only by being skipped.
CountsWhatIsSent ==
    fwd.skip > 0 /\ ~wrong =>
        /\ acks \subseteq fwd.skipped
        /\ \A m \in spool : m <= counted => Kinds[m] # "stale"

\* While there is something to skip, nothing is posted, and a record is of a
\* frame of the backlog, met for the first time.
SkipsFirst ==
    /\ fwd.pc = "count" => fwd.mode # "dry"
    /\ fwd.pc = "post" => fwd.skip = 0 /\ fwd.m \notin fwd.skipped
    /\ fwd.pc = "letter" => (fwd.why = "skipped") = (fwd.skip > 0)
    /\ fwd.pc = "letter" /\ fwd.skip > 0 => fwd.m \notin fwd.skipped
    /\ fwd.pc = "ack" /\ fwd.skip > 0 => fwd.m \in fwd.skipped

SkipCounts == CountsTheBacklog /\ CountsWhatIsSent /\ SkipsFirst

\* No record is of a message that did not arrive, and, the count being right,
\* none of a skipped one that came after it.
LettersOfTheBacklog ==
    \A i \in 1 .. Len(dead) :
        /\ dead[i].m <= arrived
        /\ ~wrong /\ dead[i].why = "skipped" => dead[i].m <= counted

IInv ==
    /\ TypeOK /\ AcksAreSettled /\ HandIsOldest /\ ReplayKeeps /\ SkipCounts
    /\ LettersOfTheBacklog /\ NothingIsLost

-----------------------------------------------------------------------------
(* Type correctness. *)

LEMMA KindsOf == Len(Kinds) \in Nat /\ Messages \subseteq Nat /\ MaxAttempts \in Nat \ {0}
BY ForwardAssumption DEF Messages

LEMMA LettersAppend ==
    ASSUME NEW s \in Seq(Letters), NEW m \in Messages \cup {0}, NEW why \in Reasons
    PROVE  /\ Append(s, Record(m, why)) \in Seq(Letters)
           /\ Len(Append(s, Record(m, why))) = Len(s) + 1
           /\ \A i \in 1 .. Len(s) : Append(s, Record(m, why))[i] = s[i]
           /\ Append(s, Record(m, why))[Len(s) + 1] = Record(m, why)
BY DEF Letters, Record

\* A file without its i-th line has every other line, and only lines it had.
LEMMA WithoutOne ==
    ASSUME NEW s \in Seq(Letters), NEW i \in 1 .. Len(s)
    PROVE  LET t == Without(s, i) IN
           /\ t \in Seq(Letters)
           /\ \A j \in 1 .. Len(s) : j # i => \E k \in 1 .. Len(t) : t[k] = s[j]
           /\ \A k \in 1 .. Len(t) : \E j \in 1 .. Len(s) : s[j] = t[k]
<1> DEFINE a == SubSeq(s, 1, i - 1)
           b == SubSeq(s, i + 1, Len(s))
           t == a \o b
<1>1. Len(s) \in Nat /\ i \in Nat /\ \A j \in 1 .. Len(s) : s[j] \in Letters
  OBVIOUS
<1>2. /\ a \in Seq(Letters) /\ Len(a) = i - 1
      /\ \A k \in 1 .. i - 1 : a[k] = s[k]
  BY <1>1, SubSeqProperties
<1>3. /\ b \in Seq(Letters) /\ Len(b) = Len(s) - i
      /\ \A k \in 1 .. Len(s) - i : b[k] = s[i + k]
  BY <1>1, SubSeqProperties
<1> HIDE DEF a, b
<1>4. /\ t \in Seq(Letters) /\ Len(t) = Len(s) - 1
      /\ \A k \in 1 .. i - 1 : t[k] = s[k]
      /\ \A k \in i .. Len(s) - 1 : t[k] = s[k + 1]
  <2>1. /\ a \o b \in Seq(Letters) /\ Len(a \o b) = Len(a) + Len(b)
        /\ \A k \in 1 .. Len(a) + Len(b) :
              (a \o b)[k] = IF k <= Len(a) THEN a[k] ELSE b[k - Len(a)]
    BY <1>2, <1>3, ConcatProperties
  <2> HIDE DEF t
  <2>2. /\ t \in Seq(Letters) /\ Len(t) = Len(a) + Len(b)
        /\ \A k \in 1 .. Len(a) + Len(b) : t[k] = IF k <= Len(a) THEN a[k] ELSE b[k - Len(a)]
    BY <2>1 DEF t
  <2>3. Len(t) = Len(s) - 1 /\ \A k \in 1 .. i - 1 : t[k] = s[k]
    BY <1>1, <1>2, <1>3, <2>2
  <2>4. ASSUME NEW k \in i .. Len(s) - 1
        PROVE  t[k] = s[k + 1]
    <3>1. k \in 1 .. Len(a) + Len(b) /\ k > Len(a) /\ k - Len(a) \in 1 .. Len(s) - i
      BY <1>1, <1>2, <1>3
    <3>2. t[k] = b[k - Len(a)]
      BY <3>1, <2>2, <1>2
    <3>3. i + (k - Len(a)) = k + 1
      BY <1>1, <1>2
    <3> QED
      BY <3>1, <3>2, <3>3, <1>3
  <2> QED
    BY <2>2, <2>3, <2>4
<1>5. Without(s, i) = t
  BY DEF Without, a, b
<1> HIDE DEF t
<1>6. ASSUME NEW j \in 1 .. Len(s), j # i
      PROVE  \E k \in 1 .. Len(t) : t[k] = s[j]
  <2>1. CASE j < i
    BY <2>1, <1>1, <1>4
  <2>2. CASE j > i
    <3>1. j - 1 \in i .. Len(s) - 1 /\ (j - 1) + 1 = j
      BY <2>2, <1>1
    <3>2. t[j - 1] = s[j]
      BY <3>1, <1>4
    <3> QED
      BY <3>1, <3>2, <1>1, <1>4
  <2> QED
    BY <1>1, <1>6, <2>1, <2>2
<1>7. ASSUME NEW k \in 1 .. Len(t)
      PROVE  \E j \in 1 .. Len(s) : s[j] = t[k]
  <2>1. CASE k < i
    BY <2>1, <1>1, <1>4
  <2>2. CASE k >= i
    <3>1. k + 1 \in 1 .. Len(s) /\ s[k + 1] = t[k]
      BY <2>2, <1>1, <1>4
    <3> QED
      BY <3>1
  <2> QED
    BY <1>1, <1>4, <2>1, <2>2
<1> QED
  BY <1>4, <1>5, <1>6, <1>7

LEMMA QueueIsFinite ==
    ASSUME TypeOK
    PROVE  IsFiniteSet(spool) /\ Cardinality(spool) \in Nat
<1>1. IsFiniteSet(1 .. arrived)
  BY KindsOf, FS_Interval DEF TypeOK
<1> QED
  BY <1>1, FS_Subset, FS_CardinalityType DEF TypeOK

\* The message in hand is a message.
LEMMA InHand ==
    ASSUME TypeOK, HandIsOldest, Handling
    PROVE  fwd.m \in Messages /\ fwd.m \in spool /\ fwd.m \in Nat
<1>1. fwd.m \in spool
  BY DEF HandIsOldest, Oldest
<1>2. arrived \in 0 .. Len(Kinds) /\ spool \subseteq 1 .. arrived
  BY DEF TypeOK
<1>3. fwd.m \in 1 .. Len(Kinds) /\ fwd.m \in Nat
  <2>1. fwd.m \in 1 .. arrived
    BY <1>1, <1>2
  <2> QED
    BY <2>1, <1>2, KindsOf
<1> QED
  BY <1>1, <1>3 DEF Messages

\* The queue and the ghosts keep their types,
LEMMA QueueTyping ==
    ASSUME TypeOK, HandIsOldest, ReplayKeeps, [Next]_vars
    PROVE  /\ arrived' \in 0 .. Len(Kinds) /\ spool' \subseteq 1 .. arrived' /\ acks' \subseteq Messages
           /\ open' \in BOOLEAN /\ received' \subseteq Messages
           /\ counted' \in 0 .. arrived' /\ wrong' \in BOOLEAN
<1> DEFINE Goal == /\ arrived' \in 0 .. Len(Kinds) /\ spool' \subseteq 1 .. arrived'
                   /\ acks' \subseteq Messages /\ open' \in BOOLEAN /\ received' \subseteq Messages
                   /\ counted' \in 0 .. arrived' /\ wrong' \in BOOLEAN
<1>1. CASE Arrive
  BY <1>1, KindsOf DEF Arrive, RelayOnly, TypeOK
<1>2. CASE Discard \/ TakeAck \/ LoseAck
  BY <1>2 DEF Discard, TakeAck, LoseAck, RelayOnly, TypeOK
<1>3. CASE Break \/ Dial \/ Lost \/ Unreadable \/ IdleEnds
  BY <1>3 DEF Break, Dial, Lost, Unreadable, IdleEnds, Goes, relayVars, TypeOK
<1>4. CASE RelayQueued
  BY <1>4, KindsOf DEF RelayQueued, relayVars, TypeOK
<1>5. ASSUME NEW m \in Messages, Receive(m)
      PROVE  Goal
  BY <1>5 DEF Receive, Goes, relayVars, TypeOK
<1>6. ASSUME NEW a \in Answers, Post(a)
      PROVE  Goal
  BY <1>6, InHand DEF Post, Handling, Goes, relayVars, TypeOK
<1>7. CASE DeadLetter
  BY <1>7 DEF DeadLetter, Goes, relayVars, TypeOK
<1>8. CASE Acknowledge
  BY <1>8, InHand DEF Acknowledge, Handling, TypeOK
<1>9. CASE Stop
  BY <1>9, InHand DEF Stop, Handling, Goes, relayVars, TypeOK
<1>10. ASSUME NEW mode \in {"service", "once", "dry"}, NEW skipping \in BOOLEAN,
              StartForward(mode, skipping)
       PROVE  Goal
  BY <1>10 DEF StartForward, Goes, relayVars, TypeOK
<1>11. ASSUME NEW a \in Answers, ReplayPosts(a)
       PROVE  Goal
  <2>1. rep.at \in 1 .. Len(rep.lines) => rep.lines[rep.at] \in Letters
    BY DEF TypeOK, Replays
  <2>2. rep.at \in 1 .. Len(rep.lines)
    BY <1>11 DEF ReplayPosts, TypeOK, Replays, ReplayKeeps
  <2>3. rep.lines[rep.at].m \in Messages \cup {0}
    BY <2>1, <2>2 DEF Letters
  <2>4. received' \subseteq received \cup ({rep.lines[rep.at].m} \ {0})
    BY <1>11 DEF ReplayPosts, Sendable, TypeOK
  <2> QED
    BY <1>11, <2>3, <2>4 DEF ReplayPosts, ReplayOnly, relayVars, TypeOK
<1>12. ASSUME NEW all \in BOOLEAN, ReplayStarts(all)
       PROVE  Goal
  BY <1>12 DEF ReplayStarts, ReplayOnly, relayVars, TypeOK
<1>13. CASE ReplayReads \/ ReplayRewrites \/ ReplayEnds
  BY <1>13 DEF ReplayReads, ReplayRewrites, ReplayEnds, ReplayOnly, relayVars, TypeOK
<1>14. CASE UNCHANGED vars
  BY <1>14 DEF vars, relayVars, TypeOK
<1> QED
  BY <1>1, <1>2, <1>3, <1>4, <1>5, <1>6, <1>7, <1>8, <1>9, <1>10, <1>11, <1>12, <1>13, <1>14
  DEF Next, Delivering, Replaying

\* the forwarder does,
LEMMA ForwarderTyping ==
    ASSUME TypeOK, HandIsOldest, SkipCounts, [Next]_vars
    PROVE  fwd' \in Forwarders
<1> USE DEF Forwarders
<1>0. fwd \in Forwarders
  BY DEF TypeOK
<1>1. CASE RelayQueued
  BY <1>0, <1>1, QueueIsFinite DEF RelayQueued
<1>2. /\ Stopped \in Forwarders /\ Ended \in Forwarders
      /\ \A pc \in {"dial", "wait", "ack"} : At(pc) \in Forwarders
      /\ [fwd EXCEPT !.pc = "letter", !.why = "failed"] \in Forwarders
      /\ [fwd EXCEPT !.attempt = @ + 1] \in Forwarders
  <2>1. Stopped \in Forwarders
    BY DEF Stopped, Reasons
  <2>2. [fwd EXCEPT !.pc = "dial", !.m = 0, !.attempt = 0] \in Forwarders
    BY <1>0
  <2>3. \A pc \in {"dial", "wait", "ack"} : [fwd EXCEPT !.pc = pc] \in Forwarders
    BY <1>0
  <2>4. [fwd EXCEPT !.pc = "letter", !.why = "failed"] \in Forwarders
    BY <1>0 DEF Reasons
  <2>5. [fwd EXCEPT !.attempt = @ + 1] \in Forwarders
    BY <1>0
  <2> HIDE DEF Forwarders
  <2> QED
    BY <2>1, <2>2, <2>3, <2>4, <2>5 DEF Ended, At
<1>3. CASE Acknowledge
  BY <1>0, <1>3 DEF Acknowledge
<1>9. CASE Dial \/ Lost \/ Unreadable \/ IdleEnds \/ Stop
  <2> HIDE DEF Forwarders
  <2> QED
    BY <1>2, <1>9 DEF Dial, Lost, Unreadable, IdleEnds, Stop, Goes
<1>4. ASSUME NEW m \in Messages, Receive(m)
      PROVE  fwd' \in Forwarders
  <2> DEFINE f == [fwd EXCEPT !.m = m]
  <2>1. f \in Forwarders
    BY <1>0
  <2> HIDE DEF f
  <2>2. [f EXCEPT !.pc = "ack"] \in Forwarders
    BY <2>1
  <2>3. [f EXCEPT !.pc = "letter", !.why = "skipped"] \in Forwarders
    BY <2>1 DEF Reasons
  <2>4. [f EXCEPT !.pc = "letter", !.why = "unreadable"] \in Forwarders
    BY <2>1 DEF Reasons
  <2>5. [f EXCEPT !.pc = "post", !.attempt = 1] \in Forwarders
    BY <2>1
  <2> HIDE DEF Forwarders
  <2>6. Skip(f) \in Forwarders /\ Handled(f) \in Forwarders
    BY <2>2, <2>3, <2>4, <2>5 DEF Skip, Handled
  <2>8. f.skip \in Nat
    BY <2>1 DEF Forwarders
  <2>7. fwd' \in {[f EXCEPT !.pc = "ack"], Stopped, Skip(f), Handled(f)}
    BY <1>4, <2>8 DEF Receive, Goes, f
  <2> QED
    BY <1>2, <2>2, <2>6, <2>7
<1>5. ASSUME NEW a \in Answers, Post(a)
      PROVE  fwd' \in Forwarders
  <2> HIDE DEF Forwarders
  <2> QED
    BY <1>2, <1>5 DEF Post, Goes
<1>6. CASE DeadLetter
  <2>1. fwd.why = "skipped" => fwd.skip > 0
    BY <1>6 DEF DeadLetter, SkipCounts, SkipsFirst
  <2>3. fwd.why = "skipped" => fwd.skip - 1 \in Nat
    BY <1>0, <2>1
  <2>4. fwd.skipped \cup {fwd.m} \in SUBSET Messages
    BY <1>0, <1>6, InHand DEF DeadLetter, Handling
  <2>2. fwd.why = "skipped" =>
            [fwd EXCEPT !.pc = "ack", !.skip = @ - 1, !.skipped = @ \cup {fwd.m}] \in Forwarders
    BY <1>0, <2>3, <2>4
  <2> HIDE DEF Forwarders
  <2> QED
    BY <1>2, <1>6, <2>2 DEF DeadLetter, Goes, Dealt
<1>7. ASSUME NEW mode \in {"service", "once", "dry"}, NEW skipping \in BOOLEAN,
             StartForward(mode, skipping)
      PROVE  fwd' \in Forwarders
  BY <1>7 DEF StartForward, Goes, Stopped, Reasons
<1>8. CASE UNCHANGED fwd
  BY <1>0, <1>8
<1> QED
  <2> HIDE DEF Forwarders
  <2>1. Arrive \/ Discard \/ TakeAck \/ LoseAck \/ Break => UNCHANGED fwd
    BY DEF Arrive, Discard, TakeAck, LoseAck, Break, RelayOnly
  <2>2. Replaying \/ (\E all \in BOOLEAN : ReplayStarts(all)) => UNCHANGED fwd
    BY DEF Replaying, ReplayStarts, ReplayPosts, ReplayReads, ReplayRewrites, ReplayEnds, ReplayOnly
  <2>3. UNCHANGED vars => UNCHANGED fwd
    BY DEF vars
  <2> QED
    BY <1>1, <1>3, <1>4, <1>5, <1>6, <1>7, <1>8, <1>9, <2>1, <2>2, <2>3 DEF Next, Delivering

\* and so do the dead-letter file and the replay.
LEMMA FileTyping ==
    ASSUME TypeOK, HandIsOldest, ReplayKeeps, [Next]_vars
    PROVE  dead' \in Seq(Letters) /\ rep' \in Replays
<1> DEFINE File == Seq(Letters)
           Shape == [pc : {"off", "run", "remove", "rewrite"}, lines : File, at : Nat,
                     all : BOOLEAN, kept : File]
<1>0. /\ dead \in Seq(Letters) /\ rep \in Replays /\ fwd \in Forwarders
      /\ rep.at \in Nat /\ rep.lines \in Seq(Letters) /\ rep.kept \in Seq(Letters)
  BY DEF TypeOK, Replays
<1>10. Replays = Shape /\ dead \in File /\ rep \in Shape /\ <<>> \in File
  BY <1>0 DEF Replays
<1> HIDE DEF File
<1>11. [rep EXCEPT !.pc = "run", !.at = @ + 1] \in Shape /\ Replays = Shape
  <2>1. [rep EXCEPT !.pc = "run"] \in Shape /\ rep.at + 1 \in Nat
    BY <1>0, <1>10
  <2>2. [[rep EXCEPT !.pc = "run"] EXCEPT !.at = rep.at + 1] \in Shape
    BY <2>1
  <2> QED
    BY <1>10, <2>2
<1>1. CASE DeadLetter
  <2>1. fwd.m \in Messages \cup {0} /\ fwd.why \in Reasons
    BY <1>0 DEF Forwarders
  <2>2. Append(dead, Record(fwd.m, fwd.why)) \in Seq(Letters)
    BY <1>0, <2>1, LettersAppend
  <2>3. Append(dead, Torn) \in Seq(Letters)
    BY <1>0, LettersAppend DEF Torn, Reasons
  <2>4. dead' \in {dead, Append(dead, Record(fwd.m, fwd.why)), Append(dead, Torn)}
    BY <1>1 DEF DeadLetter
  <2> QED
    BY <1>0, <1>1, <2>2, <2>3, <2>4 DEF DeadLetter, Goes
<1>2. ASSUME NEW all \in BOOLEAN, ReplayStarts(all)
      PROVE  dead' \in Seq(Letters) /\ rep' \in Replays
  <2>1. [NoReplay EXCEPT !.pc = "run", !.lines = dead, !.at = 1, !.all = all] \in Replays
    BY <1>10 DEF NoReplay
  <2> QED
    BY <1>0, <1>2, <2>1 DEF ReplayStarts
<1>3. ASSUME NEW a \in Answers, ReplayPosts(a)
      PROVE  dead' \in Seq(Letters) /\ rep' \in Replays
  BY <1>0, <1>3 DEF ReplayPosts, Replays
<1>4. CASE ReplayReads
  <2>1. ASSUME NEW i \in 1 .. Len(dead)
        PROVE  Without(dead, i) \in File
    BY <1>0, WithoutOne DEF File
  <2>2. ASSUME NEW kept \in File
        PROVE  [rep EXCEPT !.pc = "rewrite", !.kept = kept] \in Replays
    <3>1. [rep EXCEPT !.pc = "rewrite"] \in Shape
      BY <1>10
    <3>2. [[rep EXCEPT !.pc = "rewrite"] EXCEPT !.kept = kept] \in Shape
      BY <3>1
    <3> QED
      BY <1>10, <3>2
  <2>3. [rep EXCEPT !.pc = "run", !.at = @ + 1] \in Replays
    BY <1>11
  <2>4. /\ dead' = dead
        /\ \/ \E i \in 1 .. Len(dead) : rep' = [rep EXCEPT !.pc = "rewrite", !.kept = Without(dead, i)]
           \/ rep' = [rep EXCEPT !.pc = "run", !.at = @ + 1]
    BY <1>4 DEF ReplayReads
  <2> QED
    BY <1>0, <2>1, <2>2, <2>3, <2>4
<1>5. CASE ReplayRewrites
  <2>1. [rep EXCEPT !.pc = "run", !.at = @ + 1, !.kept = <<>>] \in Replays
    <3>1. [[rep EXCEPT !.pc = "run", !.at = @ + 1] EXCEPT !.kept = <<>>] \in Shape
      BY <1>10, <1>11
    <3> QED
      BY <1>10, <3>1
  <2> QED
    BY <1>10, <1>5, <2>1 DEF ReplayRewrites, File
<1>6. CASE ReplayEnds
  BY <1>0, <1>6 DEF ReplayEnds, NoReplay, Replays
<1>7. CASE UNCHANGED <<dead, rep>>
  BY <1>0, <1>7
<1> QED
  <2>1. Arrive \/ Discard \/ TakeAck \/ LoseAck \/ Break => UNCHANGED <<dead, rep>>
    BY DEF Arrive, Discard, TakeAck, LoseAck, Break, RelayOnly
  <2>2. RelayQueued \/ Dial \/ (\E m \in Messages : Receive(m)) \/ Lost \/ Unreadable \/ IdleEnds \/ Acknowledge
        => UNCHANGED <<dead, rep>>
    BY DEF RelayQueued, Dial, Receive, Lost, Unreadable, IdleEnds, Acknowledge, Goes
  <2>3. (\E a \in Answers : Post(a)) \/ Stop => UNCHANGED <<dead, rep>>
    BY DEF Post, Stop, Goes
  <2>4. (\E mode \in {"service", "once", "dry"}, skipping \in BOOLEAN : StartForward(mode, skipping))
        => UNCHANGED <<dead, rep>>
    BY DEF StartForward, Goes
  <2>5. UNCHANGED vars => UNCHANGED <<dead, rep>>
    BY DEF vars
  <2> QED
    BY <1>1, <1>2, <1>3, <1>4, <1>5, <1>6, <1>7, <2>1, <2>2, <2>3, <2>4, <2>5
    DEF Next, Delivering, Replaying

LEMMA InitIInv == Init => IInv
<1> SUFFICES ASSUME Init
             PROVE  IInv
  OBVIOUS
<1>1. /\ fwd = Stopped /\ Stopped \in Forwarders
      /\ Stopped.pc = "off" /\ Stopped.skip = 0 /\ Stopped.skipped = {}
  BY DEF Init, Stopped, Forwarders, Reasons
<1>2. rep = NoReplay /\ NoReplay \in Replays /\ NoReplay.pc = "off"
  BY DEF Init, NoReplay, Replays
<1>3. dead \in Seq(Letters) /\ Len(dead) = 0
  BY DEF Init
<1>4. TypeOK
  <2>1. arrived \in 0 .. Len(Kinds) /\ counted \in 0 .. arrived
    BY KindsOf DEF Init
  <2> QED
    BY <1>1, <1>2, <1>3, <2>1 DEF Init, TypeOK
<1>5. AcksAreSettled /\ HandIsOldest /\ ReplayKeeps /\ SkipCounts
  BY <1>1, <1>2 DEF Init, AcksAreSettled, HandIsOldest, Handling, ReplayKeeps, SkipCounts,
     CountsTheBacklog, CountsWhatIsSent, SkipsFirst
<1>6. LettersOfTheBacklog /\ NothingIsLost
  BY <1>3 DEF Init, LettersOfTheBacklog, NothingIsLost
<1> QED
  BY <1>4, <1>5, <1>6 DEF IInv

LEMMA Typing == IInv /\ [Next]_vars => TypeOK'
<1> SUFFICES ASSUME IInv, [Next]_vars
             PROVE  TypeOK'
  OBVIOUS
<1>1. TypeOK /\ HandIsOldest /\ ReplayKeeps /\ SkipCounts
  BY DEF IInv
<1>2. fwd' \in Forwarders
  BY <1>1, ForwarderTyping
<1>3. dead' \in Seq(Letters) /\ rep' \in Replays
  BY <1>1, FileTyping
<1>4. /\ arrived' \in 0 .. Len(Kinds) /\ spool' \subseteq 1 .. arrived' /\ acks' \subseteq Messages
      /\ open' \in BOOLEAN /\ received' \subseteq Messages
      /\ counted' \in 0 .. arrived' /\ wrong' \in BOOLEAN
  BY <1>1, QueueTyping
<1> QED
  BY <1>2, <1>3, <1>4 DEF TypeOK

-----------------------------------------------------------------------------
(* What the steps of the forwarder do, field by field. *)

\* A step that only moves the forwarder leaves it holding nothing, with its
\* count of the backlog, or stops it.
Moves ==
    /\ fwd'.pc \in {"off", "count", "dial", "wait"}
    /\ \/ fwd'.skip = fwd.skip /\ fwd'.skipped = fwd.skipped /\ fwd'.mode = fwd.mode /\ fwd'.pc # "count"
       \/ fwd'.skip = 0 /\ fwd'.skipped = {} /\ (fwd'.pc = "count" => fwd'.mode # "dry")

LEMMA EndedMoves ==
    ASSUME fwd \in Forwarders, fwd.pc # "count", fwd' \in {Ended, Stopped}
    PROVE  Moves
<1>1. fwd' = Stopped => Moves
  BY DEF Stopped, Moves
<1>2. fwd' = [fwd EXCEPT !.pc = "dial", !.m = 0, !.attempt = 0] =>
          fwd'.pc = "dial" /\ fwd'.skip = fwd.skip /\ fwd'.skipped = fwd.skipped /\ fwd'.mode = fwd.mode
  BY DEF Forwarders
<1>3. fwd' = [fwd EXCEPT !.pc = "dial", !.m = 0, !.attempt = 0] => Moves
  BY <1>2 DEF Moves
<1> QED
  BY <1>1, <1>3 DEF Ended

LEMMA MovingStep ==
    ASSUME fwd \in Forwarders,
           \/ Dial \/ Lost \/ Unreadable \/ IdleEnds \/ Acknowledge \/ Stop
           \/ \E mode \in {"service", "once", "dry"}, skipping \in BOOLEAN : StartForward(mode, skipping)
    PROVE  Moves
<1>1. Dial => Moves
  <2>1. fwd' = [fwd EXCEPT !.pc = "wait"] =>
            fwd'.pc = "wait" /\ fwd'.skip = fwd.skip /\ fwd'.skipped = fwd.skipped /\ fwd'.mode = fwd.mode
    BY DEF Forwarders
  <2> QED
    BY <2>1 DEF Dial, At, Goes, Moves
<1>2. Acknowledge => Moves
  <2>1. fwd' = [fwd EXCEPT !.pc = "wait", !.m = 0, !.attempt = 0] =>
            fwd'.pc = "wait" /\ fwd'.skip = fwd.skip /\ fwd'.skipped = fwd.skipped /\ fwd'.mode = fwd.mode
    BY DEF Forwarders
  <2> QED
    BY <2>1 DEF Acknowledge, Moves
<1>3. Lost \/ Unreadable => Moves
  BY EndedMoves DEF Lost, Unreadable, Sent, Goes
<1>5. IdleEnds \/ Stop => Moves
  BY DEF IdleEnds, Stop, Stopped, Goes, Moves
<1>4. ASSUME NEW mode \in {"service", "once", "dry"}, NEW skipping \in BOOLEAN,
             StartForward(mode, skipping)
      PROVE  Moves
  BY <1>4 DEF StartForward, Goes, Stopped, Moves
<1> QED
  BY <1>1, <1>2, <1>3, <1>4, <1>5

LEMMA ReceiveStep ==
    ASSUME fwd \in Forwarders, NEW m \in Messages, Receive(m)
    PROVE  /\ Oldest(m) /\ acks = {} /\ Kinds[m] # "stale"
           /\ UNCHANGED <<relayVars, dead, rep, received, counted, wrong>>
           /\ \/ fwd' = Stopped
              \/ /\ fwd'.m = m /\ fwd'.skip = fwd.skip /\ fwd'.skipped = fwd.skipped /\ fwd'.mode = fwd.mode
                 /\ \/ m \in fwd.skipped /\ fwd'.pc = "ack"
                    \/ m \notin fwd.skipped /\ fwd.skip > 0 /\ fwd'.pc = "letter" /\ fwd'.why = "skipped"
                    \/ /\ m \notin fwd.skipped /\ fwd.skip = 0
                       /\ \/ fwd'.pc = "letter" /\ fwd'.why = "unreadable"
                          \/ fwd'.pc = "ack" /\ Kinds[m] = "presence"
                          \/ fwd'.pc = "post"
<1> DEFINE f == [fwd EXCEPT !.m = m]
<1>1. /\ f \in Forwarders /\ f.m = m /\ f.skip = fwd.skip /\ f.skipped = fwd.skipped
      /\ f.mode = fwd.mode /\ f.skip \in Nat
  BY DEF Forwarders
<1>2. \/ fwd' = Stopped
      \/ m \in fwd.skipped /\ fwd' = [f EXCEPT !.pc = "ack"]
      \/ m \notin fwd.skipped /\ fwd.skip > 0 /\ fwd' = Skip(f)
      \/ m \notin fwd.skipped /\ fwd.skip = 0 /\ fwd' = Handled(f)
  BY <1>1 DEF Receive, Goes
<1> HIDE DEF f
<1>3. /\ Skip(f).pc = "letter" /\ Skip(f).why = "skipped" /\ Skip(f).m = m /\ Skip(f).skip = f.skip
      /\ Skip(f).skipped = f.skipped /\ Skip(f).mode = f.mode
  BY <1>1 DEF Skip, Forwarders
<1>4. /\ Handled(f).m = m /\ Handled(f).skip = f.skip
      /\ Handled(f).skipped = f.skipped /\ Handled(f).mode = f.mode
      /\ \/ Handled(f).pc = "letter" /\ Handled(f).why = "unreadable"
         \/ Handled(f).pc = "ack" /\ Kinds[m] = "presence"
         \/ Handled(f).pc = "post"
  <2>1. CASE Kinds[m] = "garbled"
    BY <1>1, <2>1 DEF Handled, Forwarders
  <2>2. CASE Kinds[m] = "presence"
    BY <1>1, <2>2 DEF Handled, Forwarders
  <2>3. CASE Kinds[m] \notin {"garbled", "presence"}
    BY <1>1, <2>3 DEF Handled, Forwarders
  <2> QED
    BY <2>1, <2>2, <2>3
<1>5. LET g == [f EXCEPT !.pc = "ack"]
      IN  g.pc = "ack" /\ g.m = m /\ g.skip = f.skip /\ g.skipped = f.skipped /\ g.mode = f.mode
  BY <1>1 DEF Forwarders
<1>6. Oldest(m) /\ acks = {} /\ Kinds[m] # "stale" /\ UNCHANGED <<relayVars, dead, rep, received, counted, wrong>>
  BY DEF Receive, Frame, Sent, Goes
<1> QED
  BY <1>1, <1>2, <1>3, <1>4, <1>5, <1>6

LEMMA PostStep ==
    ASSUME fwd \in Forwarders, NEW a \in Answers, Post(a)
    PROVE  /\ fwd.pc = "post" /\ UNCHANGED <<relayVars, dead, rep, counted, wrong>>
           /\ received \subseteq received'
           /\ \/ Moves
              \/ /\ fwd'.m = fwd.m /\ fwd'.skip = fwd.skip /\ fwd'.skipped = fwd.skipped /\ fwd'.mode = fwd.mode
                 /\ \/ fwd'.pc = "ack" /\ fwd.m \in received'
                    \/ fwd'.pc = "letter" /\ fwd'.why = "failed"
                    \/ fwd'.pc = "post"
<1>1. /\ fwd.pc = "post" /\ UNCHANGED <<relayVars, dead, rep, counted, wrong>>
      /\ received \subseteq received'
  BY DEF Post, Goes
<1>2. \/ fwd' = At("ack") /\ fwd.m \in received'
      \/ fwd' = [fwd EXCEPT !.pc = "letter", !.why = "failed"]
      \/ fwd' = Ended
      \/ fwd' = [fwd EXCEPT !.attempt = @ + 1]
  BY DEF Post, Goes, Takes, Answers
<1>3. fwd' = Ended => Moves
  BY <1>1, EndedMoves
<1>4. fwd' = At("ack") =>
          /\ fwd'.pc = "ack" /\ fwd'.m = fwd.m /\ fwd'.skip = fwd.skip
          /\ fwd'.skipped = fwd.skipped /\ fwd'.mode = fwd.mode
  BY DEF At, Forwarders
<1>5. fwd' = [fwd EXCEPT !.pc = "letter", !.why = "failed"] =>
          /\ fwd'.pc = "letter" /\ fwd'.why = "failed" /\ fwd'.m = fwd.m /\ fwd'.skip = fwd.skip
          /\ fwd'.skipped = fwd.skipped /\ fwd'.mode = fwd.mode
  BY DEF Forwarders
<1>6. fwd' = [fwd EXCEPT !.attempt = @ + 1] =>
          /\ fwd'.pc = "post" /\ fwd'.m = fwd.m /\ fwd'.skip = fwd.skip
          /\ fwd'.skipped = fwd.skipped /\ fwd'.mode = fwd.mode
  BY <1>1 DEF Forwarders
<1> QED
  BY <1>1, <1>2, <1>3, <1>4, <1>5, <1>6

LEMMA DeadLetterStep ==
    ASSUME fwd \in Forwarders, DeadLetter
    PROVE  /\ fwd.pc = "letter" /\ UNCHANGED <<relayVars, rep, received, counted, wrong>>
           /\ dead' # dead => FileFree
           /\ \/ Moves /\ dead' \in {dead, Append(dead, Torn)}
              \/ /\ fwd'.pc = "ack" /\ fwd'.m = fwd.m /\ fwd'.mode = fwd.mode
                 /\ \/ fwd.why = "skipped" /\ fwd'.skip = fwd.skip - 1 /\ fwd'.skipped = fwd.skipped \cup {fwd.m}
                    \/ fwd.why # "skipped" /\ fwd'.skip = fwd.skip /\ fwd'.skipped = fwd.skipped
                 /\ \/ Kinds[fwd.m] = "presence" /\ dead' = dead
                    \/ dead' = Append(dead, Record(fwd.m, fwd.why))
<1>1. fwd' = Ended => Moves
  BY EndedMoves DEF DeadLetter
<1>2. /\ Dealt.pc = "ack" /\ Dealt.m = fwd.m /\ Dealt.mode = fwd.mode
      /\ \/ fwd.why = "skipped" /\ Dealt.skip = fwd.skip - 1 /\ Dealt.skipped = fwd.skipped \cup {fwd.m}
         \/ fwd.why # "skipped" /\ Dealt.skip = fwd.skip /\ Dealt.skipped = fwd.skipped
  <2>1. CASE fwd.why = "skipped"
    BY <2>1 DEF Dealt, Forwarders
  <2>2. CASE fwd.why # "skipped"
    BY <2>2 DEF Dealt, At, Forwarders
  <2> QED
    BY <2>1, <2>2
<1>3. fwd.pc = "letter" /\ UNCHANGED <<relayVars, rep, received, counted, wrong>> /\ (dead' # dead => FileFree)
  BY DEF DeadLetter, Goes
<1>4. \/ fwd' = Dealt /\ dead' = dead /\ Kinds[fwd.m] = "presence"
      \/ fwd' = Dealt /\ dead' = Append(dead, Record(fwd.m, fwd.why))
      \/ fwd' = Ended /\ dead' \in {dead, Append(dead, Torn)}
  BY DEF DeadLetter, Goes
<1> QED
  BY <1>1, <1>2, <1>3, <1>4

\* The steps that touch neither the file nor what the webhook has.
Elsewhere ==
    \/ Arrive \/ Discard \/ TakeAck \/ LoseAck \/ Break
    \/ RelayQueued \/ Dial \/ (\E m \in Messages : Receive(m)) \/ Lost \/ Unreadable \/ IdleEnds \/ Acknowledge
    \/ \E mode \in {"service", "once", "dry"}, skipping \in BOOLEAN : StartForward(mode, skipping)
    \/ (\E all \in BOOLEAN : ReplayStarts(all)) \/ ReplayReads \/ ReplayEnds
    \/ UNCHANGED vars

LEMMA Steps ==
    ASSUME [Next]_vars
    PROVE  \/ Elsewhere \/ (\E a \in Answers : Post(a)) \/ DeadLetter \/ Stop
           \/ (\E a \in Answers : ReplayPosts(a)) \/ ReplayRewrites
BY DEF Next, Delivering, Replaying, Elsewhere

LEMMA ElsewhereKeeps == Elsewhere => UNCHANGED <<dead, received>>
<1>1. Arrive \/ Discard \/ TakeAck \/ LoseAck \/ Break => UNCHANGED <<dead, received>>
  BY DEF Arrive, Discard, TakeAck, LoseAck, Break, RelayOnly
<1>2. RelayQueued \/ Dial \/ (\E m \in Messages : Receive(m)) \/ Lost \/ Unreadable \/ IdleEnds \/ Acknowledge
      => UNCHANGED <<dead, received>>
  BY DEF RelayQueued, Dial, Receive, Lost, Unreadable, IdleEnds, Acknowledge
<1>3. (\E mode \in {"service", "once", "dry"}, skipping \in BOOLEAN : StartForward(mode, skipping))
      => UNCHANGED <<dead, received>>
  BY DEF StartForward
<1>4. (\E all \in BOOLEAN : ReplayStarts(all)) \/ ReplayReads \/ ReplayEnds => UNCHANGED <<dead, received>>
  BY DEF ReplayStarts, ReplayReads, ReplayEnds
<1>5. UNCHANGED vars => UNCHANGED <<dead, received>>
  BY DEF vars
<1> QED
  BY <1>1, <1>2, <1>3, <1>4, <1>5 DEF Elsewhere

LEMMA ReceivedGrows == [Next]_vars => received \subseteq received'
<1>1. Elsewhere => received \subseteq received'
  BY ElsewhereKeeps
<1>2. ASSUME NEW a \in Answers, Post(a)
      PROVE  received \subseteq received'
  BY <1>2 DEF Post
<1>3. DeadLetter \/ Stop => received \subseteq received'
  BY DEF DeadLetter, Stop
<1>4. ASSUME NEW a \in Answers, ReplayPosts(a)
      PROVE  received \subseteq received'
  BY <1>4 DEF ReplayPosts
<1>5. ReplayRewrites => received \subseteq received'
  BY DEF ReplayRewrites
<1> QED
  BY <1>1, <1>2, <1>3, <1>4, <1>5, Steps

\* Recording appends.
LEMMA FileGrows ==
    ASSUME TypeOK, DeadLetter
    PROVE  /\ Len(dead) \in Nat /\ Len(dead') \in Nat /\ Len(dead') >= Len(dead)
           /\ \A i \in 1 .. Len(dead) : dead'[i] = dead[i]
           /\ \A i \in 1 .. Len(dead') :
                 i \in 1 .. Len(dead) \/ dead'[i] \in {Torn, Record(fwd.m, fwd.why)}
<1>1. dead \in Seq(Letters) /\ fwd \in Forwarders /\ fwd.m \in Messages \cup {0} /\ fwd.why \in Reasons
  BY DEF TypeOK, Forwarders
<1>2. "torn" \in Reasons
  BY DEF Reasons
<1>3. dead' \in {dead, Append(dead, Torn), Append(dead, Record(fwd.m, fwd.why))}
  BY DEF DeadLetter
<1>4. CASE dead' = dead
  BY <1>1, <1>4
<1>5. CASE dead' = Append(dead, Torn)
  BY <1>1, <1>2, <1>5, LettersAppend DEF Torn
<1>6. CASE dead' = Append(dead, Record(fwd.m, fwd.why))
  BY <1>1, <1>6, LettersAppend
<1> QED
  BY <1>3, <1>4, <1>5, <1>6

\* What is settled stays settled.
LEMMA SettledStays ==
    ASSUME IInv, [Next]_vars, NEW m, Settled(m)
    PROVE  Settled(m)'
<1>1. received \subseteq received'
  BY ReceivedGrows
<1>2. CASE dead' = dead
  BY <1>1, <1>2 DEF Settled
<1>3. CASE DeadLetter
  BY <1>1, <1>3, FileGrows DEF Settled, IInv
<1>4. CASE ReplayRewrites
  <2>1. \A i \in 1 .. Len(dead) :
            dead[i].m \in received \/ \E j \in 1 .. Len(dead') : dead'[j] = dead[i]
    BY <1>4 DEF ReplayRewrites, IInv, ReplayKeeps
  <2> QED
    BY <1>1, <2>1 DEF Settled
<1>5. (\E a \in Answers : Post(a)) \/ Stop \/ (\E a \in Answers : ReplayPosts(a)) => dead' = dead
  BY DEF Post, Stop, ReplayPosts
<1> QED
  BY <1>2, <1>3, <1>4, <1>5, Steps, ElsewhereKeeps

-----------------------------------------------------------------------------
(* Nothing is lost. *)

LEMMA QueueKeeps ==
    ASSUME IInv, [Next]_vars
    PROVE  \/ Arrive \/ Discard \/ TakeAck
           \/ UNCHANGED <<arrived, spool>>
<1>1. LoseAck \/ Break \/ RelayQueued \/ Dial \/ Lost \/ Unreadable \/ IdleEnds \/ Acknowledge \/ Stop \/ DeadLetter
      => UNCHANGED <<arrived, spool>>
  BY DEF LoseAck, Break, RelayQueued, Dial, Lost, Unreadable, IdleEnds, Acknowledge, Stop, DeadLetter, Goes, relayVars
<1>2. (\E m \in Messages : Receive(m)) \/ (\E a \in Answers : Post(a)) => UNCHANGED <<arrived, spool>>
  BY DEF Receive, Post, Goes, relayVars
<1>3. (\E mode \in {"service", "once", "dry"}, skipping \in BOOLEAN : StartForward(mode, skipping))
      => UNCHANGED <<arrived, spool>>
  BY DEF StartForward, Goes, relayVars
<1>4. Replaying \/ (\E all \in BOOLEAN : ReplayStarts(all)) => UNCHANGED <<arrived, spool>>
  BY DEF Replaying, ReplayStarts, ReplayPosts, ReplayReads, ReplayRewrites, ReplayEnds, ReplayOnly, relayVars
<1>5. UNCHANGED vars => UNCHANGED <<arrived, spool>>
  BY DEF vars, relayVars
<1> QED
  BY <1>1, <1>2, <1>3, <1>4, <1>5 DEF Next, Delivering

LEMMA NothingIsLostStep == IInv /\ [Next]_vars => NothingIsLost'
<1> SUFFICES ASSUME IInv, [Next]_vars
             PROVE  NothingIsLost'
  OBVIOUS
<1>1. /\ arrived \in Nat /\ \A m \in 1 .. arrived : m \in spool \/ Settled(m)
      /\ \A m \in acks : Settled(m)
  BY KindsOf DEF IInv, TypeOK, NothingIsLost, AcksAreSettled
<1>2. \A m : Settled(m) => Settled(m)'
  BY SettledStays
<1>3. CASE Arrive
  <2>1. arrived' = arrived + 1 /\ spool' = spool \cup {arrived + 1}
    BY <1>3 DEF Arrive
  <2> QED
    BY <1>1, <1>2, <2>1 DEF NothingIsLost
<1>4. CASE Discard
  <2>1. PICK n \in Messages : Kinds[n] = "stale" /\ spool' = spool \ {n}
    BY <1>4 DEF Discard
  <2>2. arrived' = arrived
    BY <1>4 DEF Discard
  <2>3. Settled(n)
    BY <2>1 DEF Settled
  <2> QED
    BY <1>1, <1>2, <2>1, <2>2, <2>3 DEF NothingIsLost
<1>5. CASE TakeAck
  <2>1. spool' = spool \ acks /\ arrived' = arrived
    BY <1>5 DEF TakeAck
  <2> QED
    BY <1>1, <1>2, <2>1 DEF NothingIsLost
<1>6. CASE UNCHANGED <<arrived, spool>>
  BY <1>1, <1>2, <1>6 DEF NothingIsLost
<1> QED
  BY <1>3, <1>4, <1>5, <1>6, QueueKeeps

\* The steps that change neither the forwarder nor what it sent.
LEMMA AwayFromForwarder ==
    ASSUME [Next]_vars
    PROVE  \/ UNCHANGED <<fwd, acks, counted, wrong>>
           \/ fwd' = fwd /\ counted' = counted /\ wrong' = wrong /\ acks' = {}
           \/ RelayQueued \/ (\E m \in Messages : Receive(m)) \/ (\E a \in Answers : Post(a)) \/ DeadLetter
           \/ Acknowledge
           \/ /\ \/ Dial \/ Lost \/ Unreadable \/ IdleEnds \/ Stop
                 \/ \E mode \in {"service", "once", "dry"}, skipping \in BOOLEAN : StartForward(mode, skipping)
              /\ UNCHANGED <<relayVars, counted, wrong>>
<1>1. TakeAck \/ LoseAck => fwd' = fwd /\ counted' = counted /\ wrong' = wrong /\ acks' = {}
  BY DEF TakeAck, LoseAck, RelayOnly
<1>2. Arrive \/ Discard \/ Break => UNCHANGED <<fwd, acks, counted, wrong>>
  BY DEF Arrive, Discard, Break, RelayOnly, relayVars
<1>3. Dial \/ Lost \/ Unreadable \/ IdleEnds \/ Stop => UNCHANGED <<relayVars, counted, wrong>>
  BY DEF Dial, Lost, Unreadable, IdleEnds, Stop, Goes
<1>4. (\E mode \in {"service", "once", "dry"}, skipping \in BOOLEAN : StartForward(mode, skipping))
      => UNCHANGED <<relayVars, counted, wrong>>
  BY DEF StartForward, Goes
<1>5. Replaying \/ (\E all \in BOOLEAN : ReplayStarts(all)) => UNCHANGED <<fwd, acks, counted, wrong>>
  BY DEF Replaying, ReplayStarts, ReplayPosts, ReplayReads, ReplayRewrites, ReplayEnds, ReplayOnly, relayVars
<1>6. UNCHANGED vars => UNCHANGED <<fwd, acks, counted, wrong>>
  BY DEF vars, relayVars
<1> QED
  BY <1>1, <1>2, <1>3, <1>4, <1>5, <1>6 DEF Next, Delivering

LEMMA AcksAreSettledStep == IInv /\ [Next]_vars => AcksAreSettled'
<1> SUFFICES ASSUME IInv, [Next]_vars
             PROVE  AcksAreSettled'
  OBVIOUS
<1>0. fwd \in Forwarders /\ AcksAreSettled /\ TypeOK
  BY DEF IInv, TypeOK
<1>1. \A m : Settled(m) => Settled(m)'
  BY SettledStays
<1>2. CASE fwd' = fwd /\ (acks' = acks \/ acks' = {})
  BY <1>0, <1>1, <1>2 DEF AcksAreSettled
<1>3. CASE RelayQueued
  <2>1. acks' = acks /\ fwd'.pc = "dial" /\ fwd'.skipped = fwd.skipped
    BY <1>0, <1>3 DEF RelayQueued, relayVars, Forwarders
  <2> QED
    BY <1>0, <1>1, <2>1 DEF AcksAreSettled
<1>4. ASSUME NEW m \in Messages, Receive(m)
      PROVE  AcksAreSettled'
  <2>1. acks' = acks
    BY <1>0, <1>4, ReceiveStep DEF relayVars
  <2>2. CASE fwd' = Stopped
    BY <1>0, <1>1, <2>1, <2>2 DEF AcksAreSettled, Stopped
  <2>3. CASE fwd' # Stopped
    <3>1. fwd'.m = m /\ fwd'.skipped = fwd.skipped
      BY <1>0, <1>4, <2>3, ReceiveStep
    <3>2. fwd'.pc = "ack" => m \in fwd.skipped \/ Kinds[m] = "presence"
      BY <1>0, <1>4, <2>3, ReceiveStep
    <3>3. fwd'.pc = "ack" => Settled(m)
      BY <1>0, <3>2 DEF AcksAreSettled, Settled
    <3> QED
      BY <1>0, <1>1, <2>1, <3>1, <3>3 DEF AcksAreSettled
  <2> QED
    BY <2>2, <2>3
<1>5. ASSUME NEW a \in Answers, Post(a)
      PROVE  AcksAreSettled'
  <2>1. acks' = acks
    BY <1>0, <1>5, PostStep DEF relayVars
  <2>2. CASE Moves
    BY <1>0, <1>1, <2>1, <2>2 DEF AcksAreSettled, Moves
  <2>3. CASE ~Moves
    <3>1. fwd'.m = fwd.m /\ fwd'.skipped = fwd.skipped /\ (fwd'.pc = "ack" => fwd.m \in received')
      BY <1>0, <1>5, <2>3, PostStep
    <3>2. fwd'.pc = "ack" => Settled(fwd.m)'
      BY <3>1 DEF Settled
    <3> QED
      BY <1>0, <1>1, <2>1, <3>1, <3>2 DEF AcksAreSettled
  <2> QED
    BY <2>2, <2>3
<1>6. CASE DeadLetter
  <2>1. acks' = acks
    BY <1>0, <1>6, DeadLetterStep DEF relayVars
  <2>2. CASE Moves
    BY <1>0, <1>1, <2>1, <2>2 DEF AcksAreSettled, Moves
  <2>3. CASE ~Moves
    <3>1. /\ fwd'.m = fwd.m /\ fwd'.skipped \subseteq fwd.skipped \cup {fwd.m}
          /\ Kinds[fwd.m] = "presence" \/ dead' = Append(dead, Record(fwd.m, fwd.why))
      BY <1>0, <1>6, <2>3, DeadLetterStep
    <3>2. Settled(fwd.m)'
      <4>1. CASE Kinds[fwd.m] = "presence"
        BY <3>1, <4>1 DEF Settled
      <4>2. CASE dead' = Append(dead, Record(fwd.m, fwd.why))
        <5>1. dead \in Seq(Letters) /\ fwd.m \in Messages \cup {0} /\ fwd.why \in Reasons
          BY <1>0 DEF TypeOK, Forwarders
        <5>2. Len(dead) + 1 \in 1 .. Len(dead') /\ dead'[Len(dead) + 1].m = fwd.m
          BY <4>2, <5>1, LettersAppend DEF Record
        <5>3. fwd'.m = fwd.m
          BY <3>1
        <5> QED
          BY <3>1, <5>2, <5>3 DEF Settled
      <4> QED
        BY <3>1, <4>1, <4>2
    <3> QED
      BY <1>0, <1>1, <2>1, <3>1, <3>2 DEF AcksAreSettled
  <2> QED
    BY <2>2, <2>3
<1>7. CASE Acknowledge
  <2>1. acks' = {fwd.m} /\ Settled(fwd.m)
    BY <1>0, <1>7 DEF Acknowledge, AcksAreSettled
  <2>2. Moves
    BY <1>0, <1>7, MovingStep
  <2> QED
    BY <1>0, <1>1, <2>1, <2>2 DEF AcksAreSettled, Moves
<1>8. CASE /\ \/ Dial \/ Lost \/ Unreadable \/ IdleEnds \/ Stop
              \/ \E mode \in {"service", "once", "dry"}, skipping \in BOOLEAN : StartForward(mode, skipping)
           /\ UNCHANGED <<relayVars, counted, wrong>>
  <2>1. acks' = acks /\ Moves
    BY <1>0, <1>8, MovingStep DEF relayVars
  <2> QED
    BY <1>0, <1>1, <2>1 DEF AcksAreSettled, Moves
<1> QED
  BY <1>2, <1>3, <1>4, <1>5, <1>6, <1>7, <1>8, AwayFromForwarder

LEMMA HandIsOldestStep == IInv /\ [Next]_vars => HandIsOldest'
<1> SUFFICES ASSUME IInv, [Next]_vars
             PROVE  HandIsOldest'
  OBVIOUS
<1>0. fwd \in Forwarders /\ HandIsOldest /\ TypeOK
  BY DEF IInv, TypeOK
<1>1. CASE Arrive
  <2>1. UNCHANGED <<fwd, acks>> /\ spool' = spool \cup {arrived + 1}
    BY <1>1 DEF Arrive, RelayOnly
  <2>2. arrived \in Nat /\ spool \subseteq 1 .. arrived
    BY <1>0, KindsOf DEF TypeOK
  <2>3. ASSUME Handling
        PROVE  Oldest(fwd.m)' /\ acks' = {} /\ Kinds[fwd.m] # "stale"
    <3>1. fwd.m \in spool /\ (\A n \in spool : fwd.m <= n) /\ acks = {} /\ Kinds[fwd.m] # "stale"
      BY <1>0, <2>3 DEF HandIsOldest, Oldest
    <3>3. fwd.m \in 1 .. arrived
      BY <2>2, <3>1
    <3>2. fwd.m \in Nat /\ fwd.m <= arrived + 1
      BY <2>2, <3>3
    <3> QED
      BY <2>1, <3>1, <3>2 DEF Oldest
  <2> QED
    BY <2>1, <2>3 DEF HandIsOldest, Handling
<1>2. CASE Discard
  <2>1. PICK n \in Messages : Oldest(n) /\ Kinds[n] = "stale" /\ spool' = spool \ {n}
    BY <1>2 DEF Discard
  <2>2. UNCHANGED <<fwd, acks>>
    BY <1>2 DEF Discard, RelayOnly
  <2>3. \A m : Oldest(m) => m = n
    BY <1>0, <2>1, KindsOf DEF Oldest, TypeOK
  <2>4. ~Handling
    BY <1>0, <2>1, <2>3 DEF HandIsOldest
  <2> QED
    BY <2>2, <2>4 DEF HandIsOldest, Handling
<1>3. CASE TakeAck
  BY <1>0, <1>3 DEF TakeAck, RelayOnly, HandIsOldest, Handling
<1>4. CASE UNCHANGED <<arrived, spool>> /\ UNCHANGED <<fwd, acks, counted, wrong>>
  BY <1>0, <1>4 DEF HandIsOldest, Handling, Oldest
<1>5. CASE UNCHANGED <<arrived, spool>> /\ fwd' = fwd /\ acks' = {}
  BY <1>0, <1>5 DEF HandIsOldest, Handling, Oldest
<1>6. CASE RelayQueued
  <2>1. fwd'.pc = "dial"
    BY <1>0, <1>6 DEF RelayQueued, Forwarders
  <2> QED
    BY <2>1 DEF HandIsOldest, Handling
<1>7. ASSUME NEW m \in Messages, Receive(m)
      PROVE  HandIsOldest'
  <2>1. Oldest(m) /\ acks = {} /\ Kinds[m] # "stale" /\ UNCHANGED relayVars
    BY <1>0, <1>7, ReceiveStep
  <2>2. fwd' = Stopped \/ fwd'.m = m
    BY <1>0, <1>7, ReceiveStep
  <2>3. Stopped.pc = "off"
    BY DEF Stopped
  <2> QED
    BY <2>1, <2>2, <2>3 DEF HandIsOldest, Handling, Oldest, relayVars
<1>8. ASSUME NEW a \in Answers, Post(a)
      PROVE  HandIsOldest'
  <2>1. fwd.pc = "post" /\ UNCHANGED relayVars /\ (Moves \/ fwd'.m = fwd.m)
    BY <1>0, <1>8, PostStep
  <2> QED
    BY <1>0, <2>1 DEF HandIsOldest, Handling, Oldest, relayVars, Moves
<1>9. CASE DeadLetter
  <2>1. fwd.pc = "letter" /\ UNCHANGED relayVars /\ (Moves \/ fwd'.m = fwd.m)
    BY <1>0, <1>9, DeadLetterStep
  <2> QED
    BY <1>0, <2>1 DEF HandIsOldest, Handling, Oldest, relayVars, Moves
<1>10. CASE \/ Dial \/ Lost \/ Unreadable \/ IdleEnds \/ Acknowledge \/ Stop
            \/ \E mode \in {"service", "once", "dry"}, skipping \in BOOLEAN : StartForward(mode, skipping)
  <2>1. Moves
    BY <1>0, <1>10, MovingStep
  <2> QED
    BY <2>1 DEF HandIsOldest, Handling, Moves
<1> QED
  BY <1>1, <1>2, <1>3, <1>4, <1>5, <1>6, <1>7, <1>8, <1>9, <1>10, AwayFromForwarder, QueueKeeps

LEMMA ReplayKeepsStep == IInv /\ [Next]_vars => ReplayKeeps'
<1> SUFFICES ASSUME IInv, [Next]_vars
             PROVE  ReplayKeeps'
  OBVIOUS
<1>0. /\ TypeOK /\ ReplayKeeps /\ fwd \in Forwarders /\ rep \in Replays /\ dead \in Seq(Letters)
      /\ rep.at \in Nat /\ rep.lines \in Seq(Letters)
  BY DEF IInv, TypeOK, Replays
<1>1. received \subseteq received'
  BY ReceivedGrows
<1>2. CASE UNCHANGED <<rep, dead>>
  BY <1>0, <1>1, <1>2 DEF ReplayKeeps
<1>3. CASE DeadLetter
  <2>1. UNCHANGED <<rep, received>> /\ (dead' = dead \/ rep.pc # "rewrite")
    BY <1>0, <1>3, DeadLetterStep DEF FileFree
  <2> QED
    BY <1>0, <2>1 DEF ReplayKeeps
<1>4. ASSUME NEW all \in BOOLEAN, ReplayStarts(all)
      PROVE  ReplayKeeps'
  BY <1>4 DEF ReplayStarts, NoReplay, ReplayKeeps
<1>5. ASSUME NEW a \in Answers, ReplayPosts(a)
      PROVE  ReplayKeeps'
  <2>1. /\ rep.pc = "run" /\ rep.at <= Len(rep.lines) /\ rep.at >= 1
    BY <1>0, <1>5 DEF ReplayPosts, ReplayKeeps
  <2>2. \/ rep' = [rep EXCEPT !.pc = "remove"] /\ rep.lines[rep.at].m \in received'
        \/ rep' = [rep EXCEPT !.at = @ + 1]
    BY <1>5 DEF ReplayPosts, Takes
  <2>3. CASE rep' = [rep EXCEPT !.pc = "remove"] /\ rep.lines[rep.at].m \in received'
    <3>1. rep'.pc = "remove" /\ rep'.at = rep.at /\ rep'.lines = rep.lines
      BY <1>0, <2>3 DEF Replays
    <3> QED
      BY <2>1, <2>3, <3>1 DEF ReplayKeeps
  <2>4. CASE rep' = [rep EXCEPT !.at = @ + 1]
    <3>1. rep'.pc = "run" /\ rep'.at = rep.at + 1
      BY <1>0, <2>1, <2>4 DEF Replays
    <3> QED
      BY <1>0, <3>1 DEF ReplayKeeps
  <2> QED
    BY <2>2, <2>3, <2>4
<1>6. CASE ReplayReads
  <2>1. /\ rep.pc = "remove" /\ rep.at >= 1 /\ rep.at <= Len(rep.lines)
        /\ rep.lines[rep.at].m \in received
    BY <1>0, <1>6 DEF ReplayReads, ReplayKeeps
  <2>2. CASE rep' = [rep EXCEPT !.pc = "run", !.at = @ + 1]
    <3>1. rep'.pc = "run" /\ rep'.at = rep.at + 1
      BY <1>0, <2>2 DEF Replays
    <3> QED
      BY <1>0, <3>1 DEF ReplayKeeps
  <2>3. ASSUME NEW i \in 1 .. Len(dead), dead[i] = rep.lines[rep.at],
               rep' = [rep EXCEPT !.pc = "rewrite", !.kept = Without(dead, i)]
        PROVE  ReplayKeeps'
    <3>1. /\ rep'.pc = "rewrite" /\ rep'.at = rep.at /\ rep'.lines = rep.lines
          /\ rep'.kept = Without(dead, i)
      BY <1>0, <2>3 DEF Replays
    <3>2. dead' = dead
      BY <1>6 DEF ReplayReads
    <3>4. /\ \A j \in 1 .. Len(dead) : j # i => \E k \in 1 .. Len(rep'.kept) : rep'.kept[k] = dead[j]
          /\ \A k \in 1 .. Len(rep'.kept) : \E j \in 1 .. Len(dead) : dead[j] = rep'.kept[k]
      BY <1>0, <3>1, WithoutOne
    <3>5. dead[i].m \in received'
      BY <1>1, <2>1, <2>3
    <3>3. /\ \A j \in 1 .. Len(dead) :
                dead[j].m \in received' \/ \E k \in 1 .. Len(rep'.kept) : rep'.kept[k] = dead[j]
          /\ \A k \in 1 .. Len(rep'.kept) : \E j \in 1 .. Len(dead) : dead[j] = rep'.kept[k]
      BY <3>4, <3>5
    <3> QED
      BY <1>1, <2>1, <3>1, <3>2, <3>3 DEF ReplayKeeps
  <2> QED
    BY <1>6, <2>2, <2>3 DEF ReplayReads
<1>7. CASE ReplayRewrites
  <2>1. rep' = [rep EXCEPT !.pc = "run", !.at = @ + 1, !.kept = <<>>]
    BY <1>7 DEF ReplayRewrites
  <2>2. rep'.pc = "run" /\ rep'.at = rep.at + 1
    BY <1>0, <2>1 DEF Replays
  <2> QED
    BY <1>0, <2>2 DEF ReplayKeeps
<1>8. CASE ReplayEnds
  BY <1>8 DEF ReplayEnds, NoReplay, ReplayKeeps
<1> QED
  <2>1. Arrive \/ Discard \/ TakeAck \/ LoseAck \/ Break => UNCHANGED <<rep, dead>>
    BY DEF Arrive, Discard, TakeAck, LoseAck, Break, RelayOnly
  <2>2. RelayQueued \/ Dial \/ (\E m \in Messages : Receive(m)) \/ Lost \/ Unreadable \/ IdleEnds \/ Acknowledge
        => UNCHANGED <<rep, dead>>
    BY DEF RelayQueued, Dial, Receive, Lost, Unreadable, IdleEnds, Acknowledge, Goes
  <2>3. (\E a \in Answers : Post(a)) \/ Stop => UNCHANGED <<rep, dead>>
    BY DEF Post, Stop, Goes
  <2>4. (\E mode \in {"service", "once", "dry"}, skipping \in BOOLEAN : StartForward(mode, skipping))
        => UNCHANGED <<rep, dead>>
    BY DEF StartForward, Goes
  <2>5. UNCHANGED vars => UNCHANGED <<rep, dead>>
    BY DEF vars
  <2> QED
    BY <1>2, <1>3, <1>4, <1>5, <1>6, <1>7, <1>8, <2>1, <2>2, <2>3, <2>4, <2>5
    DEF Next, Delivering, Replaying

-----------------------------------------------------------------------------
(* The count of --skip-queued. *)

LEMMA UnskippedIsFinite ==
    ASSUME TypeOK
    PROVE  IsFiniteSet(Unskipped) /\ Cardinality(Unskipped) \in Nat
<1>1. Unskipped \subseteq spool
  BY DEF Unskipped
<1> QED
  BY <1>1, QueueIsFinite, FS_Subset, FS_CardinalityType

\* The count still fits what is left of the backlog.
Fits ==
    /\ UNCHANGED <<counted, wrong>>
    /\ fwd'.skip = fwd.skip /\ fwd'.skipped = fwd.skipped /\ fwd'.mode = fwd.mode /\ fwd'.pc # "count"
    /\ Unskipped' \subseteq Unskipped
    /\ fwd.skip > 0 /\ ~wrong => Unskipped' = Unskipped

LEMMA FittingStep ==
    ASSUME IInv, Fits
    PROVE  CountsTheBacklog'
<1>1. /\ CountsTheBacklog /\ fwd.skip \in Nat
      /\ IsFiniteSet(Unskipped) /\ Cardinality(Unskipped) \in Nat
  BY UnskippedIsFinite DEF IInv, SkipCounts, TypeOK, Forwarders
<1>2. IsFiniteSet(Unskipped') /\ Cardinality(Unskipped') \in Nat
      /\ Cardinality(Unskipped') <= Cardinality(Unskipped)
  BY <1>1, FS_Subset, FS_CardinalityType DEF Fits
<1>3. Cardinality(Unskipped)' = Cardinality(Unskipped')
  OBVIOUS
<1>4. CASE fwd.skip = 0 /\ fwd.skipped = {}
  BY <1>4 DEF Fits, CountsTheBacklog
<1>5. CASE fwd.skip > 0 \/ fwd.skipped # {}
  <2>1. fwd.mode # "dry" /\ fwd.skip >= Cardinality(Unskipped) /\ (~wrong => fwd.skip = Cardinality(Unskipped))
    BY <1>1, <1>5 DEF CountsTheBacklog
  <2>2. ~wrong => Cardinality(Unskipped') = Cardinality(Unskipped)
    <3>1. CASE fwd.skip > 0
      BY <3>1 DEF Fits
    <3>2. CASE fwd.skip = 0
      BY <1>1, <1>2, <2>1, <3>2
    <3> QED
      BY <1>1, <3>1, <3>2
  <2> QED
    BY <1>1, <1>2, <2>1, <2>2 DEF Fits, CountsTheBacklog
<1> QED
  BY <1>1, <1>4, <1>5

\* A step that leaves the queue alone, and the forwarder's part of the count.
LEMMA SameCount ==
    ASSUME spool' = spool, UNCHANGED <<counted, wrong>>, fwd'.skip = fwd.skip,
           fwd'.skipped = fwd.skipped, fwd'.mode = fwd.mode, fwd'.pc # "count"
    PROVE  Fits
BY DEF Fits, Unskipped

LEMMA NoCount ==
    ASSUME fwd'.skip = 0, fwd'.skipped = {}
    PROVE  CountsTheBacklog' /\ CountsWhatIsSent'
BY DEF CountsTheBacklog, CountsWhatIsSent

LEMMA MovingKeepsCount ==
    ASSUME IInv, Moves, spool' = spool, UNCHANGED <<counted, wrong>>
    PROVE  CountsTheBacklog' /\ SkipsFirst'
<1>1. SkipsFirst'
  BY DEF Moves, SkipsFirst
<1>2. CountsTheBacklog'
  BY SameCount, FittingStep, NoCount DEF Moves
<1> QED
  BY <1>1, <1>2

\* The relay loses nothing it counted.
LEMMA QueueStepFits ==
    ASSUME IInv, fwd.pc # "count", UNCHANGED <<fwd, counted, wrong>>, Arrive \/ Discard \/ TakeAck
    PROVE  Fits
<1>1. /\ CountsWhatIsSent /\ arrived \in Nat /\ counted \in Nat /\ counted <= arrived
      /\ spool \subseteq 1 .. arrived
  BY KindsOf DEF IInv, SkipCounts, TypeOK
<1>2. CASE Arrive
  <2>1. spool' = spool \cup {arrived + 1}
    BY <1>2 DEF Arrive
  <2>2. Unskipped' = Unskipped
    BY <1>1, <2>1 DEF Unskipped
  <2> QED
    BY <2>2 DEF Fits
<1>3. CASE Discard
  <2>1. PICK n \in Messages : Kinds[n] = "stale" /\ spool' = spool \ {n}
    BY <1>3 DEF Discard
  <2>2. Unskipped' \subseteq Unskipped
    BY <2>1 DEF Unskipped
  <2>3. fwd.skip > 0 /\ ~wrong => Unskipped' = Unskipped
    BY <1>1, <2>1 DEF Unskipped, CountsWhatIsSent
  <2> QED
    BY <2>2, <2>3 DEF Fits
<1>4. CASE TakeAck
  <2>1. spool' = spool \ acks
    BY <1>4 DEF TakeAck
  <2>2. Unskipped' \subseteq Unskipped
    BY <2>1 DEF Unskipped
  <2>3. fwd.skip > 0 /\ ~wrong => Unskipped' = Unskipped
    BY <1>1, <2>1 DEF Unskipped, CountsWhatIsSent
  <2> QED
    BY <2>2, <2>3 DEF Fits
<1> QED
  BY <1>2, <1>3, <1>4

\* The message dealt with was part of the backlog, if there is any left: it
\* is the oldest.
LEMMA SkippedIsOldest ==
    ASSUME IInv, fwd.pc = "letter", fwd.skip > 0
    PROVE  /\ fwd.m \in Unskipped \/ Unskipped = {}
           /\ ~wrong => fwd.m \in Unskipped
<1>1. /\ fwd.m \in spool /\ (\A n \in spool : fwd.m <= n) /\ fwd.m \notin fwd.skipped
  BY DEF IInv, HandIsOldest, Handling, Oldest, SkipCounts, SkipsFirst
<1>2. spool \subseteq Nat /\ counted \in Nat
  <2>1. arrived \in Nat /\ spool \subseteq 1 .. arrived /\ counted \in 0 .. arrived
    BY KindsOf DEF IInv, TypeOK
  <2> QED
    BY <2>1
<1>3. fwd.m \in Unskipped \/ Unskipped = {}
  <2>1. CASE fwd.m <= counted
    BY <1>1, <2>1 DEF Unskipped
  <2>2. CASE ~(fwd.m <= counted)
    <3>1. ASSUME NEW n \in spool
          PROVE  ~(n <= counted)
      <4>1. fwd.m \in Nat /\ n \in Nat /\ fwd.m <= n
        BY <1>1, <1>2
      <4> QED
        BY <1>2, <2>2, <4>1
    <3> QED
      BY <3>1 DEF Unskipped
  <2> QED
    BY <2>1, <2>2
<1>4. ~wrong => fwd.skip = Cardinality(Unskipped)
  BY DEF IInv, SkipCounts, CountsTheBacklog
<1>5. Cardinality({}) = 0
  BY FS_EmptySet
<1> QED
  BY <1>3, <1>4, <1>5

LEMMA CountsTheBacklogStep == IInv /\ [Next]_vars => CountsTheBacklog'
<1> SUFFICES ASSUME IInv, [Next]_vars
             PROVE  CountsTheBacklog'
  OBVIOUS
<1>0. fwd \in Forwarders /\ TypeOK /\ CountsTheBacklog /\ SkipsFirst /\ fwd.skip \in Nat
  BY DEF IInv, TypeOK, SkipCounts, Forwarders
<1>1. CASE UNCHANGED <<fwd, counted, wrong>>
  <2>1. CASE fwd.pc = "count"
    BY <1>0, <1>1, <2>1 DEF CountsTheBacklog
  <2>2. CASE fwd.pc # "count" /\ (Arrive \/ Discard \/ TakeAck)
    BY <1>1, <2>2, QueueStepFits, FittingStep
  <2>3. CASE fwd.pc # "count" /\ spool' = spool
    BY <1>1, <2>3, SameCount, FittingStep
  <2> QED
    BY <2>1, <2>2, <2>3, QueueKeeps
<1>2. CASE RelayQueued
  <2>1. /\ fwd.pc = "count" /\ fwd'.pc = "dial" /\ fwd'.mode = fwd.mode /\ fwd'.skipped = fwd.skipped
        /\ fwd'.skip = Cardinality(spool) /\ counted' = arrived /\ spool' = spool
    BY <1>0, <1>2 DEF RelayQueued, relayVars, Forwarders
  <2>2. fwd.skipped = {} /\ fwd.mode # "dry"
    BY <1>0, <2>1 DEF CountsTheBacklog, SkipsFirst
  <2>3. spool \subseteq 1 .. arrived /\ arrived \in Nat
    BY <1>0, KindsOf DEF TypeOK
  <2>4. Unskipped' = spool
    <3>1. \A m \in spool : m <= arrived  BY <2>3
    <3>2. \A m \in spool' : m \in spool /\ m <= counted' /\ m \notin fwd'.skipped
      BY <2>1, <2>2, <3>1
    <3> QED  BY <2>1, <3>2 DEF Unskipped
  <2>5. Cardinality(Unskipped)' = fwd'.skip /\ fwd'.skip \in Nat
    BY <1>0, <2>1, <2>4, QueueIsFinite
  <2> QED
    BY <2>1, <2>2, <2>5 DEF CountsTheBacklog
<1>3. ASSUME NEW m \in Messages, Receive(m)
      PROVE  CountsTheBacklog'
  <2>1. UNCHANGED <<relayVars, counted, wrong>>
    BY <1>0, <1>3, ReceiveStep
  <2>2. CASE fwd' = Stopped
    BY <2>2, NoCount DEF Stopped
  <2>3. CASE fwd' # Stopped
    <3>1. /\ fwd'.skip = fwd.skip /\ fwd'.skipped = fwd.skipped /\ fwd'.mode = fwd.mode
          /\ fwd'.pc # "count"
      BY <1>0, <1>3, <2>3, ReceiveStep
    <3> QED
      BY <2>1, <3>1, SameCount, FittingStep DEF relayVars
  <2> QED
    BY <2>2, <2>3
<1>4. ASSUME NEW a \in Answers, Post(a)
      PROVE  CountsTheBacklog'
  <2>1. UNCHANGED <<relayVars, counted, wrong>>
    BY <1>0, <1>4, PostStep
  <2>2. CASE Moves
    BY <2>1, <2>2, MovingKeepsCount DEF relayVars
  <2>3. CASE ~Moves
    <3>1. /\ fwd'.skip = fwd.skip /\ fwd'.skipped = fwd.skipped /\ fwd'.mode = fwd.mode
          /\ fwd'.pc # "count"
      BY <1>0, <1>4, <2>3, PostStep
    <3> QED
      BY <2>1, <3>1, SameCount, FittingStep DEF relayVars
  <2> QED
    BY <2>2, <2>3
<1>5. CASE DeadLetter
  <2>1. fwd.pc = "letter" /\ UNCHANGED <<relayVars, counted, wrong>>
    BY <1>0, <1>5, DeadLetterStep
  <2>2. CASE Moves
    BY <2>1, <2>2, MovingKeepsCount DEF relayVars
  <2>3. CASE ~Moves /\ fwd.why # "skipped"
    <3>1. /\ fwd'.skip = fwd.skip /\ fwd'.skipped = fwd.skipped /\ fwd'.mode = fwd.mode
          /\ fwd'.pc # "count"
      BY <1>0, <1>5, <2>3, DeadLetterStep
    <3> QED
      BY <2>1, <3>1, SameCount, FittingStep DEF relayVars
  <2>4. CASE ~Moves /\ fwd.why = "skipped"
    <3>1. /\ fwd'.skip = fwd.skip - 1 /\ fwd'.skipped = fwd.skipped \cup {fwd.m}
          /\ fwd'.mode = fwd.mode /\ fwd'.pc = "ack"
      BY <1>0, <1>5, <2>4, DeadLetterStep
    <3>2. fwd.skip > 0
      BY <1>0, <2>1, <2>4 DEF SkipsFirst
    <3>3. Unskipped' = Unskipped \ {fwd.m}
      BY <2>1, <3>1 DEF Unskipped, relayVars
    <3>4. /\ fwd.mode # "dry" /\ fwd.skip >= Cardinality(Unskipped)
          /\ ~wrong => fwd.skip = Cardinality(Unskipped)
      BY <1>0, <3>2 DEF CountsTheBacklog
    <3>5. IsFiniteSet(Unskipped) /\ Cardinality(Unskipped) \in Nat
      BY <1>0, UnskippedIsFinite
    <3>6. /\ fwd.m \in Unskipped \/ Unskipped = {}
          /\ ~wrong => fwd.m \in Unskipped
      BY <2>1, <3>2, SkippedIsOldest
    <3>7. Cardinality(Unskipped)' = Cardinality(Unskipped \ {fwd.m})
      BY <3>3
    <3>8. CASE fwd.m \in Unskipped
      <4>1. Cardinality(Unskipped \ {fwd.m}) = Cardinality(Unskipped) - 1
        BY <3>5, <3>8, FS_RemoveElement
      <4> QED
        BY <1>0, <2>1, <3>1, <3>4, <3>5, <3>7, <4>1 DEF CountsTheBacklog
    <3>9. CASE Unskipped = {} /\ wrong
      <4>1. Cardinality(Unskipped \ {fwd.m}) = 0
        BY <3>9, FS_EmptySet
      <4> QED
        BY <1>0, <2>1, <3>1, <3>2, <3>4, <3>7, <3>9, <4>1 DEF CountsTheBacklog
    <3> QED
      BY <3>6, <3>8, <3>9
  <2> QED
    BY <2>2, <2>3, <2>4
<1>6. CASE Acknowledge
  BY <1>0, <1>6, MovingStep, MovingKeepsCount DEF Acknowledge
<1>7. CASE /\ \/ Dial \/ Lost \/ Unreadable \/ IdleEnds \/ Stop
              \/ \E mode \in {"service", "once", "dry"}, skipping \in BOOLEAN : StartForward(mode, skipping)
           /\ UNCHANGED <<relayVars, counted, wrong>>
  BY <1>0, <1>7, MovingStep, MovingKeepsCount DEF relayVars
<1> QED
  BY <1>1, <1>2, <1>3, <1>4, <1>5, <1>6, <1>7, AwayFromForwarder

LEMMA CountsWhatIsSentStep == IInv /\ [Next]_vars => CountsWhatIsSent'
<1> SUFFICES ASSUME IInv, [Next]_vars
             PROVE  CountsWhatIsSent'
  OBVIOUS
<1>0. /\ fwd \in Forwarders /\ TypeOK /\ CountsWhatIsSent /\ SkipsFirst /\ fwd.skip \in Nat
      /\ arrived \in Nat /\ counted \in Nat /\ counted <= arrived
  BY KindsOf DEF IInv, TypeOK, SkipCounts, Forwarders
<1>1. CASE UNCHANGED <<fwd, counted, wrong>> /\ acks' \subseteq acks
  <2>1. spool' \subseteq spool \/ spool' = spool \cup {arrived + 1}
    BY QueueKeeps DEF Arrive, Discard, TakeAck
  <2>2. fwd.skip > 0 /\ ~wrong => \A m \in spool' : m <= counted => Kinds[m] # "stale"
    BY <1>0, <2>1 DEF CountsWhatIsSent
  <2> QED
    BY <1>0, <1>1, <2>2 DEF CountsWhatIsSent
<1>2. CASE RelayQueued
  BY <1>0, <1>2 DEF RelayQueued, relayVars, CountsWhatIsSent
<1>3. CASE /\ UNCHANGED <<spool, acks, counted, wrong>>
           /\ \/ fwd'.skip = 0
              \/ fwd'.skip <= fwd.skip /\ fwd'.skip \in Nat /\ fwd.skipped \subseteq fwd'.skipped
  BY <1>0, <1>3 DEF CountsWhatIsSent
<1>4. ASSUME NEW m \in Messages, Receive(m)
      PROVE  CountsWhatIsSent'
  <2>1. /\ UNCHANGED <<relayVars, counted, wrong>>
        /\ fwd' = Stopped \/ (fwd'.skip = fwd.skip /\ fwd'.skipped = fwd.skipped)
    BY <1>0, <1>4, ReceiveStep
  <2> QED
    BY <1>0, <1>3, <2>1 DEF Stopped, relayVars
<1>5. ASSUME NEW a \in Answers, Post(a)
      PROVE  CountsWhatIsSent'
  <2>1. /\ UNCHANGED <<relayVars, counted, wrong>>
        /\ Moves \/ (fwd'.skip = fwd.skip /\ fwd'.skipped = fwd.skipped)
    BY <1>0, <1>5, PostStep
  <2> QED
    BY <1>0, <1>3, <2>1 DEF Moves, relayVars
<1>6. CASE DeadLetter
  <2>1. /\ fwd.pc = "letter" /\ UNCHANGED <<relayVars, counted, wrong>>
        /\ \/ Moves
           \/ fwd.why = "skipped" /\ fwd'.skip = fwd.skip - 1 /\ fwd'.skipped = fwd.skipped \cup {fwd.m}
           \/ fwd'.skip = fwd.skip /\ fwd'.skipped = fwd.skipped
    BY <1>0, <1>6, DeadLetterStep
  <2>2. fwd.why = "skipped" => fwd.skip - 1 \in Nat
    BY <1>0, <2>1 DEF SkipsFirst
  <2> QED
    BY <1>0, <1>3, <2>1, <2>2 DEF Moves, relayVars
<1>7. CASE Acknowledge
  <2>1. /\ fwd.pc = "ack" /\ acks' = {fwd.m} /\ UNCHANGED <<spool, counted, wrong>>
    BY <1>7 DEF Acknowledge
  <2>2. (fwd'.skip = fwd.skip /\ fwd'.skipped = fwd.skipped) \/ fwd'.skip = 0
    BY <1>0, <1>7, MovingStep DEF Moves
  <2> QED
    BY <1>0, <2>1, <2>2 DEF CountsWhatIsSent, SkipsFirst
<1>8. CASE /\ \/ Dial \/ Lost \/ Unreadable \/ IdleEnds \/ Stop
              \/ \E mode \in {"service", "once", "dry"}, skipping \in BOOLEAN : StartForward(mode, skipping)
           /\ UNCHANGED <<relayVars, counted, wrong>>
  BY <1>0, <1>3, <1>8, MovingStep DEF Moves, relayVars
<1> QED
  BY <1>1, <1>2, <1>4, <1>5, <1>6, <1>7, <1>8, AwayFromForwarder

LEMMA SkipsFirstStep == IInv /\ [Next]_vars => SkipsFirst'
<1> SUFFICES ASSUME IInv, [Next]_vars
             PROVE  SkipsFirst'
  OBVIOUS
<1>0. fwd \in Forwarders /\ SkipsFirst /\ fwd.skip \in Nat
  BY DEF IInv, TypeOK, SkipCounts, Forwarders
<1>1. CASE UNCHANGED fwd
  BY <1>0, <1>1 DEF SkipsFirst
<1>2. CASE RelayQueued
  <2>1. fwd'.pc = "dial"
    BY <1>0, <1>2 DEF RelayQueued, Forwarders
  <2> QED
    BY <2>1 DEF SkipsFirst
<1>3. ASSUME NEW m \in Messages, Receive(m)
      PROVE  SkipsFirst'
  <2>1. CASE fwd' = Stopped
    BY <2>1 DEF Stopped, SkipsFirst
  <2>2. CASE fwd' # Stopped
    <3>1. /\ fwd'.m = m /\ fwd'.skip = fwd.skip /\ fwd'.skipped = fwd.skipped
          /\ \/ m \in fwd.skipped /\ fwd'.pc = "ack"
             \/ m \notin fwd.skipped /\ fwd.skip > 0 /\ fwd'.pc = "letter" /\ fwd'.why = "skipped"
             \/ /\ fwd.skip = 0
                /\ m \notin fwd.skipped
                /\ \/ fwd'.pc = "letter" /\ fwd'.why = "unreadable"
                   \/ fwd'.pc \in {"ack", "post"}
      BY <1>0, <1>3, <2>2, ReceiveStep
    <3> QED
      BY <1>0, <3>1 DEF SkipsFirst
  <2> QED
    BY <2>1, <2>2
<1>4. ASSUME NEW a \in Answers, Post(a)
      PROVE  SkipsFirst'
  <2>1. CASE Moves
    BY <2>1 DEF SkipsFirst, Moves
  <2>2. CASE ~Moves
    <3>1. /\ fwd.pc = "post" /\ fwd'.skip = fwd.skip
          /\ (fwd'.pc = "letter" /\ fwd'.why = "failed") \/ fwd'.pc \in {"ack", "post"}
          /\ fwd'.m = fwd.m /\ fwd'.skipped = fwd.skipped
      BY <1>0, <1>4, <2>2, PostStep
    <3> QED
      BY <1>0, <3>1 DEF SkipsFirst
  <2> QED
    BY <2>1, <2>2
<1>5. CASE DeadLetter
  <2>1. CASE Moves
    BY <2>1 DEF SkipsFirst, Moves
  <2>2. CASE ~Moves
    <3>1. /\ fwd.pc = "letter" /\ fwd'.pc = "ack" /\ fwd'.m = fwd.m
          /\ \/ fwd'.skipped = fwd.skipped \cup {fwd.m}
             \/ fwd.why # "skipped" /\ fwd'.skip = fwd.skip
      BY <1>0, <1>5, <2>2, DeadLetterStep
    <3> QED
      BY <1>0, <3>1 DEF SkipsFirst
  <2> QED
    BY <2>1, <2>2
<1>6. CASE \/ Dial \/ Lost \/ Unreadable \/ IdleEnds \/ Acknowledge \/ Stop
           \/ \E mode \in {"service", "once", "dry"}, skipping \in BOOLEAN : StartForward(mode, skipping)
  BY <1>0, <1>6, MovingStep DEF Moves, SkipsFirst
<1> QED
  BY <1>1, <1>2, <1>3, <1>4, <1>5, <1>6, AwayFromForwarder

\* A record is written of the message in hand, which has arrived and, if it
\* is skipped, was counted.
LEMMA LettersOfTheBacklogStep == IInv /\ [Next]_vars => LettersOfTheBacklog'
<1> SUFFICES ASSUME IInv, [Next]_vars
             PROVE  LettersOfTheBacklog'
  OBVIOUS
<1>0. /\ TypeOK /\ fwd \in Forwarders /\ LettersOfTheBacklog /\ arrived \in Nat /\ counted \in Nat
      /\ dead \in Seq(Letters) /\ Len(dead) \in Nat
      /\ \A i \in 1 .. Len(dead) : dead[i].m \in Nat
  <2>1. Messages \subseteq Nat /\ dead \in Seq(Letters)
    BY KindsOf DEF IInv, TypeOK
  <2>3. \A i \in 1 .. Len(dead) : dead[i] \in Letters
    BY <2>1
  <2>4. ASSUME NEW r \in Letters
        PROVE  r.m \in Nat
    <3>1. r.m \in Messages \cup {0}
      BY DEF Letters
    <3>2. Messages \cup {0} \subseteq Nat
      BY KindsOf
    <3> QED
      BY <3>1, <3>2
  <2>2. \A i \in 1 .. Len(dead) : dead[i].m \in Nat
    BY <2>3, <2>4
  <2> QED
    BY <2>1, <2>2, KindsOf DEF IInv, TypeOK
<1>1. arrived' \in Nat /\ arrived' >= arrived
  BY <1>0, QueueKeeps DEF Arrive, Discard, TakeAck
<1>2. RelayQueued \/ UNCHANGED <<counted, wrong>>
  <2>1. \A m \in Messages : Receive(m) => UNCHANGED <<counted, wrong>>
    BY <1>0, ReceiveStep
  <2>2. \A a \in Answers : Post(a) => UNCHANGED <<counted, wrong>>
    BY <1>0, PostStep
  <2>3. DeadLetter \/ Acknowledge => UNCHANGED <<counted, wrong>>
    BY <1>0, DeadLetterStep DEF Acknowledge
  <2> QED
    BY <2>1, <2>2, <2>3, AwayFromForwarder
<1>3. CASE RelayQueued
  <2>1. dead' = dead /\ counted' = arrived /\ arrived' = arrived
    BY <1>3 DEF RelayQueued, relayVars
  <2> QED
    BY <1>0, <2>1 DEF LettersOfTheBacklog
<1>4. CASE UNCHANGED <<dead, counted, wrong>>
  BY <1>0, <1>1, <1>4 DEF LettersOfTheBacklog
<1>5. CASE DeadLetter /\ UNCHANGED <<counted, wrong>>
  <2>1. fwd.pc = "letter"
    BY <1>5 DEF DeadLetter
  <2>2. fwd.m \in spool /\ spool \subseteq 1 .. arrived
    <3>1. HandIsOldest /\ spool \subseteq 1 .. arrived
      BY DEF IInv, TypeOK
    <3> QED
      BY <1>0, <2>1, <3>1, InHand DEF Handling
  <2>3. fwd.m <= arrived /\ fwd.m \in Nat
    <3>1. arrived \in Nat /\ fwd.m \in 1 .. arrived
      BY <1>0, <2>2
    <3> QED
      BY <3>1
  <2>4. ~wrong /\ fwd.why = "skipped" => fwd.m <= counted
    <3>1. fwd.why = "skipped" => fwd.skip > 0
      BY <2>1 DEF IInv, SkipCounts, SkipsFirst
    <3> QED
      BY <2>1, <3>1, SkippedIsOldest DEF Unskipped
  <2>5. Torn.m = 0 /\ Torn.why = "torn" /\ Record(fwd.m, fwd.why).m = fwd.m /\ Record(fwd.m, fwd.why).why = fwd.why
    BY DEF Torn, Record
  <2>6. ASSUME NEW i \in 1 .. Len(dead')
        PROVE  dead'[i].m <= arrived' /\ (~wrong' /\ dead'[i].why = "skipped" => dead'[i].m <= counted')
    <3>1. CASE i \in 1 .. Len(dead)
      <4>1. dead'[i] = dead[i]
        BY <1>0, <1>5, <3>1, FileGrows
      <4> QED
        BY <1>0, <1>1, <1>5, <3>1, <4>1 DEF LettersOfTheBacklog
    <3>2. CASE dead'[i] = Torn
      BY <1>0, <1>1, <2>5, <3>2
    <3>3. CASE dead'[i] = Record(fwd.m, fwd.why)
      BY <1>0, <1>1, <1>5, <2>3, <2>4, <2>5, <3>3
    <3> QED
      BY <1>0, <1>5, <3>1, <3>2, <3>3, FileGrows
  <2> QED
    BY <2>6 DEF LettersOfTheBacklog
<1>6. CASE ReplayRewrites /\ UNCHANGED <<counted, wrong>>
  <2>1. \A i \in 1 .. Len(dead') : \E j \in 1 .. Len(dead) : dead[j] = dead'[i]
    BY <1>6 DEF ReplayRewrites, IInv, ReplayKeeps
  <2> QED
    BY <1>0, <1>1, <1>6, <2>1 DEF LettersOfTheBacklog
<1>7. (\E a \in Answers : Post(a)) \/ Stop \/ (\E a \in Answers : ReplayPosts(a)) => dead' = dead
  BY DEF Post, Stop, ReplayPosts
<1> QED
  BY <1>2, <1>3, <1>4, <1>5, <1>6, <1>7, Steps, ElsewhereKeeps

-----------------------------------------------------------------------------
(* The theorems. *)

LEMMA NextIInv == IInv /\ [Next]_vars => IInv'
BY Typing, AcksAreSettledStep, HandIsOldestStep, ReplayKeepsStep, CountsTheBacklogStep,
   CountsWhatIsSentStep, SkipsFirstStep, LettersOfTheBacklogStep, NothingIsLostStep
DEF IInv, SkipCounts

LEMMA Inductive == Spec => []IInv
<1>1. Init => IInv
  BY InitIInv
<1>2. IInv /\ [Next]_vars => IInv'
  BY NextIInv
<1> QED
  BY <1>1, <1>2, PTL DEF Spec

\* The state is well typed: the queue holds messages that arrived, the file
\* holds records, and the count of the backlog is never negative.
THEOREM Types == Spec => []TypeOK
<1>1. IInv => TypeOK
  BY DEF IInv
<1> QED
  BY <1>1, Inductive, PTL

\* No message disappears between the queue, the webhook and the dead-letter
\* file, whatever breaks between the POST, the record, the acknowledgement and
\* the rewriting of the file by a replay, however often.
THEOREM NoMessageIsLost == Spec => []NothingIsLost
<1>1. IInv => NothingIsLost
  BY DEF IInv
<1> QED
  BY <1>1, Inductive, PTL

\* --skip-queued posts nothing of the backlog, and skips nothing else unless
\* the relay counted what it does not send.
THEOREM BacklogIsSkipped == Spec => []SkipsTheBacklog
<1>1. IInv => SkipsTheBacklog
  <2> SUFFICES ASSUME IInv
               PROVE  SkipsTheBacklog
    OBVIOUS
  <2>1. ~wrong => \A i \in 1 .. Len(dead) : dead[i].why = "skipped" => dead[i].m <= counted
    BY DEF IInv, LettersOfTheBacklog
  <2>2. ASSUME fwd.skipped # {}, fwd.pc = "post"
        PROVE  fwd.m > counted
    <3>1. fwd.skip = 0 /\ fwd.skip >= Cardinality(Unskipped)
      BY <2>2 DEF IInv, SkipCounts, SkipsFirst, CountsTheBacklog
    <3>2. IsFiniteSet(Unskipped) /\ Cardinality(Unskipped) \in Nat
      BY UnskippedIsFinite DEF IInv
    <3>3. Unskipped = {}
      BY <3>1, <3>2, FS_EmptySet
    <3>4. fwd.m \in spool /\ fwd.m \in Nat
      BY <2>2, InHand DEF IInv, Handling
    <3>6. counted \in Nat
      BY KindsOf DEF IInv, TypeOK
    <3>5. fwd.m \notin fwd.skipped
      BY <2>2 DEF IInv, SkipCounts, SkipsFirst
    <3> QED
      BY <3>3, <3>4, <3>5, <3>6 DEF Unskipped
  <2> QED
    BY <2>1, <2>2 DEF SkipsTheBacklog
<1> QED
  BY <1>1, Inductive, PTL
=============================================================================
