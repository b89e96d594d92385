--------------------------- MODULE FollowerProofs ---------------------------
(***************************************************************************)
(* That no reader of an inbox passes over mail, and that none takes mail   *)
(* of another session, for any number of aliases, sessions, followers,     *)
(* inodes and messages.                                                    *)
(*                                                                         *)
(* What a position counts was dealt with when somebody read that far.  The *)
(* invariant follows a position from the disk to the reader that looked at *)
(* it, to the file it opened, and back to the disk; what makes it survive  *)
(* is that an inbox only grows, that no two directories share an inode,    *)
(* and that a directory which cannot vouch for its records says so.        *)
(***************************************************************************)
EXTENDS Follower, FiniteSetTheorems, SequenceTheorems, WellFoundedInduction, TLAPS

(* --------------------------------------------------- lines and positions - *)

\* The message a half line belongs to.
Whose(h) == (h + 1) \div 2

\* The messages whose lines end in the first k half lines of l, and those that
\* begin there.
Ended(l, k) == {Message(l[i]) : i \in {j \in 1 .. Len(l) : j <= k /\ Ends(l[j])}}
Started(l, k) == {Message(l[i] + 1) : i \in {j \in 1 .. Len(l) : j <= k /\ ~Ends(l[j])}}

\* What every inbox is: half lines in the order they were sent, where an end
\* follows its beginning.
Lines(l) ==
    /\ l \in Seq(1 .. 2 * MaxMail)
    /\ \A i \in 1 .. Len(l) : i <= l[i]
    /\ \A i, j \in 1 .. Len(l) : i < j => l[i] < l[j]
    /\ \A i \in 1 .. Len(l) : Ends(l[i]) => i > 1 /\ l[i - 1] = l[i] - 1

\* l2 is l with lines added.
Grown(l, l2) == Len(l) <= Len(l2) /\ \A i \in 1 .. Len(l) : l2[i] = l[i]

\* Every line of l is mail for s.
AllFor(l, who, s) == \A i \in 1 .. Len(l) : who[Whose(l[i])] = s

\* Position k of the inbox l of registration d is one a follower may record:
\* it is no place in the middle of a line that counts, and what ends before it
\* was shown.
Settled(l, d, shown, k) ==
    /\ k = 0 \/ k <= d.skipped \/ (k \in 1 .. Len(l) /\ Ends(l[k]))
    /\ \A m \in Ended(l, k) \ Started(l, d.skipped) : <<d.sid, m>> \in shown

\* The same for the position of a Stop hook and of the connection.
Passed(l, s, done, k) ==
    /\ k <= Len(l)
    /\ \A m \in Ended(l, k) : <<s, m>> \in done

(* ------------------------------------------------------ the invariant - *)

\* What a Stop hook need not read again: what was handed over, what a hook
\* holds to hand over, and what one held when it was killed.
Dealt == handed \cup Held \cup cut

TypeInv ==
    /\ dir \in [Paths -> Registration \cup {Vacant}]
    /\ file \in [Files -> Seq(1 .. 2 * MaxMail)]
    /\ fol \in [Followers -> FollowerRecord]
    /\ hook \in [Sessions -> HookRecord]
    /\ writer \in Paths \cup {NoOne}
    /\ con \in ConRecord
    /\ dev \in Nat
    /\ to \in [Messages -> Sessions \cup {NoOne}]

\* What the program counters of followers, of hooks and of the connection say.
FollowerShape(r) ==
    /\ r.pc \in Running \cup Waiting => r.path \in Paths
    /\ r.pc \in Running => r.ino \in Files
    /\ r.pc \in Waiting => r.sure
    /\ r.pc \in {"armed", "seed"} => r.pend = 0
    /\ r.pend <= r.at
HookShape(h) ==
    /\ h.pc # "off" => h.path \in Paths
    /\ h.pc = "look" => h.dev = dev
    /\ h.pc # "block" => h.lines = {}
ShapeInv ==
    /\ \A f \in Followers : FollowerShape(fol[f])
    /\ \A s \in Sessions : HookShape(hook[s])
    /\ con.pc = "off" => con = NoCon
    /\ con.pc # "off" => con.path \in Paths

\* No inode is in two directories, only the connection's is managed, and a
\* writer in the middle of a line is where the line is.
DirInv ==
    /\ \A p, q \in Paths : Present(p) /\ Present(q) /\ dir[p].ino = dir[q].ino => p = q
    /\ \A p \in Paths : Managed(p) => con.pc # "off" /\ con.path = p /\ dir[p].sid = con.sid
    /\ \A p \in Paths : Present(p) => dir[p].cursor.dev <= dev /\ dir[p].stop.dev <= dev
    /\ con.dev <= dev
    /\ \A p \in Paths : writer = p =>
          /\ Present(p) /\ Len(file[dir[p].ino]) > 0
          /\ ~Ends(file[dir[p].ino][Len(file[dir[p].ino])])

\* Messages are numbered as they are sent, and what is in an inbox was sent to
\* the session that has it.
FileInv ==
    /\ \E k \in Nat : Sent = 1 .. k
    /\ \A n \in Files : Lines(file[n]) /\ \A i \in 1 .. Len(file[n]) : Whose(file[n][i]) \in Sent
    /\ \A p \in Paths : Present(p) => AllFor(file[dir[p].ino], to, dir[p].sid)

\* A registration whose claims count.
Clean(d) == d # Vacant /\ ~d.foreign /\ ~d.again

\* A follower that is not late reads the mail of the session it was armed for,
\* and what it consumed beyond its boundary is no whole line.
Reads(r, d, l, who) == r.pc \in Running =>
    /\ ~r.late =>
          /\ AllFor(l[r.ino], who, r.sid)
          /\ \A p \in Paths : d[p] # Vacant /\ d[p].ino = r.ino => d[p].sid = r.sid
    /\ \A i \in r.at - r.pend + 1 .. r.at : i <= Len(l[r.ino]) /\ ~Ends(l[r.ino][i])
ReaderInv == \A f \in Followers : Reads(fol[f], dir, file, to)

\* The positions of the followers: on disk, before the open, and after it.
CursorFits(d, l, shown, v) ==
    Clean(d) /\ d.cursor.dev = v /\ d.cursor.ino = d.ino => Settled(l[d.ino], d, shown, d.cursor.at)
ArmedFits(r, d, l, shown) ==
    r.pc = "armed" /\ r.at > 0 /\ ~r.moved =>
        /\ d[r.path] # Vacant /\ d[r.path].sid = r.sid
        /\ Clean(d[r.path]) => Settled(l[d[r.path].ino], d[r.path], shown, r.at)
OpenFits(r, d, l, shown) ==
    r.pc \in Running /\ ~r.late => \A p \in Paths :
        Clean(d[p]) /\ d[p].ino = r.ino => Settled(l[d[p].ino], d[p], shown, r.at - r.pend)
CursorInv == \A p \in Paths : CursorFits(dir[p], file, seen, dev)
ArmedInv  == \A f \in Followers : ArmedFits(fol[f], dir, file, seen)
OpenInv   == \A f \in Followers : OpenFits(fol[f], dir, file, seen)

\* The positions of the Stop hooks.
StopFits(d, l, done, v) ==
    Clean(d) /\ d.stop.dev = v /\ d.stop.ino = d.ino => Passed(l[d.ino], d.sid, done, d.stop.at)
HookFits(h, s, d, l, done) ==
    h.pc = "look" /\ h.own =>
        /\ d[h.path] # Vacant /\ d[h.path].sid = s /\ d[h.path].ino = h.ino
        /\ Clean(d[h.path]) => Passed(l[h.ino], s, done, h.at)
StopInv == \A p \in Paths : StopFits(dir[p], file, Dealt, dev)
HookInv == \A s \in Sessions : HookFits(hook[s], s, dir, file, Dealt)

\* The position of the connection, and what its attempts say of its inbox also
\* when the position does not count any more: all that was sent before one that
\* was settled is settled.
Consumed == {con.last} \cup con.given
OffsetInv ==
    /\ \A a \in Consumed : a.m = 0 \/ a.m \in Sent
    /\ Owned /\ ~dir[con.path].again =>
          /\ \A a \in Consumed, i \in 1 .. Len(Inbox) :
                Ends(Inbox[i]) /\ Message(Inbox[i]) <= a.m => <<con.sid, Message(Inbox[i])>> \in taken
          /\ writer = con.path => \A a \in Consumed : a.m < Whose(Inbox[Len(Inbox)])
          /\ con.dev = dev /\ dir[con.path].ino = con.ino => Passed(Inbox, con.sid, taken, con.at)

\* What was shown or settled was sent, to the one who has it.
OwnInv == OwnMailOnly /\ \A x \in seen \cup taken : x[2] \in Sent

IInv ==
    /\ TypeInv /\ ShapeInv /\ DirInv /\ FileInv /\ ReaderInv
    /\ CursorInv /\ ArmedInv /\ OpenInv /\ StopInv /\ HookInv /\ OffsetInv /\ OwnInv

(* ------------------------------------------------------ lemmas on lines - *)

\* The two halves of a line, by number.
LEMMA Halves ==
    ASSUME NEW h \in Nat
    PROVE  /\ Ends(h) => h = 2 * Message(h) /\ Whose(h) = Message(h)
           /\ ~Ends(h) => /\ Ends(h + 1) /\ Whose(h) = Message(h + 1)
                          /\ h = 2 * Whose(h) - 1 /\ Message(h + 1) = Whose(h + 1)
           /\ Message(h) \in Nat /\ Whose(h) \in Nat /\ Ends(h) \in BOOLEAN
BY SMT DEF Ends, Message, Whose

\* The halves of message m.
LEMMA HalvesOf ==
    ASSUME NEW m \in Nat \ {0}
    PROVE  /\ ~Ends(Half(m)) /\ Whose(Half(m)) = m
           /\ Ends(Full(m)) /\ Whose(Full(m)) = m /\ Message(Full(m)) = m
           /\ Half(m) \in Nat /\ Full(m) = Half(m) + 1
BY SMT DEF Ends, Message, Whose, Half, Full

\* What the definition of an inbox says, and that it is no longer than the bound
\* on messages allows.
LEMMA LinesFacts ==
    ASSUME NEW l, Lines(l)
    PROVE  /\ l \in Seq(1 .. 2 * MaxMail) /\ Len(l) \in Nat /\ Len(l) \in Length
           /\ \A i \in 1 .. Len(l) : l[i] \in Nat /\ l[i] \in 1 .. 2 * MaxMail /\ i <= l[i]
           /\ \A i, j \in 1 .. Len(l) : i < j => l[i] < l[j]
           /\ \A i \in 1 .. Len(l) : Ends(l[i]) => i > 1 /\ l[i - 1] = l[i] - 1
<1>1. /\ l \in Seq(1 .. 2 * MaxMail) /\ \A i \in 1 .. Len(l) : i <= l[i]
      /\ \A i, j \in 1 .. Len(l) : i < j => l[i] < l[j]
      /\ \A i \in 1 .. Len(l) : Ends(l[i]) => i > 1 /\ l[i - 1] = l[i] - 1
    BY DEF Lines
<1>2. MaxMail \in Nat
    BY FollowerAssumption
<1>3. Len(l) \in Nat /\ \A i \in 1 .. Len(l) : l[i] \in 1 .. 2 * MaxMail
    BY <1>1, LenProperties, ElementOfSeq
<1>4. \A i \in 1 .. Len(l) : l[i] \in Nat
    BY <1>2, <1>3
<1>5. Len(l) \in Length
  <2>1. CASE Len(l) = 0
      BY <2>1, <1>2 DEF Length
  <2>2. CASE Len(l) > 0
    <3>1. Len(l) \in 1 .. Len(l)
        BY <2>2, <1>3
    <3>2. Len(l) <= l[Len(l)] /\ l[Len(l)] \in 1 .. 2 * MaxMail
        BY <3>1, <1>1, <1>3
    <3> QED
        BY <3>2, <1>2, <1>3 DEF Length
  <2> QED
      BY <2>1, <2>2, <1>3
<1> QED
    BY <1>1, <1>3, <1>4, <1>5

\* A half line is added to an inbox.
LEMMA LinesAppend ==
    ASSUME NEW l, Lines(l), NEW h \in 1 .. 2 * MaxMail,
           \A i \in 1 .. Len(l) : l[i] < h,
           Ends(h) => Len(l) > 0 /\ l[Len(l)] = h - 1
    PROVE  /\ Lines(Append(l, h)) /\ Grown(l, Append(l, h))
           /\ Len(Append(l, h)) = Len(l) + 1 /\ Append(l, h)[Len(l) + 1] = h
<1>1. /\ l \in Seq(1 .. 2 * MaxMail)
      /\ \A i \in 1 .. Len(l) : i <= l[i]
      /\ \A i, j \in 1 .. Len(l) : i < j => l[i] < l[j]
      /\ \A i \in 1 .. Len(l) : Ends(l[i]) => i > 1 /\ l[i - 1] = l[i] - 1
    BY LinesFacts
<1> DEFINE r == Append(l, h)
<1>a. Len(l) \in Nat /\ \A i \in 1 .. Len(l) : l[i] \in Nat
    BY LinesFacts
<1>b. r \in Seq(1 .. 2 * MaxMail)
    BY <1>1
<1>c. Len(r) = Len(l) + 1 /\ r[Len(l) + 1] = h /\ \A i \in 1 .. Len(l) : r[i] = l[i]
    BY <1>1
<1>2. /\ r \in Seq(1 .. 2 * MaxMail) /\ Len(r) = Len(l) + 1 /\ r[Len(l) + 1] = h
      /\ \A i \in 1 .. Len(l) : r[i] = l[i]
      /\ Len(l) \in Nat /\ \A i \in 1 .. Len(l) : l[i] \in Nat
    BY <1>a, <1>b, <1>c
<1> HIDE DEF r
<1>3. \A i \in 1 .. Len(r) : i <= r[i]
  <2> SUFFICES ASSUME NEW i \in 1 .. Len(r) PROVE i <= r[i]
      OBVIOUS
  <2>1. CASE i \in 1 .. Len(l)
      BY <2>1, <1>1, <1>2
  <2>2. CASE i = Len(l) + 1
    <3>1. CASE Len(l) = 0
        BY <3>1, <2>2, <1>2
    <3>2. CASE Len(l) > 0
      <4>1. Len(l) <= l[Len(l)] /\ l[Len(l)] < h /\ l[Len(l)] \in Nat
          BY <3>2, <1>1, <1>2
      <4> QED
          BY <4>1, <2>2, <1>2
    <3> QED
        BY <3>1, <3>2, <1>2
  <2> QED
      BY <2>1, <2>2, <1>2
<1>4. \A i, j \in 1 .. Len(r) : i < j => r[i] < r[j]
  <2> SUFFICES ASSUME NEW i \in 1 .. Len(r), NEW j \in 1 .. Len(r), i < j PROVE r[i] < r[j]
      OBVIOUS
  <2>1. i \in 1 .. Len(l)
      BY <1>2
  <2>2. CASE j \in 1 .. Len(l)
      BY <2>1, <2>2, <1>1, <1>2
  <2>3. CASE j = Len(l) + 1
      BY <2>1, <2>3, <1>2
  <2> QED
      BY <2>2, <2>3, <1>2
<1>5. \A i \in 1 .. Len(r) : Ends(r[i]) => i > 1 /\ r[i - 1] = r[i] - 1
  <2> SUFFICES ASSUME NEW i \in 1 .. Len(r), Ends(r[i]) PROVE i > 1 /\ r[i - 1] = r[i] - 1
      OBVIOUS
  <2>1. CASE i \in 1 .. Len(l)
    <3>1. i > 1 /\ l[i - 1] = l[i] - 1
        BY <2>1, <1>1, <1>2
    <3>2. i - 1 \in 1 .. Len(l)
        BY <2>1, <3>1, <1>2
    <3> QED
        BY <3>1, <3>2, <2>1, <1>2
  <2>2. CASE i = Len(l) + 1
    <3>1. Len(l) > 0 /\ l[Len(l)] = h - 1
        BY <2>2, <1>2
    <3> QED
        BY <3>1, <2>2, <1>2
  <2> QED
      BY <2>1, <2>2, <1>2
<1>6. Lines(r) /\ Grown(l, r)
    BY <1>2, <1>3, <1>4, <1>5 DEF Lines, Grown
<1> QED
    BY <1>6, <1>2 DEF r

\* Adding two half lines is adding one after the other.
LEMMA Appends ==
    ASSUME NEW S, NEW l \in Seq(S), NEW h \in S, NEW g \in S
    PROVE  l \o <<h>> = Append(l, h) /\ l \o <<h, g>> = Append(Append(l, h), g)
<1>1. l \o <<h>> = Append(l, h)
  <2>1. l \o <<h>> \in Seq(S) /\ Append(l, h) \in Seq(S)
      OBVIOUS
  <2> QED
      BY <2>1, SeqEqual
<1>2. l \o <<h, g>> = Append(Append(l, h), g)
  <2>1. l \o <<h, g>> \in Seq(S) /\ Append(Append(l, h), g) \in Seq(S)
      OBVIOUS
  <2> QED
      BY <2>1, SeqEqual
<1> QED
    BY <1>1, <1>2

\* What is left of an inbox is an inbox.
LEMMA LinesPrefix ==
    ASSUME NEW l, Lines(l), NEW k \in 0 .. Len(l)
    PROVE  /\ Lines(SubSeq(l, 1, k)) /\ Len(SubSeq(l, 1, k)) = k
           /\ \A i \in 1 .. k : SubSeq(l, 1, k)[i] = l[i]
<1>1. /\ l \in Seq(1 .. 2 * MaxMail)
      /\ \A i \in 1 .. Len(l) : i <= l[i]
      /\ \A i, j \in 1 .. Len(l) : i < j => l[i] < l[j]
      /\ \A i \in 1 .. Len(l) : Ends(l[i]) => i > 1 /\ l[i - 1] = l[i] - 1
    BY LinesFacts
<1> DEFINE r == SubSeq(l, 1, k)
<1>a. Len(l) \in Nat /\ k \in Nat /\ k - 1 + 1 = k /\ \A i \in 1 .. k : 1 + i - 1 = i
    BY LinesFacts
<1>b. \A i \in 1 .. k : l[i] \in 1 .. 2 * MaxMail
    BY <1>a, LinesFacts
<1>c. /\ r \in Seq(1 .. 2 * MaxMail)
      /\ Len(r) = IF 1 <= k THEN k - 1 + 1 ELSE 0
      /\ \A i \in 1 .. k - 1 + 1 : r[i] = l[1 + i - 1]
    BY <1>a, <1>b, SubSeqProperties
<1>d. Len(r) = k
    BY <1>a, <1>c
<1>2. /\ r \in Seq(1 .. 2 * MaxMail) /\ Len(r) = k
      /\ \A i \in 1 .. k : r[i] = l[i]
      /\ Len(l) \in Nat
    BY <1>a, <1>c, <1>d
<1> HIDE DEF r
<1>3. \A i \in 1 .. k : i \in 1 .. Len(l)
    BY <1>2
<1>4. \A i \in 1 .. Len(r) : i <= r[i]
    BY <1>1, <1>2, <1>3
<1>5. \A i, j \in 1 .. Len(r) : i < j => r[i] < r[j]
    BY <1>1, <1>2, <1>3
<1>6. \A i \in 1 .. Len(r) : Ends(r[i]) => i > 1 /\ r[i - 1] = r[i] - 1
  <2> SUFFICES ASSUME NEW i \in 1 .. k, Ends(r[i]) PROVE i > 1 /\ r[i - 1] = r[i] - 1
      BY <1>2
  <2>1. i > 1 /\ l[i - 1] = l[i] - 1
      BY <1>1, <1>2, <1>3
  <2>2. i - 1 \in 1 .. k
      BY <2>1, <1>2
  <2> QED
      BY <2>1, <2>2, <1>2
<1>7. Lines(r)
    BY <1>2, <1>4, <1>5, <1>6 DEF Lines
<1> QED
    BY <1>7, <1>2 DEF r

\* A position that may be recorded stays one when lines are added, more is
\* shown, or more was skipped.
LEMMA SettledGrows ==
    ASSUME NEW l, NEW l2, Lines(l), Lines(l2), Grown(l, l2), NEW d, NEW d2, NEW shown, NEW shown2,
           d2.sid = d.sid, d.skipped \in Nat, d2.skipped \in Nat, d.skipped <= d2.skipped,
           shown \subseteq shown2, NEW k \in Nat, Settled(l, d, shown, k)
    PROVE  Settled(l2, d2, shown2, k)
<1>1. /\ l \in Seq(1 .. 2 * MaxMail) /\ Len(l) \in Nat /\ Len(l2) \in Nat
      /\ \A i \in 1 .. Len(l2) : l2[i] \in Nat
      /\ \A i \in 1 .. Len(l2) : Ends(l2[i]) => i > 1 /\ l2[i - 1] = l2[i] - 1
      /\ Len(l) <= Len(l2) /\ \A i \in 1 .. Len(l) : l2[i] = l[i]
    BY LinesFacts DEF Grown
<1>2. /\ k = 0 \/ k <= d.skipped \/ (k \in 1 .. Len(l) /\ Ends(l[k]))
      /\ \A m \in Ended(l, k) \ Started(l, d.skipped) : <<d.sid, m>> \in shown
    BY DEF Settled
<1>3. k = 0 \/ k <= d2.skipped \/ (k \in 1 .. Len(l2) /\ Ends(l2[k]))
    BY <1>1, <1>2
<1>4. ASSUME NEW m \in Ended(l2, k), m \notin Started(l2, d2.skipped) PROVE <<d2.sid, m>> \in shown2
  <2>1. PICK i \in 1 .. Len(l2) : i <= k /\ Ends(l2[i]) /\ m = Message(l2[i])
      BY <1>4 DEF Ended
  <2>2. i > 1 /\ l2[i - 1] = l2[i] - 1 /\ i - 1 \in 1 .. Len(l2) /\ l2[i - 1] \in Nat /\ l2[i] \in Nat
      BY <2>1, <1>1
  <2>3. ~Ends(l2[i - 1]) /\ m = Message(l2[i - 1] + 1)
      BY <2>1, <2>2 DEF Ends
  <2>4. ~(i - 1 <= d2.skipped)
      BY <1>4, <2>2, <2>3 DEF Started
  <2>5. k # 0 /\ ~(k <= d.skipped) /\ k <= Len(l)
      BY <2>1, <2>2, <2>4, <1>2
  <2>6. i \in 1 .. Len(l) /\ l2[i] = l[i]
      BY <2>1, <2>5, <1>1
  <2>7. m \in Ended(l, k)
      BY <2>6, <2>1 DEF Ended
  <2>8. m \notin Started(l, d.skipped)
    <3> SUFFICES ASSUME m \in Started(l, d.skipped) PROVE FALSE
        OBVIOUS
    <3>1. PICK j \in 1 .. Len(l) : j <= d.skipped /\ ~Ends(l[j]) /\ m = Message(l[j] + 1)
        BY DEF Started
    <3>2. j \in 1 .. Len(l2) /\ j <= d2.skipped /\ l2[j] = l[j]
        BY <3>1, <1>1
    <3>3. m \in Started(l2, d2.skipped)
        BY <3>1, <3>2 DEF Started
    <3> QED
        BY <3>3, <1>4
  <2> QED
      BY <2>7, <2>8, <1>2
<1> QED
    BY <1>3, <1>4 DEF Settled

\* At the start of an inbox, and where an arm jumped to, there is nothing to
\* be shown.
LEMMA SettledAtStart ==
    ASSUME NEW l, Lines(l), NEW d, NEW shown, NEW k \in Nat, k = 0 \/ k <= d.skipped, d.skipped \in Nat
    PROVE  Settled(l, d, shown, k)
<1>1. /\ Len(l) \in Nat /\ \A i \in 1 .. Len(l) : l[i] \in Nat
      /\ \A i \in 1 .. Len(l) : Ends(l[i]) => i > 1 /\ l[i - 1] = l[i] - 1
    BY LinesFacts
<1>2. ASSUME NEW m \in Ended(l, k) PROVE m \in Started(l, d.skipped)
  <2>1. PICK i \in 1 .. Len(l) : i <= k /\ Ends(l[i]) /\ m = Message(l[i])
      BY <1>2 DEF Ended
  <2>2. i > 1 /\ l[i - 1] = l[i] - 1 /\ i - 1 \in 1 .. Len(l) /\ l[i - 1] \in Nat /\ l[i] \in Nat
      BY <2>1, <1>1
  <2>3. ~Ends(l[i - 1]) /\ m = Message(l[i - 1] + 1)
      BY <2>1, <2>2 DEF Ends
  <2>4. i - 1 <= d.skipped
      BY <2>1, <2>2
  <2> QED
      BY <2>2, <2>3, <2>4 DEF Started
<1> QED
    BY <1>2 DEF Settled

\* The same for what was passed.
LEMMA PassedGrows ==
    ASSUME NEW l, NEW l2, Lines(l), Lines(l2), Grown(l, l2), NEW s, NEW done, NEW done2,
           done \subseteq done2, NEW k \in Nat, Passed(l, s, done, k)
    PROVE  Passed(l2, s, done2, k)
<1>1. /\ Len(l) \in Nat /\ Len(l2) \in Nat
      /\ Len(l) <= Len(l2) /\ \A i \in 1 .. Len(l) : l2[i] = l[i]
      /\ k <= Len(l) /\ \A m \in Ended(l, k) : <<s, m>> \in done
    BY DEF Lines, Grown, Passed
<1>2. \A m \in Ended(l2, k) : m \in Ended(l, k)
    BY <1>1 DEF Ended
<1> QED
    BY <1>1, <1>2 DEF Passed

(* --------------------------------------------- first and last line ends - *)

Below == {p \in Nat \X Nat : p[1] < p[2]}

LEMMA LeastIs ==
    ASSUME NEW S, S \subseteq Nat, S # {}
    PROVE  Least(S) \in S /\ \A y \in S : Least(S) <= y
<1>1. OpToRel(<, Nat) = Below
    BY DEF OpToRel, Below
<1>2. IsWellFoundedOn(Below, Nat)
    BY <1>1, NatLessThanWellFounded, Zenon
<1>3. \A x, y \in Nat : <<x, y>> \in Below <=> x < y
    BY DEF Below
<1>4. PICK x \in S : \A y \in S : ~(<<y, x>> \in Below)
    BY <1>2, WFMin
<1>5. \A y \in S : ~(y < x)
    BY <1>3, <1>4
<1>6. \A y \in S : x <= y
    BY <1>5
<1> QED
    BY <1>6 DEF Least

LEMMA GreatestIs ==
    ASSUME NEW n \in Nat, NEW S, S \subseteq 0 .. n, S # {}
    PROVE  Greatest(S) \in S /\ \A y \in S : y <= Greatest(S)
<1> DEFINE T == {n - x : x \in S}
<1>1. \A x \in S : x \in Nat /\ n - x \in Nat
    OBVIOUS
<1>2. T \subseteq Nat /\ T # {}
    BY <1>1
<1>3. Least(T) \in T /\ \A u \in T : Least(T) <= u
    BY <1>2, LeastIs
<1>4. PICK x \in S : Least(T) = n - x
    BY <1>3
<1>5. \A y \in S : n - x <= n - y
    BY <1>3, <1>4
<1>6. \A y \in S : y <= x
    BY <1>1, <1>5
<1> QED
    BY <1>6 DEF Greatest

\* The ends of the lines after a position are places in the inbox, and the
\* first and the last of them exist.
LEMMA LineEndsAre ==
    ASSUME NEW n, Lines(file[n]), NEW k, LineEnds(n, k) # {}
    PROVE  /\ Least(LineEnds(n, k)) \in LineEnds(n, k) /\ Greatest(LineEnds(n, k)) \in LineEnds(n, k)
           /\ \A i \in LineEnds(n, k) : Least(LineEnds(n, k)) <= i /\ i <= Greatest(LineEnds(n, k))
           /\ LineEnds(n, k) \subseteq 1 .. Len(file[n]) /\ LineEnds(n, k) \subseteq Length
<1>1. Len(file[n]) \in Nat /\ Len(file[n]) \in Length
    BY LinesFacts
<1>2. LineEnds(n, k) \subseteq 1 .. Len(file[n])
    BY DEF LineEnds
<1>3. LineEnds(n, k) \subseteq Nat /\ LineEnds(n, k) \subseteq 0 .. Len(file[n])
    BY <1>1, <1>2
<1>4. LineEnds(n, k) \subseteq Length
    BY <1>1, <1>2, FollowerAssumption DEF Length
<1> QED
    BY <1>1, <1>2, <1>3, <1>4, LeastIs, GreatestIs

\* The next message is one that was not sent.
LEMMA NextIsNew ==
    ASSUME FileInv, TypeInv
    PROVE  /\ NextMail \in Nat \ {0} /\ NextMail \notin Sent
           /\ Sent = 1 .. NextMail - 1 /\ Sent \subseteq Messages
<1>1. PICK k \in Nat : Sent = 1 .. k
    BY DEF FileInv
<1>2. Cardinality(1 .. k) = IF 1 > k THEN 0 ELSE k - 1 + 1
    BY <1>1, FS_Interval
<1>3. NextMail = k + 1
    BY <1>1, <1>2 DEF NextMail
<1> QED
    BY <1>1, <1>3 DEF Sent

(* ------------------------------------------------- types, and small facts - *)

LEMMA Constants ==
    /\ NoOne \notin Sessions /\ NoOne \notin Followers /\ NoOne \notin Paths
    /\ MaxMail \in Nat /\ IdleEvery \in Nat /\ 0 \notin Files /\ Files \subseteq Nat
    /\ 0 \in Length /\ Length \subseteq Nat /\ Messages \subseteq Nat \ {0}
BY FollowerAssumption DEF Length, Messages

LEMMA RegistrationIs ==
    ASSUME NEW d \in Registration
    PROVE  /\ d # Vacant /\ d.sid \in Sessions /\ d.conn \in BOOLEAN /\ d.ino \in Files
           /\ d.listener \in Followers \cup {NoOne} /\ d.witness \in BOOLEAN
           /\ d.cursor \in Cursor /\ d.stop \in Cursor
           /\ d.skipped \in Length /\ d.skipped \in Nat /\ d.foreign \in BOOLEAN /\ d.again \in BOOLEAN
<1>1. /\ d.sid \in Sessions /\ d.conn \in BOOLEAN /\ d.ino \in Files
      /\ d.listener \in Followers \cup {NoOne} /\ d.witness \in BOOLEAN
      /\ d.cursor \in Cursor /\ d.stop \in Cursor
      /\ d.skipped \in Length /\ d.foreign \in BOOLEAN /\ d.again \in BOOLEAN
    BY DEF Registration
<1>2. d # Vacant
    BY <1>1, Constants DEF Vacant
<1> QED
    BY <1>1, <1>2, Constants

LEMMA CursorIs ==
    ASSUME NEW c \in Cursor
    PROVE  c.dev \in Nat /\ c.ino \in Files \cup {0} /\ c.at \in Length /\ c.at \in Nat
BY Constants DEF Cursor

LEMMA FreshIs ==
    ASSUME NEW s \in Sessions, NEW n \in Files
    PROVE  Fresh(s, n) \in Registration
<1>1. NoCursor \in Cursor
    BY Constants DEF NoCursor, Cursor
<1> QED
    BY <1>1, Constants DEF Fresh, Registration

LEMMA DirIs ==
    ASSUME TypeInv, NEW p \in Paths
    PROVE  /\ Present(p) => dir[p] \in Registration
           /\ ~Present(p) => dir[p] = Vacant
           /\ Managed(p) <=> Present(p) /\ dir[p].conn
BY DEF TypeInv, Present, Managed

LEMMA FolIs ==
    ASSUME TypeInv, NEW f \in Followers
    PROVE  /\ fol[f] \in FollowerRecord
           /\ fol[f].pc \in {"off", "claimed", "over", "dead"} \cup Running \cup Waiting
           /\ fol[f].path \in Paths \cup {NoOne} /\ fol[f].sid \in Sessions \cup {NoOne}
           /\ fol[f].ino \in Files \cup {0}
           /\ fol[f].at \in Length /\ fol[f].pend \in Length /\ fol[f].saved \in Length
           /\ fol[f].at \in Nat /\ fol[f].pend \in Nat /\ fol[f].saved \in Nat /\ fol[f].ticks \in Nat
           /\ fol[f].end \in BOOLEAN /\ fol[f].sure \in BOOLEAN /\ fol[f].late \in BOOLEAN
           /\ fol[f].moved \in BOOLEAN
<1>1. fol[f] \in FollowerRecord
    BY DEF TypeInv
<1> QED
    BY <1>1, Constants DEF FollowerRecord

LEMMA HookIs ==
    ASSUME TypeInv, NEW s \in Sessions
    PROVE  /\ hook[s] \in HookRecord
           /\ hook[s].pc \in {"off", "poll", "look", "block"} /\ hook[s].path \in Paths \cup {NoOne}
           /\ hook[s].dev \in Nat /\ hook[s].ino \in Files \cup {0}
           /\ hook[s].at \in Length /\ hook[s].at \in Nat /\ hook[s].own \in BOOLEAN
           /\ hook[s].lines \in SUBSET Messages
<1>1. hook[s] \in HookRecord
    BY DEF TypeInv
<1> QED
    BY <1>1, Constants DEF HookRecord

LEMMA AttemptIs ==
    ASSUME NEW a \in AttemptRecord
    PROVE  a.m \in Messages \cup {0} /\ a.m \in Nat /\ a.end \in Length /\ a.end \in Nat
BY Constants DEF AttemptRecord

LEMMA ConIs ==
    ASSUME TypeInv
    PROVE  /\ con \in ConRecord
           /\ con.pc \in {"off", "up", "down"} /\ con.path \in Paths \cup {NoOne}
           /\ con.sid \in Sessions \cup {NoOne} /\ con.dev \in Nat /\ con.ino \in Files \cup {0}
           /\ con.at \in Length /\ con.at \in Nat
           /\ con.pend \in AttemptRecord /\ con.last \in AttemptRecord /\ con.given \subseteq AttemptRecord
           /\ con.whole \in BOOLEAN /\ Consumed \subseteq AttemptRecord
<1>1. con \in ConRecord
    BY DEF TypeInv
<1>2. /\ con.pc \in {"off", "up", "down"} /\ con.path \in Paths \cup {NoOne}
      /\ con.sid \in Sessions \cup {NoOne} /\ con.dev \in Nat /\ con.ino \in Files \cup {0}
      /\ con.at \in Length /\ con.whole \in BOOLEAN
    BY <1>1 DEF ConRecord
<1>3. con.pend \in AttemptRecord /\ con.last \in AttemptRecord /\ con.given \subseteq AttemptRecord
    BY <1>1 DEF ConRecord
<1> QED
    BY <1>1, <1>2, <1>3, Constants DEF Consumed

LEMMA NoneIs == NoAttempt \in AttemptRecord /\ NoAttempt.m = 0 /\ NoAttempt.end = 0 /\ NoCon \in ConRecord
<1>1. NoAttempt \in AttemptRecord /\ NoAttempt.m = 0 /\ NoAttempt.end = 0
    BY Constants DEF NoAttempt, Attempt, AttemptRecord
<1> QED
    BY <1>1, Constants DEF NoCon, ConRecord

LEMMA StoppedIs ==
    ASSUME NEW x \in {"dead", "over"}
    PROVE  LET r == [Off EXCEPT !.pc = x]
           IN  r \in FollowerRecord /\ r.pc = x /\ r.at = 0 /\ r.pend = 0 /\ r.pc \notin Running \cup Waiting
<1>1. Off \in FollowerRecord
    BY Constants DEF Off, FollowerRecord, Running, Waiting
<1>2. [Off EXCEPT !.pc = x] \in FollowerRecord
    BY <1>1 DEF FollowerRecord
<1> QED
    BY <1>2 DEF Off, Running, Waiting

\* What the hooks dealt with stays so when none of them moves.
LEMMA DealtStays ==
    ASSUME UNCHANGED <<hook, handed, cut>>
    PROVE  Dealt' = Dealt
BY DEF Dealt, Held

LEMMA OffIs == Off \in FollowerRecord /\ NoHook \in HookRecord
BY Constants DEF Off, FollowerRecord, NoHook, HookRecord, Running, Waiting


(* --------------------------------------- steps that leave the inboxes be - *)

\* Registration e is d with other cursors, another listener, or more to answer
\* for.
Carries(d, e) ==
    /\ e \in Registration
    /\ e.sid = d.sid /\ e.conn = d.conn /\ e.ino = d.ino /\ e.again = d.again
    /\ d.skipped <= e.skipped /\ (d.foreign => e.foreign)

\* No registration comes, goes or gets another inbox.
DirStays ==
    /\ dir' \in [Paths -> Registration \cup {Vacant}]
    /\ \A p \in Paths : IF Present(p) THEN Carries(dir[p], dir'[p]) ELSE dir'[p] = Vacant

LEMMA CarriesSelf ==
    ASSUME NEW d \in Registration
    PROVE  Carries(d, d)
BY RegistrationIs DEF Carries

LEMMA DirSame ==
    ASSUME TypeInv, dir' = dir
    PROVE  DirStays
BY CarriesSelf, DirIs DEF DirStays, TypeInv

\* One registration is written.
LEMMA DirWrite ==
    ASSUME TypeInv, NEW p \in Paths, Present(p), NEW e, Carries(dir[p], e), dir' = [dir EXCEPT ![p] = e]
    PROVE  DirStays
<1>1. dir \in [Paths -> Registration \cup {Vacant}] /\ e \in Registration
    BY DEF TypeInv, Carries
<1>2. dir' \in [Paths -> Registration \cup {Vacant}]
    BY <1>1
<1>3. \A q \in Paths : dir'[q] = IF q = p THEN e ELSE dir[q]
    BY <1>1
<1>4. \A q \in Paths : Present(q) => dir[q] \in Registration
    BY DirIs
<1>5. \A q \in Paths : ~Present(q) => dir[q] = Vacant
    BY DirIs
<1> QED
    BY <1>2, <1>3, <1>4, <1>5, CarriesSelf DEF DirStays

\* What a write of listener and witness, of the witness alone, or of the ghost
\* of a jump makes of a registration.
LEMMA ListenerWritten ==
    ASSUME NEW d \in Registration, NEW f \in Followers
    PROVE  LET e == [d EXCEPT !.listener = f, !.witness = TRUE]
           IN  /\ Carries(d, e) /\ e.cursor = d.cursor /\ e.stop = d.stop
               /\ e.skipped = d.skipped /\ e.foreign = d.foreign
<1> DEFINE e == [d EXCEPT !.listener = f, !.witness = TRUE]
<1>1. e \in Registration
    BY DEF Registration
<1>2. /\ e.sid = d.sid /\ e.conn = d.conn /\ e.ino = d.ino /\ e.again = d.again
      /\ e.skipped = d.skipped /\ e.foreign = d.foreign /\ e.cursor = d.cursor /\ e.stop = d.stop
    BY DEF Registration
<1> HIDE DEF e
<1> QED
    BY <1>1, <1>2, RegistrationIs DEF Carries, e

LEMMA WitnessWritten ==
    ASSUME NEW d \in Registration, NEW w \in BOOLEAN
    PROVE  LET e == [d EXCEPT !.witness = w]
           IN  /\ Carries(d, e) /\ e.cursor = d.cursor /\ e.stop = d.stop
               /\ e.skipped = d.skipped /\ e.foreign = d.foreign
<1> DEFINE e == [d EXCEPT !.witness = w]
<1>1. e \in Registration
    BY DEF Registration
<1>2. /\ e.sid = d.sid /\ e.conn = d.conn /\ e.ino = d.ino /\ e.again = d.again
      /\ e.skipped = d.skipped /\ e.foreign = d.foreign /\ e.cursor = d.cursor /\ e.stop = d.stop
    BY DEF Registration
<1> HIDE DEF e
<1> QED
    BY <1>1, <1>2, RegistrationIs DEF Carries, e

LEMMA SkipWritten ==
    ASSUME NEW d \in Registration, NEW k \in Length, d.skipped <= k
    PROVE  LET e == [d EXCEPT !.skipped = k]
           IN  /\ Carries(d, e) /\ e.cursor = d.cursor /\ e.stop = d.stop
               /\ e.skipped = k /\ e.foreign = d.foreign
<1> DEFINE e == [d EXCEPT !.skipped = k]
<1>1. e \in Registration
    BY DEF Registration
<1>2. /\ e.sid = d.sid /\ e.conn = d.conn /\ e.ino = d.ino /\ e.again = d.again
      /\ e.skipped = k /\ e.foreign = d.foreign /\ e.cursor = d.cursor /\ e.stop = d.stop
    BY DEF Registration
<1> HIDE DEF e
<1> QED
    BY <1>1, <1>2, RegistrationIs DEF Carries, e


\* The same of values: a directory that carries on another, and files that grew.
DirCarries(d, d2) ==
    \A p \in Paths : IF d[p] # Vacant THEN d[p] \in Registration /\ Carries(d[p], d2[p]) ELSE d2[p] = Vacant
FilesGrow(l, l2) == \A n \in Files : Lines(l[n]) /\ Lines(l2[n]) /\ Grown(l[n], l2[n])

LEMMA StaysCarries ==
    ASSUME TypeInv, DirStays
    PROVE  DirCarries(dir, dir')
BY DirIs DEF DirStays, DirCarries, Present

LEMMA GrowSelf ==
    ASSUME NEW l, \A n \in Files : Lines(l[n])
    PROVE  FilesGrow(l, l)
BY LinesFacts DEF FilesGrow, Grown

LEMMA SettledCarried ==
    ASSUME NEW d \in Registration, NEW e, Carries(d, e), NEW l, NEW l2, FilesGrow(l, l2),
           NEW sh, NEW sh2, sh \subseteq sh2, NEW k \in Nat, Settled(l[d.ino], d, sh, k)
    PROVE  Settled(l2[e.ino], e, sh2, k)
<1>1. /\ e \in Registration /\ e.ino = d.ino /\ e.sid = d.sid /\ d.skipped <= e.skipped
      /\ d.skipped \in Nat /\ e.skipped \in Nat /\ d.ino \in Files
    BY RegistrationIs DEF Carries
<1>2. Lines(l[d.ino]) /\ Lines(l2[d.ino]) /\ Grown(l[d.ino], l2[d.ino])
    BY <1>1 DEF FilesGrow
<1>3. Settled(l2[d.ino], e, sh2, k)
    BY <1>1, <1>2, SettledGrows
<1> QED
    BY <1>1, <1>3

LEMMA CleanBefore ==
    ASSUME NEW d \in Registration, NEW e, Carries(d, e)
    PROVE  /\ e # Vacant /\ e.sid = d.sid /\ e.ino = d.ino /\ e.ino \in Files
           /\ Clean(e) => Clean(d)
BY RegistrationIs DEF Carries, Clean

LEMMA CursorKept ==
    ASSUME NEW d \in Registration, NEW e, Carries(d, e), e.cursor = d.cursor,
           NEW l, NEW l2, FilesGrow(l, l2), NEW sh, NEW sh2, sh \subseteq sh2,
           NEW v, CursorFits(d, l, sh, v)
    PROVE  CursorFits(e, l2, sh2, v)
<1> SUFFICES ASSUME Clean(e), e.cursor.dev = v, e.cursor.ino = e.ino
             PROVE  Settled(l2[e.ino], e, sh2, e.cursor.at)
    BY DEF CursorFits
<1>1. Clean(d) /\ e.ino = d.ino
    BY CleanBefore
<1>2. Settled(l[d.ino], d, sh, d.cursor.at)
    BY <1>1 DEF CursorFits
<1>3. d.cursor.at \in Nat
    BY RegistrationIs, CursorIs
<1>4. Settled(l2[e.ino], e, sh2, d.cursor.at)
    BY <1>2, <1>3, SettledCarried
<1> QED
    BY <1>4

LEMMA ArmedKept ==
    ASSUME NEW d, NEW d2, DirCarries(d, d2), NEW l, NEW l2, FilesGrow(l, l2),
           NEW sh, NEW sh2, sh \subseteq sh2,
           NEW r, r.at \in Nat, FollowerShape(r), ArmedFits(r, d, l, sh)
    PROVE  ArmedFits(r, d2, l2, sh2)
<1> SUFFICES ASSUME r.pc = "armed", r.at > 0, ~r.moved
             PROVE  /\ d2[r.path] # Vacant /\ d2[r.path].sid = r.sid
                    /\ Clean(d2[r.path]) => Settled(l2[d2[r.path].ino], d2[r.path], sh2, r.at)
    BY DEF ArmedFits
<1>1. r.path \in Paths
    BY DEF FollowerShape, Waiting
<1>2. /\ d[r.path] # Vacant /\ d[r.path].sid = r.sid
      /\ Clean(d[r.path]) => Settled(l[d[r.path].ino], d[r.path], sh, r.at)
    BY DEF ArmedFits
<1>3. d[r.path] \in Registration /\ Carries(d[r.path], d2[r.path])
    BY <1>1, <1>2 DEF DirCarries
<1> DEFINE u == d[r.path]
           e == d2[r.path]
<1>4. u \in Registration /\ Carries(u, e) /\ u.sid = r.sid /\ (Clean(u) => Settled(l[u.ino], u, sh, r.at))
    BY <1>2, <1>3
<1> HIDE DEF u, e
<1>5. e # Vacant /\ e.sid = r.sid /\ (Clean(e) => Clean(u))
    BY <1>4, CleanBefore
<1>6. ASSUME Clean(e) PROVE Settled(l2[e.ino], e, sh2, r.at)
    BY <1>4, <1>5, <1>6, SettledCarried
<1> QED
    BY <1>5, <1>6 DEF u, e

LEMMA OpenKept ==
    ASSUME NEW d, NEW d2, DirCarries(d, d2), NEW l, NEW l2, FilesGrow(l, l2),
           NEW sh, NEW sh2, sh \subseteq sh2,
           NEW r, r.at \in Nat, r.pend \in Nat, FollowerShape(r), OpenFits(r, d, l, sh)
    PROVE  OpenFits(r, d2, l2, sh2)
<1> SUFFICES ASSUME r.pc \in Running, ~r.late, NEW p \in Paths, Clean(d2[p]), d2[p].ino = r.ino
             PROVE  Settled(l2[d2[p].ino], d2[p], sh2, r.at - r.pend)
    BY DEF OpenFits
<1>1. d[p] # Vacant
    BY DEF DirCarries, Clean
<1>2. d[p] \in Registration /\ Carries(d[p], d2[p])
    BY <1>1 DEF DirCarries
<1>3. Clean(d[p]) /\ d2[p].ino = d[p].ino
    BY <1>2, CleanBefore
<1> DEFINE k == r.at - r.pend
<1>4. Settled(l[d[p].ino], d[p], sh, k)
    BY <1>3 DEF OpenFits
<1>5. k \in Nat
    BY DEF FollowerShape
<1> HIDE DEF k
<1>6. Settled(l2[d2[p].ino], d2[p], sh2, k)
    BY <1>2, <1>4, <1>5, SettledCarried
<1> QED
    BY <1>6 DEF k

LEMMA StopKept ==
    ASSUME NEW d \in Registration, NEW e, Carries(d, e), e.stop = d.stop,
           NEW l, NEW l2, FilesGrow(l, l2), NEW dn, NEW dn2, dn \subseteq dn2,
           NEW v, StopFits(d, l, dn, v)
    PROVE  StopFits(e, l2, dn2, v)
<1> SUFFICES ASSUME Clean(e), e.stop.dev = v, e.stop.ino = e.ino
             PROVE  Passed(l2[e.ino], e.sid, dn2, e.stop.at)
    BY DEF StopFits
<1>1. Clean(d) /\ e.ino = d.ino /\ e.sid = d.sid /\ d.ino \in Files
    BY CleanBefore
<1>2. Passed(l[d.ino], d.sid, dn, d.stop.at)
    BY <1>1 DEF StopFits
<1>3. d.stop.at \in Nat
    BY RegistrationIs, CursorIs
<1>4. Lines(l[d.ino]) /\ Lines(l2[d.ino]) /\ Grown(l[d.ino], l2[d.ino])
    BY <1>1 DEF FilesGrow
<1>5. Passed(l2[d.ino], d.sid, dn2, d.stop.at)
    BY <1>2, <1>3, <1>4, PassedGrows
<1> QED
    BY <1>1, <1>5

LEMMA HookKept ==
    ASSUME NEW d, NEW d2, DirCarries(d, d2), NEW l, NEW l2, FilesGrow(l, l2),
           NEW dn, NEW dn2, dn \subseteq dn2,
           NEW h, NEW s, h.at \in Nat, HookShape(h), HookFits(h, s, d, l, dn)
    PROVE  HookFits(h, s, d2, l2, dn2)
<1> SUFFICES ASSUME h.pc = "look", h.own
             PROVE  /\ d2[h.path] # Vacant /\ d2[h.path].sid = s /\ d2[h.path].ino = h.ino
                    /\ Clean(d2[h.path]) => Passed(l2[h.ino], s, dn2, h.at)
    BY DEF HookFits
<1>1. h.path \in Paths
    BY DEF HookShape
<1>2. /\ d[h.path] # Vacant /\ d[h.path].sid = s /\ d[h.path].ino = h.ino
      /\ Clean(d[h.path]) => Passed(l[h.ino], s, dn, h.at)
    BY DEF HookFits
<1>3. d[h.path] \in Registration /\ Carries(d[h.path], d2[h.path])
    BY <1>1, <1>2 DEF DirCarries
<1>4. /\ d2[h.path] # Vacant /\ d2[h.path].sid = s /\ d2[h.path].ino = h.ino /\ h.ino \in Files
      /\ Clean(d2[h.path]) => Clean(d[h.path])
    BY <1>2, <1>3, CleanBefore
<1>5. Lines(l[h.ino]) /\ Lines(l2[h.ino]) /\ Grown(l[h.ino], l2[h.ino])
    BY <1>4 DEF FilesGrow
<1> QED
    BY <1>2, <1>4, <1>5, PassedGrows

\* The parts of the invariant that say nothing of positions, when no file is
\* written.
LEMMA FileKept ==
    ASSUME TypeInv, FileInv, DirStays, UNCHANGED <<file, to>>
    PROVE  FileInv'
<1>1. \A p \in Paths : dir'[p] # Vacant => Present(p) /\ dir'[p].ino = dir[p].ino /\ dir'[p].sid = dir[p].sid
    BY DEF DirStays, Carries
<1>2. Sent' = Sent
    BY DEF Sent
<1> QED
    BY <1>1, <1>2 DEF FileInv, Present

LEMMA DirKept ==
    ASSUME TypeInv, DirInv, DirStays, UNCHANGED <<file, writer>>,
           con.pc # "off" => con'.pc # "off" /\ con'.path = con.path /\ con'.sid = con.sid,
           con'.dev <= dev',
           \A p \in Paths : Present(p) => dir'[p].cursor.dev <= dev' /\ dir'[p].stop.dev <= dev'
    PROVE  DirInv'
<1>1. \A p \in Paths : /\ dir'[p] # Vacant <=> Present(p)
                       /\ Present(p) => /\ dir'[p].ino = dir[p].ino /\ dir'[p].sid = dir[p].sid
                                        /\ dir'[p].conn = dir[p].conn
    BY RegistrationIs DEF DirStays, Carries
<1>2. \A p \in Paths : Present(p)' <=> Present(p)
    BY <1>1 DEF Present
<1>3. \A p \in Paths : Managed(p)' <=> Managed(p)
    BY <1>1, <1>2 DEF Managed
<1>4. \A p, q \in Paths : Present(p)' /\ Present(q)' /\ dir'[p].ino = dir'[q].ino => p = q
    BY <1>1, <1>2 DEF DirInv
<1>5. \A p \in Paths : Managed(p)' => con'.pc # "off" /\ con'.path = p /\ dir'[p].sid = con'.sid
    BY <1>1, <1>3 DEF DirInv, Managed
<1>6. \A p \in Paths : writer' = p =>
          /\ Present(p)' /\ Len(file'[dir'[p].ino]) > 0
          /\ ~Ends(file'[dir'[p].ino][Len(file'[dir'[p].ino])])
    BY <1>1, <1>2 DEF DirInv
<1> QED
    BY <1>2, <1>4, <1>5, <1>6 DEF DirInv

LEMMA ReadsKept ==
    ASSUME TypeInv, DirStays, NEW r, Reads(r, dir, file, to)
    PROVE  Reads(r, dir', file, to)
<1>1. \A p \in Paths : dir'[p] # Vacant => Present(p) /\ dir'[p].ino = dir[p].ino /\ dir'[p].sid = dir[p].sid
    BY DEF DirStays, Carries
<1> QED
    BY <1>1 DEF Reads, Present


LEMMA OwnedKept ==
    ASSUME TypeInv, ShapeInv, DirStays, con.pc # "off", con'.pc # "off", con'.path = con.path, con'.sid = con.sid
    PROVE  /\ Owned' <=> Owned
           /\ Owned => /\ con.path \in Paths /\ dir[con.path] \in Registration
                       /\ dir'[con'.path].ino = dir[con.path].ino /\ dir'[con'.path].again = dir[con.path].again
<1>1. con.path \in Paths
    BY DEF ShapeInv
<1>2. /\ dir'[con.path] # Vacant <=> Present(con.path)
      /\ Present(con.path) => /\ dir'[con.path].ino = dir[con.path].ino /\ dir'[con.path].sid = dir[con.path].sid
                              /\ dir'[con.path].conn = dir[con.path].conn
                              /\ dir'[con.path].again = dir[con.path].again
    BY <1>1, RegistrationIs DEF DirStays, Carries
<1>3. Owned => dir[con.path] \in Registration
    BY <1>1, DirIs DEF Owned
<1> QED
    BY <1>1, <1>2, <1>3 DEF Owned, Managed, Present

LEMMA OffsetKept ==
    ASSUME TypeInv, ShapeInv, OffsetInv, DirStays, UNCHANGED <<file, writer, con, dev, to, taken>>
    PROVE  OffsetInv'
<1>1. CASE con.pc = "off"
    BY <1>1 DEF OffsetInv, Owned, Consumed, Sent
<1>2. CASE con.pc # "off"
  <2>1. /\ Owned' <=> Owned
        /\ Owned => dir'[con.path].ino = dir[con.path].ino /\ dir'[con.path].again = dir[con.path].again
      BY <1>2, OwnedKept
  <2>2. Consumed' = Consumed /\ Sent' = Sent
      BY DEF Consumed, Sent
  <2>3. Owned => Inbox' = Inbox
      BY <2>1 DEF Inbox
  <2>4. \A a \in Consumed' : a.m = 0 \/ a.m \in Sent'
      BY <2>2 DEF OffsetInv
  <2>5. ASSUME Owned', ~dir'[con'.path].again
        PROVE  /\ \A a \in Consumed', i \in 1 .. Len(Inbox') :
                    Ends(Inbox'[i]) /\ Message(Inbox'[i]) <= a.m => <<con'.sid, Message(Inbox'[i])>> \in taken'
               /\ writer' = con'.path => \A a \in Consumed' : a.m < Whose(Inbox'[Len(Inbox')])
               /\ con'.dev = dev' /\ dir'[con'.path].ino = con'.ino => Passed(Inbox', con'.sid, taken', con'.at)
      BY <2>1, <2>2, <2>3, <2>5 DEF OffsetInv
  <2> QED
      BY <2>4, <2>5 DEF OffsetInv
<1> QED
    BY <1>1, <1>2

(* ------------------------------------------------- a step of a follower - *)

\* What follower f becomes, what it writes into a directory and what it shows
\* fit.
LEMMA ReaderStep ==
    ASSUME IInv, NEW f \in Followers, NEW r \in FollowerRecord, fol' = [fol EXCEPT ![f] = r],
           ReadOnly, DirStays, seen \subseteq seen', FollowerShape(r), Reads(r, dir, file, to),
           \A x \in seen' : x \in seen \/ (x[2] \in Sent /\ to[x[2]] = x[1]),
           \A p \in Paths : Present(p) =>
               /\ dir'[p].stop = dir[p].stop
               /\ \/ dir'[p].cursor = dir[p].cursor
                  \/ dir'[p].cursor.dev <= dev /\ CursorFits(dir'[p], file, seen', dev),
           ArmedFits(r, dir', file, seen'), OpenFits(r, dir', file, seen')
    PROVE  IInv'
<1>0. /\ TypeInv /\ ShapeInv /\ DirInv /\ FileInv /\ ReaderInv
      /\ CursorInv /\ ArmedInv /\ OpenInv /\ StopInv /\ HookInv /\ OffsetInv /\ OwnInv
    BY DEF IInv
<1>1. UNCHANGED <<file, hook, writer, con, dev, to, Dealt, taken>>
    BY DealtStays DEF ReadOnly
<1>2. fol' \in [Followers -> FollowerRecord] /\ \A g \in Followers : fol'[g] = IF g = f THEN r ELSE fol[g]
    BY <1>0 DEF TypeInv
<1>3. TypeInv'
    BY <1>0, <1>1, <1>2 DEF TypeInv, DirStays
<1>4. ShapeInv'
  <2>1. \A g \in Followers : FollowerShape(fol'[g])
      BY <1>0, <1>2 DEF ShapeInv
  <2>2. \A s \in Sessions : HookShape(hook[s])'
      BY <1>0, <1>1 DEF ShapeInv, HookShape
  <2> QED
      BY <2>1, <2>2, <1>0, <1>1 DEF ShapeInv, FollowerShape
<1>5. DirInv'
  <2>1. \A p \in Paths : Present(p) => dir'[p].cursor.dev <= dev' /\ dir'[p].stop.dev <= dev'
      BY <1>0, <1>1 DEF DirInv
  <2> QED
      BY <2>1, <1>0, <1>1, DirKept DEF DirInv
<1>6. FileInv'
    BY <1>0, <1>1, FileKept
<1>7. ReaderInv'
  <2>1. \A g \in Followers : Reads(fol'[g], dir, file, to)
      BY <1>0, <1>2 DEF ReaderInv
  <2> QED
      BY <2>1, <1>0, <1>1, ReadsKept DEF ReaderInv
<1>8. FilesGrow(file, file') /\ DirCarries(dir, dir')
    BY <1>0, <1>1, GrowSelf, StaysCarries DEF FileInv
<1>9. \A p \in Paths : dir'[p] # Vacant =>
          Present(p) /\ dir[p] # Vacant /\ dir[p] \in Registration /\ Carries(dir[p], dir'[p])
    BY <1>8 DEF DirCarries, Present
<1>10. CursorInv'
  <2> SUFFICES ASSUME NEW p \in Paths PROVE CursorFits(dir'[p], file', seen', dev')
      BY DEF CursorInv
  <2>1. CASE dir'[p] = Vacant
      BY <2>1 DEF CursorFits, Clean
  <2>2. CASE dir'[p] # Vacant /\ dir'[p].cursor = dir[p].cursor
    <3>1. CursorFits(dir[p], file, seen, dev)
        BY <1>0 DEF CursorInv
    <3>2. CursorFits(dir'[p], file', seen', dev)
        BY <3>1, <2>2, <1>8, <1>9, CursorKept
    <3> QED
        BY <3>2, <1>1
  <2>3. CASE dir'[p] # Vacant /\ CursorFits(dir'[p], file, seen', dev)
      BY <2>3, <1>1
  <2> QED
      BY <2>1, <2>2, <2>3, <1>9
<1>11. ArmedInv'
  <2> SUFFICES ASSUME NEW g \in Followers PROVE ArmedFits(fol'[g], dir', file', seen')
      BY DEF ArmedInv
  <2>1. CASE g = f
      BY <2>1, <1>1, <1>2
  <2>2. CASE g # f
    <3>1. ArmedFits(fol[g], dir, file, seen) /\ FollowerShape(fol[g]) /\ fol[g].at \in Nat
        BY <1>0, FolIs DEF ArmedInv, ShapeInv
    <3> QED
        BY <3>1, <2>2, <1>2, <1>8, ArmedKept
  <2> QED
      BY <2>1, <2>2
<1>12. OpenInv'
  <2> SUFFICES ASSUME NEW g \in Followers PROVE OpenFits(fol'[g], dir', file', seen')
      BY DEF OpenInv
  <2>1. CASE g = f
      BY <2>1, <1>1, <1>2
  <2>2. CASE g # f
    <3>1. /\ OpenFits(fol[g], dir, file, seen) /\ FollowerShape(fol[g])
          /\ fol[g].at \in Nat /\ fol[g].pend \in Nat
        BY <1>0, FolIs DEF OpenInv, ShapeInv
    <3> QED
        BY <3>1, <2>2, <1>2, <1>8, OpenKept
  <2> QED
      BY <2>1, <2>2
<1>13. StopInv'
  <2> SUFFICES ASSUME NEW p \in Paths PROVE StopFits(dir'[p], file', Dealt', dev')
      BY DEF StopInv
  <2>1. CASE dir'[p] = Vacant
      BY <2>1 DEF StopFits, Clean
  <2>2. CASE dir'[p] # Vacant
    <3>1. StopFits(dir[p], file, Dealt, dev) /\ Dealt \subseteq Dealt'
        BY <1>0, <1>1 DEF StopInv
    <3>2. StopFits(dir'[p], file', Dealt', dev)
        BY <3>1, <2>2, <1>8, <1>9, StopKept
    <3> QED
        BY <3>2, <1>1
  <2> QED
      BY <2>1, <2>2
<1>14. HookInv'
  <2> SUFFICES ASSUME NEW s \in Sessions PROVE HookFits(hook'[s], s, dir', file', Dealt')
      BY DEF HookInv
  <2>1. HookFits(hook[s], s, dir, file, Dealt) /\ HookShape(hook[s]) /\ hook[s].at \in Nat /\ Dealt \subseteq Dealt'
      BY <1>0, <1>1, HookIs DEF HookInv, ShapeInv
  <2>2. HookFits(hook[s], s, dir', file', Dealt')
      BY <2>1, <1>8, HookKept
  <2> QED
      BY <2>2, <1>1
<1>15. OffsetInv'
    BY <1>0, <1>1, OffsetKept
<1>16. OwnInv'
    BY <1>0, <1>1 DEF OwnInv, OwnMailOnly, Sent
<1> QED
    BY <1>3, <1>4, <1>5, <1>6, <1>7, <1>10, <1>11, <1>12, <1>13, <1>14, <1>15, <1>16 DEF IInv


\* A follower that does not run has nothing to fit.
LEMMA IdleFits ==
    ASSUME NEW r, r.pc \notin Running \cup Waiting, NEW d, NEW l, NEW sh, NEW who
    PROVE  Reads(r, d, l, who) /\ ArmedFits(r, d, l, sh) /\ OpenFits(r, d, l, sh)
BY DEF Reads, ArmedFits, OpenFits, Waiting

\* Nor has one that goes on at the same place.
LEMMA SamePlaceFits ==
    ASSUME NEW f \in Followers, fol[f].pc \in Running, NEW r, r.pc \in Running,
           r.path = fol[f].path, r.sid = fol[f].sid, r.ino = fol[f].ino, r.at = fol[f].at,
           r.pend = fol[f].pend, r.late = fol[f].late,
           ReaderInv, OpenInv, ShapeInv, r.pc # "seed"
    PROVE  /\ Reads(r, dir, file, to) /\ ArmedFits(r, dir, file, seen) /\ OpenFits(r, dir, file, seen)
           /\ FollowerShape(r)
<1>1. Reads(fol[f], dir, file, to) /\ OpenFits(fol[f], dir, file, seen) /\ FollowerShape(fol[f])
    BY DEF ReaderInv, OpenInv, ShapeInv
<1>2. r.pc # "armed" /\ r.pc \notin Waiting
    BY DEF Running, Waiting
<1> QED
    BY <1>1, <1>2 DEF Reads, ArmedFits, OpenFits, FollowerShape

\* A step that writes no directory and shows nothing.
LEMMA QuietStep ==
    ASSUME IInv, NEW f \in Followers, NEW r \in FollowerRecord, fol' = [fol EXCEPT ![f] = r],
           ReadOnly, UNCHANGED <<dir, seen>>, FollowerShape(r), Reads(r, dir, file, to),
           ArmedFits(r, dir, file, seen), OpenFits(r, dir, file, seen)
    PROVE  IInv'
<1>1. TypeInv
    BY DEF IInv
<1>2. DirStays
    BY <1>1, DirSame
<1> QED
    BY <1>2, ReaderStep

LEMMA DieStep ==
    ASSUME IInv, NEW f \in Followers, Die(f)
    PROVE  IInv'
<1> DEFINE r == [Off EXCEPT !.pc = "dead"]
<1>1. fol' = [fol EXCEPT ![f] = r] /\ ReadOnly /\ UNCHANGED <<dir, seen>>
    BY DEF Die
<1>2. r \in FollowerRecord /\ r.pc = "dead" /\ r.pend <= r.at /\ r.pc \notin Running \cup Waiting
    BY StoppedIs
<1> HIDE DEF r
<1>3. r.pc \notin Running \cup Waiting /\ FollowerShape(r)
    BY <1>2 DEF Running, Waiting, FollowerShape
<1> QED
    BY <1>1, <1>2, <1>3, IdleFits, QuietStep

LEMMA QuietsStep ==
    ASSUME IInv, NEW f \in Followers, Quiet(f)
    PROVE  IInv'
<1>0. TypeInv /\ ShapeInv /\ ReaderInv /\ OpenInv
    BY DEF IInv
<1> DEFINE y == IF fol[f].ticks = IdleEvery THEN fol[f].ticks ELSE fol[f].ticks + 1
           x == IF Boundary(f) # fol[f].saved \/ fol[f].ticks + 1 >= IdleEvery THEN "check" ELSE "poll"
           r == [fol[f] EXCEPT !.ticks = y, !.pc = x]
<1>1. fol' = [fol EXCEPT ![f] = r] /\ ReadOnly /\ UNCHANGED <<dir, seen>> /\ fol[f].pc = "read"
    BY DEF Quiet
<1>a. fol[f] \in FollowerRecord /\ fol[f].ticks \in Nat
    BY <1>0, FolIs
<1>b. y \in Nat
    BY <1>a
<1>c. x \in {"check", "poll"}
    OBVIOUS
<1> HIDE DEF x, y
<1>2. /\ r \in FollowerRecord /\ r.pc \in {"check", "poll"}
      /\ r.path = fol[f].path /\ r.sid = fol[f].sid /\ r.ino = fol[f].ino /\ r.at = fol[f].at
      /\ r.pend = fol[f].pend /\ r.late = fol[f].late
    BY <1>a, <1>b, <1>c DEF FollowerRecord, Running, Waiting
<1> HIDE DEF r
<1>3. r.pc \in Running /\ r.pc # "seed" /\ fol[f].pc \in Running
    BY <1>1, <1>2 DEF Running
<1> QED
    BY <1>0, <1>1, <1>2, <1>3, SamePlaceFits, QuietStep

LEMMA PollStep ==
    ASSUME IInv, NEW f \in Followers, Poll(f)
    PROVE  IInv'
<1>0. TypeInv /\ ShapeInv /\ ReaderInv /\ OpenInv
    BY DEF IInv
<1> DEFINE r == [fol[f] EXCEPT !.pc = IF Present(fol[f].path) /\ Rotated(f) THEN "turned" ELSE "read"]
<1>1. fol' = [fol EXCEPT ![f] = r] /\ ReadOnly /\ UNCHANGED <<dir, seen>> /\ fol[f].pc = "poll"
    BY DEF Poll
<1>2. /\ r \in FollowerRecord /\ r.pc \in {"turned", "read"}
      /\ r.path = fol[f].path /\ r.sid = fol[f].sid /\ r.ino = fol[f].ino /\ r.at = fol[f].at
      /\ r.pend = fol[f].pend /\ r.late = fol[f].late
    BY <1>0, FolIs, Constants DEF FollowerRecord, Running, Waiting
<1> HIDE DEF r
<1>3. r.pc \in Running /\ r.pc # "seed" /\ fol[f].pc \in Running
    BY <1>1, <1>2 DEF Running
<1> QED
    BY <1>0, <1>1, <1>2, <1>3, SamePlaceFits, QuietStep

LEMMA CheckStep ==
    ASSUME IInv, NEW f \in Followers, Check(f)
    PROVE  IInv'
<1>0. TypeInv /\ ShapeInv /\ ReaderInv /\ OpenInv
    BY DEF IInv
<1>1. ReadOnly /\ UNCHANGED <<dir, seen>> /\ fol[f].pc \in {"check", "turned"}
    BY DEF Check
<1>2. fol[f].pc \in Running
    BY <1>1 DEF Running
<1>3. fol[f].path \in Paths /\ FollowerShape(fol[f]) /\ fol[f] \in FollowerRecord
    BY <1>0, <1>2, FolIs DEF ShapeInv, FollowerShape
<1>4. CASE ~StillListener(f)
  <2> DEFINE r == [Off EXCEPT !.pc = "over"]
  <2>1. fol' = [fol EXCEPT ![f] = r]
      BY <1>4 DEF Check
  <2>2. r \in FollowerRecord /\ r.pc = "over" /\ r.pend <= r.at /\ r.pc \notin Running \cup Waiting
      BY StoppedIs
  <2> HIDE DEF r
  <2>3. r.pc \notin Running \cup Waiting /\ FollowerShape(r)
      BY <2>2 DEF Running, Waiting, FollowerShape
  <2> QED
      BY <1>1, <2>1, <2>2, <2>3, IdleFits, QuietStep
<1>5. CASE StillListener(f) /\ fol[f].pc = "turned"
  <2> DEFINE r == [fol[f] EXCEPT !.pc = "reopen", !.sure = TRUE]
  <2>1. fol' = [fol EXCEPT ![f] = r]
      BY <1>5 DEF Check
  <2>2. r \in FollowerRecord /\ r.pc = "reopen" /\ r.sure /\ r.path = fol[f].path /\ r.pend = fol[f].pend /\ r.at = fol[f].at
      BY <1>3 DEF FollowerRecord, Running, Waiting
  <2> HIDE DEF r
  <2>3. /\ r.pc \notin Running /\ r.pc # "armed" /\ FollowerShape(r)
      BY <1>3, <2>2 DEF Running, FollowerShape
  <2>4. Reads(r, dir, file, to) /\ ArmedFits(r, dir, file, seen) /\ OpenFits(r, dir, file, seen)
      BY <2>3 DEF Reads, ArmedFits, OpenFits
  <2> QED
      BY <1>1, <2>1, <2>2, <2>3, <2>4, QuietStep
<1>6. CASE StillListener(f) /\ fol[f].pc # "turned"
  <2> DEFINE r == IF Boundary(f) # fol[f].saved THEN [fol[f] EXCEPT !.pc = "save"]
                  ELSE [fol[f] EXCEPT !.pc = "poll", !.ticks = 0]
  <2>1. fol' = [fol EXCEPT ![f] = r]
      BY <1>6 DEF Check
  <2>2. /\ r \in FollowerRecord /\ r.pc \in {"save", "poll"}
        /\ r.path = fol[f].path /\ r.sid = fol[f].sid /\ r.ino = fol[f].ino /\ r.at = fol[f].at
        /\ r.pend = fol[f].pend /\ r.late = fol[f].late
      BY <1>3 DEF FollowerRecord, Running, Waiting
  <2> HIDE DEF r
  <2>3. r.pc \in Running /\ r.pc # "seed"
      BY <2>2 DEF Running
  <2> QED
      BY <1>0, <1>1, <1>2, <2>1, <2>2, <2>3, SamePlaceFits, QuietStep
<1> QED
    BY <1>4, <1>5, <1>6


\* A follower writes the cursor at its boundary.
LEMMA CursorStep ==
    ASSUME IInv, NEW f \in Followers, fol[f].pc \in Running, WriteCursor(f, Boundary(f))
    PROVE  /\ DirStays
           /\ \A p \in Paths : Present(p) =>
                 /\ dir'[p].stop = dir[p].stop
                 /\ \/ dir'[p].cursor = dir[p].cursor
                    \/ dir'[p].cursor.dev <= dev /\ CursorFits(dir'[p], file, seen, dev)
<1>0. TypeInv /\ FileInv /\ ShapeInv /\ OpenInv /\ dev \in Nat
    BY DEF IInv, TypeInv
<1> DEFINE p == fol[f].path
           k == Boundary(f)
<1>1. FollowerShape(fol[f]) /\ fol[f].at \in Nat /\ fol[f].pend \in Nat /\ fol[f].at \in Length
    BY <1>0, FolIs DEF ShapeInv
<1>2. p \in Paths /\ fol[f].ino \in Files /\ fol[f].pend <= fol[f].at
    BY <1>1 DEF FollowerShape
<1>3. k = fol[f].at - fol[f].pend /\ k \in Nat /\ k \in Length
    BY <1>1, <1>2, Constants DEF Boundary, Length
<1>4. Present(p) /\ dir[p] \in Registration
    BY <1>0, <1>2, DirIs DEF WriteCursor
<1>a. \E c \in Cursor : c = [dev |-> dev, ino |-> fol[f].ino, at |-> k]
    BY <1>0, <1>2, <1>3 DEF Cursor
<1>b. PICK c \in Cursor : c = [dev |-> dev, ino |-> fol[f].ino, at |-> k]
    BY <1>a
<1>5. c \in Cursor /\ c.dev = dev /\ c.ino = fol[f].ino /\ c.at = k
    BY <1>b
<1>c. PICK b \in BOOLEAN : b = (dir[p].foreign \/ (fol[f].late /\ fol[f].ino = dir[p].ino))
    OBVIOUS
<1>6. b \in BOOLEAN /\ (dir[p].foreign => b) /\ (b <=> dir[p].foreign \/ (fol[f].late /\ fol[f].ino = dir[p].ino))
    BY <1>c
<1> DEFINE e == [dir[p] EXCEPT !.cursor = c, !.foreign = b]
<1>7. dir' = [dir EXCEPT ![p] = e]
    BY <1>0, <1>b, <1>c DEF WriteCursor, TypeInv
<1>d. e \in Registration
    BY <1>4, <1>5, <1>6 DEF Registration
<1>e. /\ e.sid = dir[p].sid /\ e.conn = dir[p].conn /\ e.ino = dir[p].ino /\ e.again = dir[p].again
      /\ e.skipped = dir[p].skipped /\ e.foreign = b /\ e.cursor = c /\ e.stop = dir[p].stop
    BY <1>4 DEF Registration
<1> HIDE DEF e
<1>8. /\ Carries(dir[p], e) /\ e.cursor = c /\ e.stop = dir[p].stop /\ e.foreign = b
    BY <1>4, <1>6, <1>d, <1>e, RegistrationIs DEF Carries
<1>9. DirStays
    BY <1>0, <1>2, <1>4, <1>7, <1>8, DirWrite
<1>10. \A q \in Paths : dir'[q] = IF q = p THEN e ELSE dir[q]
    BY <1>0, <1>7 DEF TypeInv
<1>11. CursorFits(e, file, seen, dev)
  <2> SUFFICES ASSUME Clean(e), e.cursor.dev = dev, e.cursor.ino = e.ino
               PROVE  Settled(file[e.ino], e, seen, e.cursor.at)
      BY DEF CursorFits
  <2>1. Clean(dir[p]) /\ e.ino = dir[p].ino
      BY <1>4, <1>8, CleanBefore
  <2>2. fol[f].ino = dir[p].ino /\ ~fol[f].late
      BY <1>5, <1>6, <1>8, <2>1 DEF Clean
  <2>3. Settled(file[dir[p].ino], dir[p], seen, k)
      BY <2>1, <2>2, <1>0, <1>2, <1>3 DEF OpenInv, OpenFits
  <2>4. FilesGrow(file, file)
      BY <1>0, GrowSelf DEF FileInv
  <2>5. Settled(file[e.ino], e, seen, k)
      BY <2>3, <2>4, <1>3, <1>4, <1>8, SettledCarried
  <2> QED
      BY <2>5, <1>5, <1>8
<1>12. e.cursor.dev <= dev
    BY <1>0, <1>5, <1>8
<1> HIDE DEF p
<1>13. \A q \in Paths : Present(q) =>
          /\ dir'[q].stop = dir[q].stop
          /\ \/ dir'[q].cursor = dir[q].cursor
             \/ dir'[q].cursor.dev <= dev /\ CursorFits(dir'[q], file, seen, dev)
    BY <1>8, <1>10, <1>11, <1>12
<1> QED
    BY <1>9, <1>13

\* A step after which the follower is where it was, with a cursor or without.
LEMMA SavingStep ==
    ASSUME IInv, NEW f \in Followers, fol[f].pc \in Running, ReadOnly, UNCHANGED seen,
           NEW r \in FollowerRecord, fol' = [fol EXCEPT ![f] = r], r.pc \in Running, r.pc # "seed",
           r.path = fol[f].path, r.sid = fol[f].sid, r.ino = fol[f].ino, r.at = fol[f].at,
           r.pend = fol[f].pend, r.late = fol[f].late,
           UNCHANGED dir \/ WriteCursor(f, Boundary(f))
    PROVE  IInv'
<1>0. TypeInv /\ FileInv /\ ShapeInv /\ OpenInv /\ ReaderInv
    BY DEF IInv
<1>1. /\ Reads(r, dir, file, to) /\ ArmedFits(r, dir, file, seen) /\ OpenFits(r, dir, file, seen)
      /\ FollowerShape(r)
    BY <1>0, SamePlaceFits
<1>2. CASE UNCHANGED dir
    BY <1>1, <1>2, QuietStep
<1>3. CASE WriteCursor(f, Boundary(f))
  <2>1. /\ DirStays
        /\ \A p \in Paths : Present(p) =>
              /\ dir'[p].stop = dir[p].stop
              /\ \/ dir'[p].cursor = dir[p].cursor
                 \/ dir'[p].cursor.dev <= dev /\ CursorFits(dir'[p], file, seen, dev)
      BY <1>3, CursorStep
  <2>2. DirCarries(dir, dir') /\ FilesGrow(file, file)
      BY <2>1, <1>0, StaysCarries, GrowSelf DEF FileInv
  <2>3. r.at \in Nat /\ r.pend \in Nat
      BY <1>0, FolIs
  <2>4. ArmedFits(r, dir', file, seen) /\ OpenFits(r, dir', file, seen)
      BY <1>1, <2>2, <2>3, ArmedKept, OpenKept
  <2>5. /\ seen \subseteq seen' /\ ArmedFits(r, dir', file, seen') /\ OpenFits(r, dir', file, seen')
        /\ \A x \in seen' : x \in seen \/ (x[2] \in Sent /\ to[x[2]] = x[1])
        /\ \A p \in Paths : Present(p) =>
              /\ dir'[p].stop = dir[p].stop
              /\ \/ dir'[p].cursor = dir[p].cursor
                 \/ dir'[p].cursor.dev <= dev /\ CursorFits(dir'[p], file, seen', dev)
      BY <2>1, <2>4
  <2> QED
      BY <1>1, <2>1, <2>5, ReaderStep
<1> QED
    BY <1>2, <1>3

LEMMA SeedStep ==
    ASSUME IInv, NEW f \in Followers, Seed(f)
    PROVE  IInv'
<1>0. TypeInv /\ ShapeInv
    BY DEF IInv
<1> DEFINE r == [fol[f] EXCEPT !.pc = "read"]
<1>1. fol' = [fol EXCEPT ![f] = r] /\ ReadOnly /\ UNCHANGED seen /\ fol[f].pc = "seed"
    BY DEF Seed
<1>2. fol[f] \in FollowerRecord /\ fol[f].at \in Nat /\ fol[f].pend = 0
    BY <1>0, <1>1, FolIs DEF ShapeInv, FollowerShape
<1>3. /\ r \in FollowerRecord /\ r.pc = "read"
      /\ r.path = fol[f].path /\ r.sid = fol[f].sid /\ r.ino = fol[f].ino /\ r.at = fol[f].at
      /\ r.pend = fol[f].pend /\ r.late = fol[f].late
    BY <1>2 DEF FollowerRecord, Running, Waiting
<1>4. Boundary(f) = fol[f].at
    BY <1>2 DEF Boundary
<1>5. UNCHANGED dir \/ WriteCursor(f, Boundary(f))
    BY <1>4 DEF Seed
<1> HIDE DEF r
<1>6. r.pc \in Running /\ r.pc # "seed" /\ fol[f].pc \in Running
    BY <1>1, <1>3 DEF Running
<1> QED
    BY <1>1, <1>3, <1>5, <1>6, SavingStep

LEMMA SaveStep ==
    ASSUME IInv, NEW f \in Followers, Save(f)
    PROVE  IInv'
<1>0. TypeInv /\ ShapeInv
    BY DEF IInv
<1>1. ReadOnly /\ UNCHANGED seen /\ fol[f].pc = "save"
    BY DEF Save
<1>2. fol[f] \in FollowerRecord /\ fol[f].at \in Nat /\ fol[f].pend \in Nat /\ fol[f].pend <= fol[f].at /\ fol[f].at \in Length
    BY <1>0, FolIs DEF ShapeInv, FollowerShape
<1>3. Boundary(f) \in Length
    BY <1>2, Constants DEF Boundary, Length
<1>4. PICK w \in Length : /\ fol' = [fol EXCEPT ![f].pc = "poll", ![f].ticks = 0, ![f].saved = w]
                          /\ UNCHANGED dir \/ WriteCursor(f, Boundary(f))
  <2>1. CASE WriteCursor(f, Boundary(f)) /\ fol' = [fol EXCEPT ![f].pc = "poll", ![f].ticks = 0, ![f].saved = Boundary(f)]
      BY <2>1, <1>3
  <2>2. CASE UNCHANGED dir /\ fol' = [fol EXCEPT ![f].pc = "poll", ![f].ticks = 0]
    <3>1. fol[f].saved \in Length /\ fol \in [Followers -> FollowerRecord]
        BY <1>0, FolIs DEF TypeInv
    <3>2. [fol[f] EXCEPT !.pc = "poll", !.ticks = 0] = [fol[f] EXCEPT !.pc = "poll", !.ticks = 0, !.saved = fol[f].saved]
        BY <1>2 DEF FollowerRecord
    <3> QED
        BY <2>2, <3>1, <3>2
  <2> QED
      BY <2>1, <2>2 DEF Save
<1> DEFINE r == [fol[f] EXCEPT !.pc = "poll", !.ticks = 0, !.saved = w]
<1>5. fol' = [fol EXCEPT ![f] = r]
    BY <1>4
<1>6. /\ r \in FollowerRecord /\ r.pc = "poll"
      /\ r.path = fol[f].path /\ r.sid = fol[f].sid /\ r.ino = fol[f].ino /\ r.at = fol[f].at
      /\ r.pend = fol[f].pend /\ r.late = fol[f].late
    BY <1>2 DEF FollowerRecord, Running, Waiting
<1> HIDE DEF r
<1>7. r.pc \in Running /\ r.pc # "seed" /\ fol[f].pc \in Running
    BY <1>1, <1>6 DEF Running
<1> QED
    BY <1>1, <1>4, <1>5, <1>6, <1>7, SavingStep


LEMMA ClaimStep ==
    ASSUME IInv, NEW f \in Followers, NEW p \in Paths, Claim(f, p)
    PROVE  IInv'
<1>0. TypeInv /\ ShapeInv /\ FileInv
    BY DEF IInv
<1>1. Present(p) /\ ReadOnly /\ UNCHANGED seen /\ dir[p] \in Registration /\ dev \in Nat
    BY <1>0, DirIs DEF Claim, TypeInv
<1> DEFINE d == dir[p]
           c == [dev |-> dev, ino |-> d.ino, at |-> 0]
           e1 == [d EXCEPT !.listener = f, !.witness = TRUE]
           e == [e1 EXCEPT !.cursor = c]
           r == [Off EXCEPT !.pc = "claimed", !.path = p, !.sid = d.sid]
<1>2. fol' = [fol EXCEPT ![f] = r] /\ dir' = [dir EXCEPT ![p] = e]
    BY <1>0 DEF Claim, TypeInv
<1>3. c \in Cursor /\ c.dev = dev /\ c.ino = d.ino /\ c.at = 0
    BY <1>1, RegistrationIs, Constants DEF Cursor
<1>4. d.sid \in Sessions /\ d.ino \in Files
    BY <1>1, RegistrationIs
<1>5. r \in FollowerRecord /\ r.pc = "claimed" /\ r.pend <= r.at
  <2>1. r \in FollowerRecord
      BY <1>4, OffIs DEF FollowerRecord
  <2>2. r.pc = "claimed" /\ r.pend = 0 /\ r.at = 0
      BY DEF Off
  <2> QED
      BY <2>1, <2>2
<1> HIDE DEF r, c
<1>6. Carries(d, e1) /\ e1 \in Registration /\ e1.stop = d.stop
    BY <1>1, ListenerWritten DEF Carries
<1>7. e1.foreign \in BOOLEAN /\ e1.sid = d.sid /\ e1.ino = d.ino /\ e1.skipped \in Nat
    BY <1>6, RegistrationIs DEF Carries
<1> HIDE DEF e1
<1>8. /\ e \in Registration /\ e.cursor = c /\ e.stop = e1.stop /\ e.sid = e1.sid /\ e.conn = e1.conn
      /\ e.ino = e1.ino /\ e.again = e1.again /\ e.skipped = e1.skipped /\ e.foreign = e1.foreign
    BY <1>3, <1>6 DEF Registration
<1> HIDE DEF e
<1>9. Carries(d, e) /\ e.stop = d.stop
    BY <1>6, <1>7, <1>8 DEF Carries
<1>10. DirStays
    BY <1>0, <1>1, <1>2, <1>9, DirWrite
<1>11. \A q \in Paths : dir'[q] = IF q = p THEN e ELSE dir[q]
    BY <1>0, <1>2 DEF TypeInv
<1>12. CursorFits(e, file, seen', dev)
  <2>1. Lines(file[e.ino])
      BY <1>0, <1>4, <1>7, <1>8 DEF FileInv
  <2>2. e.skipped \in Nat /\ e.cursor.at = 0
      BY <1>7, <1>8, <1>3
  <2>3. Settled(file[e.ino], e, seen', 0)
      BY <2>1, <2>2, SettledAtStart
  <2> QED
      BY <2>2, <2>3 DEF CursorFits
<1>13. r.pc \notin Running \cup Waiting /\ FollowerShape(r)
    BY <1>5 DEF Running, Waiting, FollowerShape
<1>14. Reads(r, dir, file, to) /\ ArmedFits(r, dir', file, seen') /\ OpenFits(r, dir', file, seen')
    BY <1>13, IdleFits
<1>15. \A q \in Paths : Present(q) =>
          /\ dir'[q].stop = dir[q].stop
          /\ \/ dir'[q].cursor = dir[q].cursor
             \/ dir'[q].cursor.dev <= dev /\ CursorFits(dir'[q], file, seen', dev)
  <2>1. e.cursor.dev <= dev
      BY <1>1, <1>3, <1>8
  <2> QED
      BY <2>1, <1>9, <1>11, <1>12
<1>16. seen \subseteq seen' /\ \A x \in seen' : x \in seen \/ (x[2] \in Sent /\ to[x[2]] = x[1])
    BY <1>1
<1> QED
    BY <1>1, <1>2, <1>5, <1>10, <1>13, <1>14, <1>15, <1>16, ReaderStep

LEMMA ArmStep ==
    ASSUME IInv, NEW f \in Followers, NEW p \in Paths, Arm(f, p)
    PROVE  IInv'
<1>0. TypeInv /\ ShapeInv /\ FileInv /\ CursorInv
    BY DEF IInv
<1>1. Present(p) /\ ReadOnly /\ UNCHANGED seen /\ dir[p] \in Registration /\ dev \in Nat
    BY <1>0, DirIs DEF Arm, TypeInv
<1>2. PICK v \in {Resume(p), [end |-> FALSE, at |-> 0]} :
          fol' = [fol EXCEPT ![f] = [Off EXCEPT !.pc = "armed", !.path = p, !.sid = dir[p].sid,
                                         !.at = v.at, !.end = v.end, !.sure = TRUE]]
    BY DEF Arm
<1> DEFINE d == dir[p]
           e == [d EXCEPT !.listener = f, !.witness = TRUE]
           r == [Off EXCEPT !.pc = "armed", !.path = p, !.sid = d.sid, !.at = v.at, !.end = v.end, !.sure = TRUE]
<1>3. fol' = [fol EXCEPT ![f] = r] /\ dir' = [dir EXCEPT ![p] = e]
    BY <1>0, <1>2 DEF Arm, TypeInv
<1>4. d.sid \in Sessions /\ d.ino \in Files /\ d.cursor.at \in Length /\ d.skipped \in Nat
    BY <1>1, RegistrationIs, CursorIs
<1>5. /\ v.end \in BOOLEAN /\ v.at \in Length
      /\ v.at > 0 => d.cursor.dev = dev /\ d.cursor.ino = d.ino /\ v.at = d.cursor.at
  <2>1. CASE v = Resume(p)
    <3>1. v.end = (d.cursor.ino = 0 /\ d.listener # NoOne)
        BY <2>1 DEF Resume
    <3>2. v.at = IF d.cursor.dev = dev /\ d.cursor.ino = d.ino /\ d.cursor.at <= Len(file[d.ino])
                 THEN d.cursor.at ELSE 0
        BY <2>1 DEF Resume
    <3> QED
        BY <3>1, <3>2, <1>4, Constants
  <2>2. CASE v = [end |-> FALSE, at |-> 0]
      BY <2>2, Constants
  <2> QED
      BY <2>1, <2>2
<1>6. /\ r \in FollowerRecord /\ r.pc = "armed" /\ r.path = p /\ r.sid = d.sid /\ r.at = v.at
      /\ r.sure /\ r.pend = 0
  <2>1. r \in FollowerRecord
      BY <1>4, <1>5, OffIs DEF FollowerRecord, Waiting
  <2>2. r.pc = "armed" /\ r.path = p /\ r.sid = d.sid /\ r.at = v.at /\ r.sure /\ r.pend = 0
      BY DEF Off
  <2> QED
      BY <2>1, <2>2
<1> HIDE DEF r
<1>7. Carries(d, e) /\ e.stop = d.stop /\ e.cursor = d.cursor
    BY <1>1, ListenerWritten
<1> HIDE DEF e
<1>8. DirStays
    BY <1>0, <1>1, <1>3, <1>7, DirWrite
<1>9. \A q \in Paths : dir'[q] = IF q = p THEN e ELSE dir[q]
    BY <1>0, <1>3 DEF TypeInv
<1>10. r.pc \notin Running /\ FollowerShape(r) /\ r.at \in Nat
  <2>a. v.at \in Nat
      BY <1>5, Constants
  <2>1. r.at \in Nat /\ r.pend <= r.at
      BY <2>a, <1>6
  <2>2. r.pc \notin Running
      BY <1>6 DEF Running
  <2>3. FollowerShape(r)
      BY <2>1, <2>2, <1>6 DEF FollowerShape
  <2> QED
      BY <2>1, <2>2, <2>3
<1>11. Reads(r, dir, file, to) /\ OpenFits(r, dir', file, seen')
    BY <1>10 DEF Reads, OpenFits
<1>12. ArmedFits(r, dir, file, seen)
  <2>1. ASSUME r.at > 0, Clean(d) PROVE Settled(file[d.ino], d, seen, r.at)
    <3>1. CursorFits(d, file, seen, dev)
        BY <1>0 DEF CursorInv
    <3> QED
        BY <3>1, <2>1, <1>5, <1>6 DEF CursorFits
  <2> QED
      BY <2>1, <1>1, <1>6 DEF ArmedFits, Present
<1>13. ArmedFits(r, dir', file, seen')
  <2>1. DirCarries(dir, dir') /\ FilesGrow(file, file) /\ seen \subseteq seen'
      BY <1>0, <1>1, <1>8, StaysCarries, GrowSelf DEF FileInv
  <2> QED
      BY <2>1, <1>10, <1>12, ArmedKept
<1>14. \A q \in Paths : Present(q) => dir'[q].stop = dir[q].stop /\ dir'[q].cursor = dir[q].cursor
    BY <1>7, <1>9
<1>15. seen \subseteq seen' /\ \A x \in seen' : x \in seen \/ (x[2] \in Sent /\ to[x[2]] = x[1])
    BY <1>1
<1> QED
    BY <1>1, <1>3, <1>6, <1>8, <1>10, <1>11, <1>13, <1>14, <1>15, ReaderStep


LEMMA OpenStep ==
    ASSUME IInv, NEW f \in Followers, Open(f)
    PROVE  IInv'
<1>0. TypeInv /\ ShapeInv /\ DirInv /\ FileInv /\ ArmedInv
    BY DEF IInv
<1> DEFINE p == fol[f].path
           d == dir[p]
           k == IF fol[f].pc = "reopen" THEN 0
                ELSE IF fol[f].end THEN Len(file[d.ino]) ELSE fol[f].at
           jumps == (fol[f].end \/ fol[f].moved) /\ ~Stranger(f)
           q == Greatest({d.skipped, k})
<1>1. fol[f].pc \in Waiting /\ d # Vacant /\ ReadOnly /\ UNCHANGED seen
    BY DEF Open
<1>2. fol[f] \in FollowerRecord /\ fol[f].at \in Length /\ FollowerShape(fol[f])
    BY <1>0, FolIs DEF ShapeInv
<1>3. p \in Paths /\ fol[f].sure = TRUE
  <2>1. fol[f].sure \in BOOLEAN /\ fol[f].sure
      BY <1>0, <1>1, <1>2, FolIs DEF FollowerShape
  <2> QED
      BY <2>1, <1>1, <1>2 DEF FollowerShape
<1>4. d \in Registration
    BY <1>0, <1>1, <1>3, DirIs DEF Present
<1>5. d.ino \in Files /\ d.skipped \in Length /\ d.skipped \in Nat
    BY <1>4, RegistrationIs
<1>6. Lines(file[d.ino]) /\ Len(file[d.ino]) \in Length
    BY <1>0, <1>5, LinesFacts DEF FileInv
<1>7. k \in Length /\ k \in Nat
  <2>1. 0 \in Length /\ fol[f].at \in Length /\ Len(file[d.ino]) \in Length /\ Length \subseteq Nat
      BY <1>2, <1>6, Constants
  <2> HIDE DEF d
  <2> QED
      BY <2>1
<1>8. fol' = [fol EXCEPT ![f] = [fol[f] EXCEPT !.pc = "seed", !.ino = d.ino, !.at = k, !.pend = 0,
                      !.saved = k, !.ticks = 0, !.end = FALSE, !.sure = FALSE,
                      !.late = fol[f].sure /\ Stranger(f), !.moved = FALSE]]
    BY <1>0 DEF Open, TypeInv
<1>9. dir' = IF jumps THEN [dir EXCEPT ![p].skipped = q] ELSE dir
    BY DEF Open
<1>10. q \in Length /\ d.skipped <= q /\ k <= q
  <2>1. {d.skipped, k} \subseteq 0 .. 2 * MaxMail
      BY <1>5, <1>7 DEF Length
  <2>2. 2 * MaxMail \in Nat
      BY Constants
  <2>3. q \in {d.skipped, k} /\ \A y \in {d.skipped, k} : y <= q
      BY <2>1, <2>2, GreatestIs
  <2> QED
      BY <2>3, <1>5, <1>7
<1> HIDE DEF k, q
<1>11. PICK b \in BOOLEAN : b = (fol[f].sure /\ Stranger(f))
    OBVIOUS
<1>12. b \in BOOLEAN /\ (~b <=> d.sid = fol[f].sid)
    BY <1>3, <1>11 DEF Stranger
<1> DEFINE r == [fol[f] EXCEPT !.pc = "seed", !.ino = d.ino, !.at = k, !.pend = 0,
                      !.saved = k, !.ticks = 0, !.end = FALSE, !.sure = FALSE,
                      !.late = b, !.moved = FALSE]
<1>13. fol' = [fol EXCEPT ![f] = r]
    BY <1>8, <1>11
<1>14. /\ r \in FollowerRecord /\ r.pc = "seed" /\ r.path = p /\ r.sid = fol[f].sid /\ r.ino = d.ino
       /\ r.at = k /\ r.pend = 0 /\ r.late = b
    BY <1>2, <1>5, <1>7, <1>12, Constants DEF FollowerRecord, Running, Waiting
<1> HIDE DEF r
<1>15. PICK e : /\ dir' = [dir EXCEPT ![p] = e] /\ Carries(d, e)
                /\ e.cursor = d.cursor /\ e.stop = d.stop /\ (jumps => k <= e.skipped)
  <2>1. CASE jumps
    <3> DEFINE e == [d EXCEPT !.skipped = q]
    <3>1. dir' = [dir EXCEPT ![p] = e]
        BY <2>1, <1>9
    <3>2. Carries(d, e) /\ e.cursor = d.cursor /\ e.stop = d.stop /\ e.skipped = q
        BY <1>4, <1>10, SkipWritten
    <3> HIDE DEF e
    <3> QED
        BY <3>1, <3>2, <1>10
  <2>2. CASE ~jumps
    <3>1. dir' = [dir EXCEPT ![p] = d]
        BY <2>2, <1>0, <1>9 DEF TypeInv
    <3> QED
        BY <3>1, <2>2, <1>4, CarriesSelf
  <2> QED
      BY <2>1, <2>2
<1>16. \A x \in Paths : dir'[x] = IF x = p THEN e ELSE dir[x]
    BY <1>0, <1>15 DEF TypeInv
<1>17. Carries(d, e) /\ e.cursor = d.cursor /\ e.stop = d.stop /\ (jumps => k <= e.skipped)
    BY <1>15
<1>18. DirStays
    BY <1>0, <1>1, <1>3, <1>15, DirWrite DEF Present
<1>19. e \in Registration /\ e.sid = d.sid /\ e.ino = d.ino /\ e.skipped \in Nat
    BY <1>17, RegistrationIs DEF Carries
<1>20. \A x \in Paths : dir[x] # Vacant /\ dir[x].ino = d.ino => x = p
    BY <1>0, <1>1, <1>3 DEF DirInv, Present
<1>21. FollowerShape(r)
    BY <1>3, <1>5, <1>7, <1>14 DEF FollowerShape, Waiting
<1>22. Reads(r, dir, file, to)
  <2>1. AllFor(file[d.ino], to, d.sid)
      BY <1>0, <1>1, <1>3 DEF FileInv, Present
  <2>2. ~r.late => r.sid = d.sid
      BY <1>12, <1>14
  <2>3. \A i \in r.at - r.pend + 1 .. r.at : FALSE
      BY <1>7, <1>14
  <2> QED
      BY <2>1, <2>2, <2>3, <1>14, <1>20 DEF Reads
<1>23. ArmedFits(r, dir', file, seen')
    BY <1>14 DEF ArmedFits
<1>24. OpenFits(r, dir', file, seen')
  <2> SUFFICES ASSUME ~r.late, NEW x \in Paths, Clean(dir'[x]), dir'[x].ino = r.ino
               PROVE  Settled(file[dir'[x].ino], dir'[x], seen', r.at - r.pend)
      BY DEF OpenFits
  <2>1. x = p
    <3>1. CASE x # p
      <4>1. dir'[x] = dir[x] /\ dir[x] # Vacant
          BY <3>1, <1>16 DEF Clean
      <4> QED
          BY <4>1, <1>14, <1>20
    <3> QED
        BY <3>1
  <2>2. dir'[x] = e /\ r.at - r.pend = k /\ Lines(file[e.ino]) /\ seen' = seen /\ d.sid = fol[f].sid
      BY <2>1, <1>1, <1>6, <1>7, <1>12, <1>14, <1>16, <1>19
  <2>3. Settled(file[e.ino], e, seen, k)
    <3>1. CASE k = 0 \/ k <= e.skipped
        BY <3>1, <2>2, <1>7, <1>19, SettledAtStart
    <3>2. CASE k # 0 /\ ~(k <= e.skipped)
      <4>1. ~fol[f].end /\ ~fol[f].moved
          BY <3>2, <1>17, <2>2 DEF Stranger
      <4>2. fol[f].pc = "armed" /\ k = fol[f].at /\ fol[f].at > 0
          BY <3>2, <4>1, <1>1, <1>7 DEF k, Waiting
      <4>3. ArmedFits(fol[f], dir, file, seen)
          BY <1>0 DEF ArmedInv
      <4>4. Clean(d) => Settled(file[d.ino], d, seen, k)
          BY <4>1, <4>2, <4>3 DEF ArmedFits
      <4>5. Clean(d)
          BY <2>2, <1>4, <1>17, CleanBefore
      <4>6. FilesGrow(file, file)
          BY <1>0, GrowSelf DEF FileInv
      <4> HIDE DEF d
      <4> QED
          BY <4>4, <4>5, <4>6, <1>4, <1>7, <1>17, SettledCarried
    <3> QED
        BY <3>1, <3>2
  <2> QED
      BY <2>2, <2>3
<1>25. \A x \in Paths : Present(x) => dir'[x].stop = dir[x].stop /\ dir'[x].cursor = dir[x].cursor
    BY <1>16, <1>17
<1>26. seen \subseteq seen' /\ \A x \in seen' : x \in seen \/ (x[2] \in Sent /\ to[x[2]] = x[1])
    BY <1>1
<1> QED
    BY <1>1, <1>13, <1>14, <1>18, <1>21, <1>22, <1>23, <1>24, <1>25, <1>26, ReaderStep

\* Reading on to the next end of a line, and showing that line, leads to a
\* place that may be recorded; a line of which only the end is read began in
\* what was skipped.
LEMMA ReadSettles ==
    ASSUME NEW l, Lines(l), NEW d, NEW shown, NEW shown2, shown \subseteq shown2, d.skipped \in Nat,
           NEW k \in Nat, NEW at \in Nat, NEW e \in 1 .. Len(l), k <= at, at < e, Ends(l[e]),
           \A i \in k + 1 .. at : ~Ends(l[i]),
           \A i \in 1 .. Len(l) : i > at /\ Ends(l[i]) => e <= i,
           Settled(l, d, shown, k),
           e = k + 1 \/ <<d.sid, Message(l[e])>> \in shown2
    PROVE  Settled(l, d, shown2, e)
<1>1. /\ Len(l) \in Nat /\ \A i \in 1 .. Len(l) : l[i] \in Nat
      /\ \A i \in 1 .. Len(l) : Ends(l[i]) => i > 1 /\ l[i - 1] = l[i] - 1
    BY LinesFacts
<1>2. /\ k = 0 \/ k <= d.skipped \/ (k \in 1 .. Len(l) /\ Ends(l[k]))
      /\ \A m \in Ended(l, k) \ Started(l, d.skipped) : <<d.sid, m>> \in shown
    BY DEF Settled
<1>3. ASSUME NEW m \in Ended(l, e), m \notin Started(l, d.skipped) PROVE <<d.sid, m>> \in shown2
  <2>1. PICK i \in 1 .. Len(l) : i <= e /\ Ends(l[i]) /\ m = Message(l[i])
      BY <1>3 DEF Ended
  <2>2. CASE i <= k
    <3>1. m \in Ended(l, k)
        BY <2>1, <2>2 DEF Ended
    <3> QED
        BY <3>1, <1>2, <1>3
  <2>3. CASE ~(i <= k)
    <3>1. i = e
        BY <2>1, <2>3, <1>1
    <3>2. CASE e = k + 1
      <4>1. e > 1 /\ l[k] = l[e] - 1 /\ k \in 1 .. Len(l) /\ l[k] \in Nat /\ l[e] \in Nat
          BY <3>2, <1>1
      <4>2. ~Ends(l[k]) /\ m = Message(l[k] + 1)
          BY <2>1, <3>1, <4>1 DEF Ends
      <4>3. k <= d.skipped
          BY <4>1, <4>2, <1>2
      <4>4. m \in Started(l, d.skipped)
          BY <4>1, <4>2, <4>3 DEF Started
      <4> QED
          BY <4>4, <1>3
    <3> QED
        BY <3>1, <3>2, <2>1
  <2> QED
      BY <2>2, <2>3
<1> QED
    BY <1>3 DEF Settled

LEMMA ReadStep ==
    ASSUME IInv, NEW f \in Followers, Read(f)
    PROVE  IInv'
<1>0. TypeInv /\ ShapeInv /\ FileInv /\ ReaderInv /\ OpenInv
    BY DEF IInv
<1> DEFINE n == fol[f].ino
           at == fol[f].at
           pend == fol[f].pend
           k == at - pend
           ends == LineEnds(n, at)
<1>1. fol[f].pc = "read" /\ at < Len(file[n]) /\ ReadOnly /\ UNCHANGED dir /\ k = Boundary(f)
    BY DEF Read, Boundary
<1>2. fol[f].pc \in Running
    BY <1>1 DEF Running
<1>3. /\ fol[f] \in FollowerRecord /\ at \in Nat /\ pend \in Nat /\ FollowerShape(fol[f])
      /\ Reads(fol[f], dir, file, to) /\ OpenFits(fol[f], dir, file, seen)
    BY <1>0, FolIs DEF ShapeInv, ReaderInv, OpenInv
<1>4. n \in Files /\ pend <= at /\ fol[f].path \in Paths
    BY <1>2, <1>3 DEF FollowerShape
<1>5. /\ ~fol[f].late =>
            /\ AllFor(file[n], to, fol[f].sid)
            /\ \A p \in Paths : dir[p] # Vacant /\ dir[p].ino = n => dir[p].sid = fol[f].sid
      /\ \A i \in k + 1 .. at : i <= Len(file[n]) /\ ~Ends(file[n][i])
    BY <1>2, <1>3 DEF Reads
<1>6. ~fol[f].late => \A p \in Paths :
          Clean(dir[p]) /\ dir[p].ino = n => Settled(file[dir[p].ino], dir[p], seen, k)
    BY <1>2, <1>3 DEF OpenFits
<1>7. Lines(file[n]) /\ Len(file[n]) \in Nat /\ Len(file[n]) \in Length
    BY <1>0, <1>4, LinesFacts DEF FileInv
<1>8. \A i \in 1 .. Len(file[n]) : i > at /\ Ends(file[n][i]) => i \in ends
    BY DEF LineEnds
<1>9. DirStays
    BY <1>0, <1>1, DirSame
<1>10. \A p \in Paths : Clean(dir[p]) => dir[p] \in Registration /\ dir[p].skipped \in Nat
    BY <1>0, DirIs, RegistrationIs DEF Clean, Present
<1>11. CASE ends # {}
  <2> DEFINE e == Least(ends)
  <2>1. e \in ends /\ (\A i \in ends : e <= i) /\ e \in 1 .. Len(file[n]) /\ e \in Length
      BY <1>7, <1>11, LineEndsAre
  <2>2. e > at /\ Ends(file[n][e])
      BY <2>1 DEF LineEnds
  <2>3. fol' = [fol EXCEPT ![f] = [fol[f] EXCEPT !.at = e, !.pend = 0]]
      BY <1>0, <1>11 DEF Read, TypeInv
  <2>4. seen' = IF fol[f].late \/ e = k + 1 THEN seen
                ELSE seen \cup ({fol[f].sid} \X {Message(file[n][e])})
      BY <1>1, <1>11 DEF Read
  <2> HIDE DEF e
  <2> DEFINE r == [fol[f] EXCEPT !.at = e, !.pend = 0]
  <2>5. /\ r \in FollowerRecord /\ r.pc = "read" /\ r.path = fol[f].path /\ r.sid = fol[f].sid
        /\ r.ino = n /\ r.at = e /\ r.pend = 0 /\ r.late = fol[f].late
      BY <1>1, <1>3, <2>1, Constants DEF FollowerRecord
  <2> HIDE DEF r, ends
  <2>6. FollowerShape(r)
      BY <1>4, <1>7, <2>1, <2>5 DEF FollowerShape, Waiting
  <2>7. Reads(r, dir, file, to)
    <3>1. \A i \in r.at - r.pend + 1 .. r.at : FALSE
        BY <2>1, <2>5, <1>7
    <3> QED
        BY <3>1, <1>5, <2>5 DEF Reads
  <2>8. ArmedFits(r, dir', file, seen')
      BY <2>5 DEF ArmedFits
  <2>9. seen \subseteq seen'
      BY <2>4
  <2>10. ASSUME NEW x \in seen' PROVE x \in seen \/ (x[2] \in Sent /\ to[x[2]] = x[1])
    <3> SUFFICES ASSUME x \notin seen PROVE x[2] \in Sent /\ to[x[2]] = x[1]
        OBVIOUS
    <3>1. ~fol[f].late /\ x[1] = fol[f].sid /\ x[2] = Message(file[n][e])
        BY <2>4, <2>10
    <3>2. to[Whose(file[n][e])] = fol[f].sid /\ Whose(file[n][e]) \in Sent
        BY <3>1, <1>0, <1>4, <1>5, <2>1 DEF AllFor, FileInv
    <3>3. file[n][e] \in Nat
        BY <1>7, <2>1, LinesFacts
    <3>4. Whose(file[n][e]) = Message(file[n][e])
        BY <3>3, <2>2, Halves
    <3> QED
        BY <3>1, <3>2, <3>4
  <2>11. OpenFits(r, dir', file, seen')
    <3> SUFFICES ASSUME ~r.late, NEW p \in Paths, Clean(dir'[p]), dir'[p].ino = r.ino
                 PROVE  Settled(file[dir'[p].ino], dir'[p], seen', r.at - r.pend)
        BY DEF OpenFits
    <3>1. Clean(dir[p]) /\ dir[p].ino = n /\ dir'[p] = dir[p] /\ r.at - r.pend = e /\ ~fol[f].late
        BY <1>1, <1>7, <2>1, <2>5
    <3>2. Settled(file[n], dir[p], seen, k) /\ dir[p].skipped \in Nat /\ dir[p].sid = fol[f].sid
        BY <3>1, <1>5, <1>6, <1>10 DEF Clean
    <3>3. e = k + 1 \/ <<dir[p].sid, Message(file[n][e])>> \in seen'
        BY <3>1, <3>2, <2>4
    <3>4. k \in Nat /\ k <= at
        BY <1>3, <1>4
    <3>5. \A i \in k + 1 .. at : ~Ends(file[n][i])
        BY <1>5
    <3>6. \A i \in 1 .. Len(file[n]) : i > at /\ Ends(file[n][i]) => e <= i
        BY <1>8, <2>1
    <3>7. Lines(file[n]) /\ e \in 1 .. Len(file[n]) /\ at < e /\ Ends(file[n][e]) /\ at \in Nat
        BY <1>3, <1>7, <2>1, <2>2
    <3> DEFINE l == file[n]
               u == dir[p]
    <3> HIDE DEF k, n, at, l, u
    <3>8. Settled(l, u, seen', e)
        BY <3>2, <3>3, <3>4, <3>5, <3>6, <3>7, <2>9, ReadSettles DEF l, u
    <3> QED
        BY <3>1, <3>8 DEF l, u
  <2>12. \A p \in Paths : Present(p) => dir'[p].stop = dir[p].stop /\ dir'[p].cursor = dir[p].cursor
      BY <1>1
  <2>13. fol' = [fol EXCEPT ![f] = r]
      BY <2>3 DEF r
  <2> QED
      BY <1>1, <1>9, <2>5, <2>6, <2>7, <2>8, <2>9, <2>10, <2>11, <2>12, <2>13, ReaderStep
<1>12. CASE ends = {}
  <2> DEFINE z == Len(file[n])
             w == pend + z - at
  <2>1. fol' = [fol EXCEPT ![f] = [fol[f] EXCEPT !.at = z, !.pend = w]] /\ UNCHANGED seen
      BY <1>0, <1>12 DEF Read, TypeInv
  <2>a. z \in Length /\ z \in Nat /\ at < z /\ at \in Nat /\ pend \in Nat /\ pend <= at
      BY <1>1, <1>3, <1>4, <1>7
  <2>b. w \in Nat /\ w <= z /\ z - w = k
    <3> HIDE DEF at, pend, z
    <3> QED
        BY <2>a
  <2>c. w \in Length
      BY <2>a, <2>b, Constants DEF Length
  <2>2. z \in Length /\ z \in Nat /\ w \in Nat /\ w <= z /\ w \in Length /\ z - w = k /\ at < z
      BY <2>a, <2>b, <2>c
  <2> DEFINE r == [fol[f] EXCEPT !.at = z, !.pend = w]
  <2> HIDE DEF z, w
  <2>3. /\ r \in FollowerRecord /\ r.pc = "read" /\ r.path = fol[f].path /\ r.sid = fol[f].sid
        /\ r.ino = n /\ r.at = z /\ r.pend = w /\ r.late = fol[f].late
      BY <1>1, <1>3, <2>2 DEF FollowerRecord
  <2>4. fol' = [fol EXCEPT ![f] = r]
      BY <2>1
  <2> HIDE DEF r
  <2>5. FollowerShape(r)
      BY <1>4, <2>2, <2>3 DEF FollowerShape, Waiting
  <2>6. Reads(r, dir, file, to)
    <3>1. ASSUME NEW i \in r.at - r.pend + 1 .. r.at PROVE i <= Len(file[n]) /\ ~Ends(file[n][i])
      <4>1. i \in k + 1 .. z /\ i \in 1 .. Len(file[n])
          BY <2>2, <2>3, <1>3, <1>4 DEF z
      <4>2. CASE i <= at
          BY <4>1, <4>2, <1>3, <1>4, <1>5
      <4>3. CASE i > at
          BY <4>1, <4>3, <1>8, <1>12
      <4> QED
          BY <4>1, <4>2, <4>3, <1>3, <2>2
    <3> QED
        BY <3>1, <1>5, <2>3 DEF Reads
  <2>7. ArmedFits(r, dir, file, seen)
      BY <2>3 DEF ArmedFits
  <2>8. OpenFits(r, dir, file, seen)
    <3>1. r.at - r.pend = k
        BY <2>2, <2>3
    <3> QED
        BY <3>1, <1>6, <2>3 DEF OpenFits
  <2> QED
      BY <1>1, <2>1, <2>3, <2>4, <2>5, <2>6, <2>7, <2>8, QuietStep
<1> QED
    BY <1>11, <1>12


(* ------------------------------------------------- a step of a Stop hook - *)

\* What the operators of the model say is what is said here of the lines.
LEMMA CompleteIs ==
    ASSUME NEW n, NEW k
    PROVE  Complete(n, k) = Ended(file[n], k) /\ Begun(n, k) = Started(file[n], k)
BY DEF Complete, Begun, Ended, Started

LEMMA CompleteMessages ==
    ASSUME NEW n, file[n] \in Seq(1 .. 2 * MaxMail), NEW k
    PROVE  Complete(n, k) \subseteq Messages
<1> SUFFICES ASSUME NEW i \in 1 .. Len(file[n]), Ends(file[n][i])
             PROVE  Message(file[n][i]) \in Messages
    BY DEF Complete
<1>1. file[n][i] \in 1 .. 2 * MaxMail /\ MaxMail \in Nat
    BY FollowerAssumption, ElementOfSeq
<1> QED
    BY <1>1 DEF Ends, Message, Messages

LEMMA EndedInAll ==
    ASSUME NEW l, Lines(l), NEW k, NEW m \in Ended(l, k)
    PROVE  m \in Ended(l, Len(l))
<1>1. PICK i \in 1 .. Len(l) : Ends(l[i]) /\ m = Message(l[i])
    BY DEF Ended
<1>2. Len(l) \in Nat
    BY LinesFacts
<1>3. i \in 1 .. Len(l) /\ i <= Len(l)
    BY <1>1, <1>2
<1> QED
    BY <1>1, <1>3 DEF Ended

LEMMA PassedAtStart ==
    ASSUME NEW l, Lines(l), NEW s, NEW done
    PROVE  Passed(l, s, done, 0)
<1>1. Len(l) \in Nat
    BY LinesFacts
<1>2. Ended(l, 0) = {}
    BY <1>1 DEF Ended
<1> QED
    BY <1>1, <1>2 DEF Passed

\* What hook s becomes, and the cursor it writes, fit.
LEMMA HookStep ==
    ASSUME IInv, NEW s \in Sessions, NEW h \in HookRecord, hook' = [hook EXCEPT ![s] = h],
           HookOnly, UNCHANGED seen, DirStays, Dealt \subseteq Dealt', HookShape(h),
           \A p \in Paths : Present(p) =>
               /\ dir'[p].cursor = dir[p].cursor
               /\ \/ dir'[p].stop = dir[p].stop
                  \/ dir'[p].stop.dev <= dev /\ StopFits(dir'[p], file, Dealt', dev),
           HookFits(h, s, dir', file, Dealt')
    PROVE  IInv'
<1>0. /\ TypeInv /\ ShapeInv /\ DirInv /\ FileInv /\ ReaderInv
      /\ CursorInv /\ ArmedInv /\ OpenInv /\ StopInv /\ HookInv /\ OffsetInv /\ OwnInv
    BY DEF IInv
<1>1. UNCHANGED <<file, fol, writer, con, dev, to, taken, seen>>
    BY DEF HookOnly
<1>2. hook' \in [Sessions -> HookRecord] /\ \A t \in Sessions : hook'[t] = IF t = s THEN h ELSE hook[t]
    BY <1>0 DEF TypeInv
<1>3. TypeInv'
    BY <1>0, <1>1, <1>2 DEF TypeInv, DirStays
<1>4. ShapeInv'
  <2>1. \A t \in Sessions : HookShape(hook'[t])
      BY <1>0, <1>2 DEF ShapeInv
  <2>2. \A t \in Sessions : HookShape(hook[t])'
      BY <2>1, <1>1 DEF HookShape
  <2>3. \A f \in Followers : FollowerShape(fol[f])'
      BY <1>0, <1>1 DEF ShapeInv, FollowerShape
  <2> QED
      BY <2>2, <2>3, <1>0, <1>1 DEF ShapeInv
<1>5. DirInv'
  <2>1. \A p \in Paths : Present(p) => dir'[p].cursor.dev <= dev' /\ dir'[p].stop.dev <= dev'
      BY <1>0, <1>1 DEF DirInv
  <2> QED
      BY <2>1, <1>0, <1>1, DirKept DEF DirInv
<1>6. FileInv'
    BY <1>0, <1>1, FileKept
<1>7. ReaderInv'
    BY <1>0, <1>1, ReadsKept DEF ReaderInv
<1>8. FilesGrow(file, file') /\ DirCarries(dir, dir')
    BY <1>0, <1>1, GrowSelf, StaysCarries DEF FileInv
<1>9. \A p \in Paths : dir'[p] # Vacant =>
          Present(p) /\ dir[p] # Vacant /\ dir[p] \in Registration /\ Carries(dir[p], dir'[p])
    BY <1>8 DEF DirCarries, Present
<1>10. CursorInv'
  <2> SUFFICES ASSUME NEW p \in Paths PROVE CursorFits(dir'[p], file', seen', dev')
      BY DEF CursorInv
  <2>1. CASE dir'[p] = Vacant
      BY <2>1 DEF CursorFits, Clean
  <2>2. CASE dir'[p] # Vacant
    <3>1. CursorFits(dir[p], file, seen, dev) /\ dir'[p].cursor = dir[p].cursor /\ seen \subseteq seen'
        BY <2>2, <1>0, <1>1, <1>9 DEF CursorInv
    <3>2. CursorFits(dir'[p], file', seen', dev)
        BY <3>1, <2>2, <1>8, <1>9, CursorKept
    <3> QED
        BY <3>2, <1>1
  <2> QED
      BY <2>1, <2>2
<1>11. ArmedInv'
  <2> SUFFICES ASSUME NEW g \in Followers PROVE ArmedFits(fol'[g], dir', file', seen')
      BY DEF ArmedInv
  <2>1. ArmedFits(fol[g], dir, file, seen) /\ FollowerShape(fol[g]) /\ fol[g].at \in Nat /\ seen \subseteq seen'
      BY <1>0, <1>1, FolIs DEF ArmedInv, ShapeInv
  <2>2. ArmedFits(fol[g], dir', file', seen')
      BY <2>1, <1>8, ArmedKept
  <2> QED
      BY <2>2, <1>1
<1>12. OpenInv'
  <2> SUFFICES ASSUME NEW g \in Followers PROVE OpenFits(fol'[g], dir', file', seen')
      BY DEF OpenInv
  <2>1. /\ OpenFits(fol[g], dir, file, seen) /\ FollowerShape(fol[g])
        /\ fol[g].at \in Nat /\ fol[g].pend \in Nat /\ seen \subseteq seen'
      BY <1>0, <1>1, FolIs DEF OpenInv, ShapeInv
  <2>2. OpenFits(fol[g], dir', file', seen')
      BY <2>1, <1>8, OpenKept
  <2> QED
      BY <2>2, <1>1
<1>13. StopInv'
  <2> SUFFICES ASSUME NEW p \in Paths PROVE StopFits(dir'[p], file', Dealt', dev')
      BY DEF StopInv
  <2>1. CASE dir'[p] = Vacant
      BY <2>1 DEF StopFits, Clean
  <2>2. CASE dir'[p] # Vacant /\ dir'[p].stop = dir[p].stop
    <3>1. StopFits(dir[p], file, Dealt, dev)
        BY <1>0 DEF StopInv
    <3>2. StopFits(dir'[p], file', Dealt', dev)
        BY <3>1, <2>2, <1>8, <1>9, StopKept
    <3> QED
        BY <3>2, <1>1
  <2>3. CASE dir'[p] # Vacant /\ StopFits(dir'[p], file, Dealt', dev)
      BY <2>3, <1>1
  <2> QED
      BY <2>1, <2>2, <2>3, <1>9
<1>14. HookInv'
  <2> SUFFICES ASSUME NEW t \in Sessions PROVE HookFits(hook'[t], t, dir', file', Dealt')
      BY DEF HookInv
  <2>1. CASE t = s
      BY <2>1, <1>1, <1>2
  <2>2. CASE t # s
    <3>1. HookFits(hook[t], t, dir, file, Dealt) /\ HookShape(hook[t]) /\ hook[t].at \in Nat
        BY <1>0, HookIs DEF HookInv, ShapeInv
    <3>2. HookFits(hook[t], t, dir', file', Dealt')
        BY <3>1, <1>8, HookKept
    <3> QED
        BY <3>2, <2>2, <1>2
  <2> QED
      BY <2>1, <2>2
<1>15. OffsetInv'
    BY <1>0, <1>1, OffsetKept
<1>16. OwnInv'
    BY <1>0, <1>1 DEF OwnInv, OwnMailOnly, Sent
<1> QED
    BY <1>3, <1>4, <1>5, <1>6, <1>7, <1>10, <1>11, <1>12, <1>13, <1>14, <1>15, <1>16 DEF IInv

\* What hook s lets go of, it handed over or was killed with.
LEMMA DealtGrows ==
    ASSUME TypeInv, NEW s \in Sessions, NEW h \in HookRecord, hook' = [hook EXCEPT ![s] = h],
           handed \subseteq handed', cut \subseteq cut',
           \A m \in hook[s].lines : m \in h.lines \/ <<s, m>> \in handed' \cup cut'
    PROVE  Dealt \subseteq Dealt' /\ \A m \in h.lines : <<s, m>> \in Dealt'
<1>1. \A t \in Sessions : hook'[t] = IF t = s THEN h ELSE hook[t]
    BY DEF TypeInv
<1>2. ASSUME NEW t \in Sessions, NEW m \in Messages, m \in hook[t].lines
      PROVE  <<t, m>> \in Held' \cup handed' \cup cut'
    BY <1>1, <1>2 DEF Held
<1>3. Held \subseteq Held' \cup handed' \cup cut'
    BY <1>2 DEF Held
<1>4. h.lines \subseteq Messages
    BY DEF HookRecord
<1>5. \A m \in h.lines : <<s, m>> \in Held'
    BY <1>1, <1>4 DEF Held
<1> QED
    BY <1>3, <1>5 DEF Dealt

\* A hook that does not look has nothing to fit.
LEMMA HookIdles ==
    ASSUME IInv, NEW s \in Sessions, NEW h \in HookRecord, hook' = [hook EXCEPT ![s] = h],
           HookOnly, UNCHANGED dir, h.pc # "look", h.pc # "off" => h.path \in Paths,
           h.pc # "block" => h.lines = {}, handed \subseteq handed', cut \subseteq cut',
           \A m \in hook[s].lines : m \in h.lines \/ <<s, m>> \in handed' \cup cut'
    PROVE  IInv'
<1>1. TypeInv
    BY DEF IInv
<1>2. Dealt \subseteq Dealt'
    BY <1>1, DealtGrows
<1>3. DirStays /\ HookShape(h) /\ HookFits(h, s, dir', file, Dealt') /\ UNCHANGED seen
    BY <1>1, DirSame DEF HookShape, HookFits, HookOnly
<1> QED
    BY <1>2, <1>3, HookStep

LEMMA DoneIs == NoHook \in HookRecord /\ NoHook.pc = "off" /\ NoHook.lines = {}
BY OffIs DEF NoHook

LEMMA PollingIs ==
    ASSUME NEW p \in Paths
    PROVE  LET h == [NoHook EXCEPT !.pc = "poll", !.path = p]
           IN  h \in HookRecord /\ h.pc = "poll" /\ h.path = p /\ h.lines = {}
<1>1. [NoHook EXCEPT !.pc = "poll", !.path = p] \in HookRecord
    BY OffIs DEF HookRecord
<1> QED
    BY <1>1 DEF NoHook

LEMMA BlockingIs ==
    ASSUME NEW p \in Paths, NEW L \in SUBSET Messages
    PROVE  LET h == [NoHook EXCEPT !.pc = "block", !.path = p, !.lines = L]
           IN  h \in HookRecord /\ h.pc = "block" /\ h.path = p /\ h.lines = L
<1>1. [NoHook EXCEPT !.pc = "block", !.path = p, !.lines = L] \in HookRecord
    BY OffIs DEF HookRecord
<1> QED
    BY <1>1 DEF NoHook

\* Only a hook that blocks holds lines.
LEMMA HoldsNothing ==
    ASSUME IInv, NEW s \in Sessions, hook[s].pc # "block"
    PROVE  hook[s].lines = {}
BY DEF IInv, ShapeInv, HookShape

LEMMA HookStartsStep ==
    ASSUME IInv, NEW s \in Sessions, HookStarts(s)
    PROVE  IInv'
<1>1. PICK p \in Mine(s) : hook' = [hook EXCEPT ![s] = [NoHook EXCEPT !.pc = "poll", !.path = p]]
    BY DEF HookStarts
<1>2. p \in Paths /\ HookOnly /\ UNCHANGED <<dir, handed, cut>> /\ hook[s].pc = "off"
    BY <1>1 DEF HookStarts, Mine
<1> DEFINE h == [NoHook EXCEPT !.pc = "poll", !.path = p]
<1>3. h \in HookRecord /\ h.pc = "poll" /\ h.path = p /\ h.lines = {}
    BY <1>2, PollingIs
<1>4. hook' = [hook EXCEPT ![s] = h]
    BY <1>1
<1>5. hook[s].lines = {}
    BY <1>2, HoldsNothing
<1> HIDE DEF h
<1> QED
    BY <1>2, <1>3, <1>4, <1>5, HookIdles

LEMMA HookEndsStep ==
    ASSUME IInv, NEW s \in Sessions, HookEnds(s)
    PROVE  IInv'
<1>1. /\ hook' = [hook EXCEPT ![s] = NoHook] /\ HookOnly /\ UNCHANGED <<dir, handed, cut>>
      /\ hook[s].pc = "poll"
    BY DEF HookEnds
<1>2. hook[s].lines = {}
    BY <1>1, HoldsNothing
<1> QED
    BY <1>1, <1>2, DoneIs, HookIdles

\* What it hands over is not held any more, and neither is what it is killed
\* with.
LEMMA HookHandsStep ==
    ASSUME IInv, NEW s \in Sessions, HookHands(s)
    PROVE  IInv'
<1>1. /\ hook' = [hook EXCEPT ![s] = NoHook] /\ HookOnly /\ UNCHANGED <<dir, cut>>
      /\ handed' = handed \cup ({s} \X hook[s].lines)
    BY DEF HookHands
<1>2. /\ handed \subseteq handed' /\ cut \subseteq cut'
      /\ \A m \in hook[s].lines : <<s, m>> \in handed' \cup cut'
    BY <1>1
<1> QED
    BY <1>1, <1>2, DoneIs, HookIdles

LEMMA HookDiesStep ==
    ASSUME IInv, NEW s \in Sessions, HookDies(s)
    PROVE  IInv'
<1>1. /\ hook' = [hook EXCEPT ![s] = NoHook] /\ HookOnly /\ UNCHANGED <<dir, handed>>
      /\ cut' = cut \cup ({s} \X hook[s].lines)
    BY DEF HookDies
<1>2. /\ handed \subseteq handed' /\ cut \subseteq cut'
      /\ \A m \in hook[s].lines : <<s, m>> \in handed' \cup cut'
    BY <1>1
<1> QED
    BY <1>1, <1>2, DoneIs, HookIdles

LEMMA HookLooksStep ==
    ASSUME IInv, NEW s \in Sessions, HookLooks(s)
    PROVE  IInv'
<1>0. TypeInv /\ ShapeInv /\ FileInv /\ StopInv /\ dev \in Nat
    BY DEF IInv, TypeInv
<1> DEFINE p == hook[s].path
           d == dir[p]
           k == IF d.stop.dev = dev /\ d.stop.ino = d.ino /\ d.stop.at <= Len(file[d.ino])
                THEN d.stop.at ELSE 0
<1>1. hook[s].pc = "poll" /\ d # Vacant /\ HookOnly /\ UNCHANGED <<dir, seen, handed, cut>>
    BY DEF HookLooks, HookOnly
<1>2. hook[s] \in HookRecord /\ p \in Paths
    BY <1>0, <1>1, HookIs DEF ShapeInv, HookShape
<1>3. d \in Registration
    BY <1>0, <1>1, <1>2, DirIs DEF Present
<1>4. d.ino \in Files /\ d.stop.at \in Length
    BY <1>3, RegistrationIs, CursorIs
<1>5. k \in Length
    BY <1>4, Constants
<1>6. PICK b \in BOOLEAN : b = (d.sid = s)
    OBVIOUS
<1>7. b \in BOOLEAN /\ (b <=> d.sid = s)
    BY <1>6
<1> DEFINE h == [hook[s] EXCEPT !.pc = "look", !.dev = dev, !.ino = d.ino, !.own = b, !.at = k]
<1>8. hook' = [hook EXCEPT ![s] = h]
  <2>1. hook' = [hook EXCEPT ![s] = [hook[s] EXCEPT !.pc = "look", !.dev = dev, !.ino = d.ino,
                                        !.own = d.sid = s, !.at = k]]
      BY <1>0 DEF HookLooks, TypeInv
  <2> QED
      BY <2>1, <1>6
<1>9. h \in HookRecord /\ h.pc = "look" /\ h.path = p /\ h.dev = dev /\ h.ino = d.ino /\ h.at = k /\ h.own = b
      /\ h.lines = hook[s].lines
    BY <1>0, <1>2, <1>4, <1>5, <1>7 DEF HookRecord
<1> HIDE DEF h
<1>10. HookShape(h)
    BY <1>1, <1>2, <1>9, HoldsNothing DEF HookShape
<1>11. HookFits(h, s, dir, file, Dealt)
  <2> SUFFICES ASSUME h.own
               PROVE  /\ d # Vacant /\ d.sid = s /\ d.ino = h.ino
                      /\ Clean(d) => Passed(file[h.ino], s, Dealt, h.at)
      BY <1>9 DEF HookFits
  <2>1. d.sid = s
      BY <1>7, <1>9
  <2>2. ASSUME Clean(d) PROVE Passed(file[d.ino], s, Dealt, k)
    <3>1. CASE k = 0
      <4>1. Lines(file[d.ino])
          BY <1>0, <1>4 DEF FileInv
      <4> HIDE DEF d, k
      <4> QED
          BY <3>1, <4>1, PassedAtStart
    <3>2. CASE k # 0
      <4>1. d.stop.dev = dev /\ d.stop.ino = d.ino /\ k = d.stop.at
          BY <3>2
      <4>2. StopFits(d, file, Dealt, dev)
          BY <1>0, <1>2 DEF StopInv
      <4> QED
          BY <4>1, <4>2, <2>1, <2>2 DEF StopFits
    <3> QED
        BY <3>1, <3>2
  <2> QED
      BY <2>1, <2>2, <1>1, <1>9
<1>a. Dealt \subseteq Dealt'
    BY <1>0, <1>1, <1>8, <1>9, DealtGrows
<1>b. FilesGrow(file, file) /\ DirCarries(dir, dir') /\ DirStays
    BY <1>0, <1>1, GrowSelf, StaysCarries, DirSame DEF FileInv
<1>12. HookFits(h, s, dir', file, Dealt')
  <2>1. h.at \in Nat
      BY <1>5, <1>9, Constants
  <2> QED
      BY <2>1, <1>a, <1>b, <1>10, <1>11, HookKept
<1> QED
    BY <1>1, <1>8, <1>9, <1>10, <1>a, <1>b, <1>12, HookStep

LEMMA HookReadsStep ==
    ASSUME IInv, NEW s \in Sessions, HookReads(s)
    PROVE  IInv'
<1>0. TypeInv /\ ShapeInv /\ FileInv /\ HookInv /\ dev \in Nat
    BY DEF IInv, TypeInv
<1> DEFINE p == hook[s].path
           d == dir[p]
           at == hook[s].at
           ends == LineEnds(d.ino, at)
           new == Complete(d.ino, Len(file[d.ino])) \ Complete(d.ino, at)
<1>1. hook[s].pc = "look" /\ HookOnly /\ UNCHANGED seen
    BY DEF HookReads, HookOnly
<1>2. /\ hook[s] \in HookRecord /\ p \in Paths /\ hook[s].dev = dev /\ hook[s].ino \in Files \cup {0}
      /\ hook[s].own \in BOOLEAN
    BY <1>0, <1>1, HookIs DEF ShapeInv, HookShape
<1>5. hook[s].lines = {}
    BY <1>1, HoldsNothing
<1>3. CASE d = Vacant \/ ends = {}
  <2> DEFINE h == [NoHook EXCEPT !.pc = "poll", !.path = p]
  <2>1. hook' = [hook EXCEPT ![s] = h] /\ UNCHANGED <<dir, handed, cut>>
      BY <1>3 DEF HookReads
  <2>2. h \in HookRecord /\ h.pc = "poll" /\ h.path = p /\ h.lines = {}
      BY <1>2, PollingIs
  <2> HIDE DEF h
  <2> QED
      BY <2>1, <2>2, <1>1, <1>2, <1>5, HookIdles
<1>4. ASSUME d # Vacant, ends # {}
      PROVE  IInv'
  <2> DEFINE g == Greatest(ends)
  <2>1. d \in Registration /\ d.ino \in Files /\ d.foreign \in BOOLEAN
      BY <1>0, <1>2, <1>4, DirIs, RegistrationIs DEF Present
  <2>2. Lines(file[d.ino]) /\ Len(file[d.ino]) \in Nat
      BY <2>1, <1>0, LinesFacts DEF FileInv
  <2>3. g \in Length /\ g \in 1 .. Len(file[d.ino])
      BY <2>2, <1>4, LineEndsAre
  <2> DEFINE h == [NoHook EXCEPT !.pc = "block", !.path = p, !.lines = new]
  <2>4. /\ hook' = [hook EXCEPT ![s] = h] /\ UNCHANGED <<handed, cut>>
        /\ \/ UNCHANGED dir
           \/ dir' = [dir EXCEPT ![p] = [d EXCEPT !.stop = [dev |-> hook[s].dev, ino |-> hook[s].ino, at |-> g],
                                                  !.foreign = d.foreign \/ ~hook[s].own]]
      BY <1>0, <1>4 DEF HookReads, TypeInv
  <2>a. new \in SUBSET Messages
      BY <2>1, <1>0, CompleteMessages DEF TypeInv
  <2> HIDE DEF new
  <2>b. h \in HookRecord /\ h.pc = "block" /\ h.path = p /\ h.lines = new
      BY <2>a, <1>2, BlockingIs
  <2> HIDE DEF g, h
  <2>c. Dealt \subseteq Dealt' /\ \A m \in new : <<s, m>> \in Dealt'
      BY <2>4, <2>b, <1>0, <1>5, DealtGrows
  <2>d. CASE UNCHANGED dir
      BY <2>4, <2>b, <2>d, <1>1, <1>2, <1>5, HookIdles
  <2> SUFFICES ASSUME dir' = [dir EXCEPT ![p] =
                                 [d EXCEPT !.stop = [dev |-> hook[s].dev, ino |-> hook[s].ino, at |-> g],
                                           !.foreign = d.foreign \/ ~hook[s].own]]
               PROVE  IInv'
      BY <2>4, <2>d
  <2>5. \E c \in Cursor : c = [dev |-> hook[s].dev, ino |-> hook[s].ino, at |-> g]
      BY <2>3, <1>0, <1>2 DEF Cursor
  <2>6. PICK c \in Cursor : c = [dev |-> hook[s].dev, ino |-> hook[s].ino, at |-> g]
      BY <2>5
  <2>7. c \in Cursor /\ c.dev = dev /\ c.ino = hook[s].ino /\ c.at = g
      BY <2>6, <1>2
  <2>8. PICK b \in BOOLEAN : b = (d.foreign \/ ~hook[s].own)
      OBVIOUS
  <2>9. b \in BOOLEAN /\ (d.foreign => b) /\ (b <=> d.foreign \/ ~hook[s].own)
      BY <2>8
  <2> DEFINE e == [d EXCEPT !.stop = c, !.foreign = b]
  <2>10. dir' = [dir EXCEPT ![p] = e]
      BY <2>6, <2>8
  <2>11. e \in Registration
      BY <2>1, <2>7, <2>9 DEF Registration
  <2>12. /\ e.sid = d.sid /\ e.conn = d.conn /\ e.ino = d.ino /\ e.again = d.again
         /\ e.skipped = d.skipped /\ e.foreign = b /\ e.cursor = d.cursor /\ e.stop = c
      BY <2>1 DEF Registration
  <2> HIDE DEF e
  <2>13. Carries(d, e)
      BY <2>1, <2>9, <2>11, <2>12, RegistrationIs DEF Carries
  <2>14. DirStays
      BY <1>0, <1>2, <1>4, <2>10, <2>13, DirWrite DEF Present
  <2>15. \A q \in Paths : dir'[q] = IF q = p THEN e ELSE dir[q]
      BY <1>0, <2>10 DEF TypeInv
  <2>16. StopFits(e, file, Dealt', dev)
    <3> SUFFICES ASSUME Clean(e) PROVE Passed(file[d.ino], d.sid, Dealt', g)
        BY <2>7, <2>12 DEF StopFits
    <3>1. Clean(d) /\ hook[s].own
        BY <2>1, <2>9, <2>12, <2>13, CleanBefore DEF Clean
    <3>2. d.sid = s /\ Passed(file[d.ino], s, Dealt, at)
        BY <3>1, <1>0, <1>1 DEF HookInv, HookFits
    <3>3. ASSUME NEW m \in Ended(file[d.ino], g) PROVE <<s, m>> \in Dealt'
      <4>1. CASE m \in Ended(file[d.ino], at)
          BY <4>1, <3>2, <2>c DEF Passed
      <4>2. CASE m \notin Ended(file[d.ino], at)
        <5>1. m \in Ended(file[d.ino], Len(file[d.ino]))
            BY <3>3, <2>2, EndedInAll
        <5>2. m \in new
            BY <4>2, <5>1, CompleteIs DEF new
        <5> QED
            BY <5>2, <2>c
      <4> QED
          BY <4>1, <4>2
    <3>4. g <= Len(file[d.ino])
        BY <2>2, <2>3
    <3>5. Passed(file[d.ino], s, Dealt', g)
      <4> DEFINE l == file[d.ino]
                 D == Dealt'
      <4>1. g <= Len(l) /\ \A m \in Ended(l, g) : <<s, m>> \in D
          BY <3>3, <3>4
      <4>2. Passed(l, s, D, g)
        <5> HIDE DEF l, D
        <5> QED
            BY <4>1 DEF Passed
      <4> QED
          BY <4>2
    <3> QED
        BY <3>2, <3>5
  <2>17. \A q \in Paths : Present(q) =>
             /\ dir'[q].cursor = dir[q].cursor
             /\ \/ dir'[q].stop = dir[q].stop
                \/ dir'[q].stop.dev <= dev /\ StopFits(dir'[q], file, Dealt', dev)
    <3>1. e.stop.dev <= dev
        BY <2>7, <2>12, <1>0
    <3> QED
        BY <3>1, <2>12, <2>15, <2>16
  <2>18. HookShape(h) /\ HookFits(h, s, dir', file, Dealt')
      BY <2>b, <1>2 DEF HookShape, HookFits
  <2> QED
      BY <2>4, <2>b, <2>c, <2>14, <2>17, <2>18, <1>1, HookStep
<1> QED
    BY <1>3, <1>4


(* ----------------------------------------------- a step of the connection - *)

\* What an attempt whose record matches says of the inbox.
LEMMA RecordIs ==
    ASSUME NEW a \in AttemptRecord, Lines(Inbox), RecordMatches(a)
    PROVE  /\ a.end \in 2 .. Len(Inbox) /\ a.end \in 1 .. Len(Inbox) /\ a.end - 1 \in 1 .. Len(Inbox)
           /\ Inbox[a.end - 1] = Half(a.m) /\ Inbox[a.end] = Full(a.m)
<1> DEFINE l == Inbox
           e == a.end
           s == SubSeq(l, e - 1, e)
<1>1. e \in 2 .. Len(l) /\ s = <<Half(a.m), Full(a.m)>> /\ Lines(l)
    BY DEF RecordMatches
<1>2. l \in Seq(1 .. 2 * MaxMail) /\ Len(l) \in Nat /\ \A i \in 1 .. Len(l) : l[i] \in 1 .. 2 * MaxMail
    BY <1>1, LinesFacts
<1> HIDE DEF l, e
<1>3. e - 1 \in 1 .. Len(l) /\ e \in 1 .. Len(l) /\ e - 1 + 1 - 1 = e - 1 /\ e - 1 + 2 - 1 = e
    BY <1>1, <1>2
<1>4. \A i \in e - 1 .. e : l[i] \in 1 .. 2 * MaxMail
    BY <1>1, <1>2
<1>5. /\ Len(s) = IF e - 1 <= e THEN e - (e - 1) + 1 ELSE 0
      /\ \A i \in 1 .. e - (e - 1) + 1 : s[i] = l[e - 1 + i - 1]
    BY <1>3, <1>4, SubSeqProperties
<1>6. s[1] = l[e - 1] /\ s[2] = l[e]
    BY <1>1, <1>3, <1>5
<1> HIDE DEF s
<1>7. s[1] = Half(a.m) /\ s[2] = Full(a.m)
    BY <1>1
<1> QED
    BY <1>1, <1>3, <1>6, <1>7 DEF l, e

\* What an owned inbox is.
LEMMA InboxIs ==
    ASSUME TypeInv, ShapeInv, DirInv, FileInv, Owned
    PROVE  /\ con.path \in Paths /\ Present(con.path) /\ dir[con.path] \in Registration
           /\ dir[con.path].ino \in Files /\ dir[con.path].sid = con.sid
           /\ Lines(Inbox) /\ Len(Inbox) \in Nat /\ Len(Inbox) \in Length
           /\ AllFor(Inbox, to, con.sid)
           /\ \A i \in 1 .. Len(Inbox) : Inbox[i] \in Nat /\ Whose(Inbox[i]) \in Sent
<1>1. con.path \in Paths /\ Present(con.path) /\ dir[con.path].sid = con.sid
    BY DEF ShapeInv, Owned, Managed
<1>2. dir[con.path] \in Registration
    BY <1>1, DirIs
<1>3. dir[con.path].ino \in Files
    BY <1>2, RegistrationIs
<1>4. Lines(Inbox) /\ \A i \in 1 .. Len(Inbox) : Whose(Inbox[i]) \in Sent
    BY <1>3 DEF FileInv, Inbox
<1>5. AllFor(Inbox, to, con.sid)
    BY <1>1 DEF FileInv, Inbox
<1> QED
    BY <1>1, <1>2, <1>3, <1>4, <1>5, LinesFacts

\* The position of a connection whose inbox is accepted for its own counts only
\* what was settled, under the device it recorded as under another.
LEMMA OffsetCounts ==
    ASSUME TypeInv, ShapeInv, DirInv, FileInv, OffsetInv, Owned, ~dir[con.path].again,
           NEW k, EpochDecision(k)
    PROVE  Passed(Inbox, con.sid, taken, con.at)
<1>0. /\ Lines(Inbox) /\ Len(Inbox) \in Nat /\ \A i \in 1 .. Len(Inbox) : Inbox[i] \in Nat
      /\ con.at \in Nat /\ Consumed \subseteq AttemptRecord
    BY InboxIs, ConIs
<1>1. CASE con.dev = dev
    BY <1>1 DEF OffsetInv, EpochDecision
<1>2. CASE con.at = 0
    BY <1>0, <1>2, PassedAtStart
<1>3. CASE con.dev # dev /\ con.at > 0
  <2>1. PICK a \in InboxAnchor : RecordMatches(a)
      BY <1>3 DEF EpochDecision
  <2>2. a \in Consumed /\ a \in AttemptRecord /\ a.end = con.at
      BY <2>1, <1>0 DEF InboxAnchor, Consumed
  <2>3. con.at \in 1 .. Len(Inbox) /\ Inbox[con.at] = Full(a.m) /\ a.m \in Nat
      BY <2>1, <2>2, <1>0, RecordIs, AttemptIs
  <2>4. ASSUME NEW m \in Ended(Inbox, con.at) PROVE <<con.sid, m>> \in taken
    <3>1. PICK i \in 1 .. Len(Inbox) : i <= con.at /\ Ends(Inbox[i]) /\ m = Message(Inbox[i])
        BY <2>4 DEF Ended
    <3>2. Inbox[i] <= Inbox[con.at]
      <4>1. \A x, y \in 1 .. Len(Inbox) : x < y => Inbox[x] < Inbox[y]
          BY <1>0, LinesFacts
      <4> QED
          BY <4>1, <3>1, <2>3, <1>0
    <3>3. Inbox[i] = 2 * Message(Inbox[i]) /\ Message(Inbox[i]) \in Nat
        BY <3>1, <1>0, Halves
    <3>4. Message(Inbox[i]) <= a.m
        BY <3>2, <3>3, <2>3 DEF Full
    <3> QED
        BY <3>1, <3>4, <2>2 DEF OffsetInv
  <2> QED
      BY <2>3, <2>4, <1>0 DEF Passed
<1> QED
    BY <1>0, <1>1, <1>2, <1>3

\* The position after the next line counts only what was settled, with that
\* line, and nothing sent before it is left.
LEMMA NextCounts ==
    ASSUME TypeInv, ShapeInv, DirInv, FileInv, OffsetInv, Owned, Passed(Inbox, con.sid, taken, con.at),
           NEW a \in NextLine, a \in AttemptRecord
    PROVE  /\ a.end \in Length /\ a.m \in Sent /\ to[a.m] = con.sid
           /\ Passed(Inbox, con.sid, taken \cup {<<con.sid, a.m>>}, a.end)
           /\ \A i \in 1 .. Len(Inbox) :
                Ends(Inbox[i]) /\ Message(Inbox[i]) <= a.m =>
                    <<con.sid, Message(Inbox[i])>> \in taken \cup {<<con.sid, a.m>>}
<1>0. /\ Lines(Inbox) /\ Len(Inbox) \in Nat /\ Len(Inbox) \in Length
      /\ \A i \in 1 .. Len(Inbox) : Inbox[i] \in Nat /\ Whose(Inbox[i]) \in Sent
      /\ con.at \in Nat /\ AllFor(Inbox, to, con.sid)
    BY InboxIs, ConIs
<1> DEFINE l == Inbox
           done == taken \cup {<<con.sid, a.m>>}
<1>1. PICK x \in Messages : a = Attempt(x, con.at + 2) /\ RecordMatches(a)
    BY DEF NextLine
<1>2. a.end = con.at + 2 /\ a.m \in Messages /\ a.m \in Nat
    BY <1>1, Constants DEF Attempt
<1>3. a.end \in 1 .. Len(l) /\ a.end - 1 \in 1 .. Len(l) /\ l[a.end - 1] = Half(a.m) /\ l[a.end] = Full(a.m)
    BY <1>0, <1>1, RecordIs
<1>4. a.m \in Nat \ {0}
    BY <1>2, Constants
<1>5. ~Ends(l[a.end - 1]) /\ Ends(l[a.end]) /\ Message(l[a.end]) = a.m /\ Whose(l[a.end]) = a.m
    BY <1>3, <1>4, HalvesOf
<1>6. a.m \in Sent /\ to[a.m] = con.sid
    BY <1>0, <1>3, <1>5 DEF AllFor
<1>7. a.end \in Length
  <2>1. a.end \in Nat /\ a.end <= Len(l) /\ Len(l) \in 0 .. 2 * MaxMail
      BY <1>0, <1>3 DEF Length
  <2> QED
      BY <2>1, Constants DEF Length
<1>8. ASSUME NEW i \in 1 .. Len(l), Ends(l[i]), i <= a.end PROVE <<con.sid, Message(l[i])>> \in done
  <2>1. CASE i <= con.at
    <3>1. Message(l[i]) \in Ended(l, con.at)
        BY <1>8, <2>1 DEF Ended
    <3> QED
        BY <3>1 DEF Passed
  <2>2. CASE i = con.at + 1
      BY <2>2, <1>8, <1>2, <1>5, <1>0
  <2>3. CASE i = con.at + 2
      BY <2>3, <1>2, <1>5
  <2>4. i \in Nat /\ i <= con.at + 2 /\ con.at \in Nat
      BY <1>8, <1>0, <1>2
  <2>5. i <= con.at \/ i = con.at + 1 \/ i = con.at + 2
      BY <2>4
  <2> QED
      BY <2>1, <2>2, <2>3, <2>5
<1>9. ASSUME NEW i \in 1 .. Len(l), Ends(l[i]), Message(l[i]) <= a.m PROVE <<con.sid, Message(l[i])>> \in done
  <2>1. l[i] = 2 * Message(l[i]) /\ Message(l[i]) \in Nat /\ l[i] \in Nat
      BY <1>0, <1>9, Halves
  <2>2. l[i] <= l[a.end]
      BY <2>1, <1>2, <1>3, <1>9 DEF Full
  <2>3. \A u, v \in 1 .. Len(l) : u < v => l[u] < l[v]
      BY <1>0, LinesFacts
  <2>4. i <= a.end
    <3>1. ~(a.end < i)
        BY <2>1, <2>2, <2>3, <1>0, <1>3
    <3> QED
        BY <3>1, <1>0, <1>3
  <2> QED
      BY <2>4, <1>8, <1>9
<1>10. Passed(l, con.sid, done, a.end)
  <2>1. ASSUME NEW m \in Ended(l, a.end) PROVE <<con.sid, m>> \in done
    <3>1. PICK i \in 1 .. Len(l) : i <= a.end /\ Ends(l[i]) /\ m = Message(l[i])
        BY <2>1 DEF Ended
    <3> HIDE DEF done
    <3> QED
        BY <3>1, <1>8
  <2>2. a.end <= Len(l)
      BY <1>3, <1>0
  <2> QED
      BY <2>1, <2>2 DEF Passed
<1> QED
    BY <1>6, <1>7, <1>9, <1>10

\* What of the position and the attempts is to be shown after a step of the
\* connection.
Settles(l, done, c, as) ==
    /\ \A a \in as, i \in 1 .. Len(l) :
          Ends(l[i]) /\ Message(l[i]) <= a.m => <<con.sid, Message(l[i])>> \in done
    /\ writer = con.path => \A a \in as : a.m < Whose(l[Len(l)])
    /\ c.dev = dev /\ dir[con.path].ino = c.ino => Passed(l, con.sid, done, c.at)

LEMMA OffsetStep ==
    ASSUME TypeInv, ShapeInv, DirStays, UNCHANGED <<file, writer, dev, to>>,
           con.pc # "off", con'.pc # "off", con'.path = con.path, con'.sid = con.sid,
           \A a \in Consumed' : a.m = 0 \/ a.m \in Sent,
           Owned /\ ~dir[con.path].again => Settles(Inbox, taken', con', Consumed')
    PROVE  OffsetInv'
<1>1. /\ Owned' <=> Owned
      /\ Owned => dir'[con.path].ino = dir[con.path].ino /\ dir'[con.path].again = dir[con.path].again
    BY OwnedKept
<1>2. Sent' = Sent
    BY DEF Sent
<1>3. Owned => Inbox' = Inbox
    BY <1>1 DEF Inbox
<1>4. \A a \in Consumed' : a.m = 0 \/ a.m \in Sent'
    BY <1>2
<1>5. ASSUME Owned', ~dir'[con'.path].again
      PROVE  /\ \A a \in Consumed', i \in 1 .. Len(Inbox') :
                  Ends(Inbox'[i]) /\ Message(Inbox'[i]) <= a.m => <<con'.sid, Message(Inbox'[i])>> \in taken'
             /\ writer' = con'.path => \A a \in Consumed' : a.m < Whose(Inbox'[Len(Inbox')])
             /\ con'.dev = dev' /\ dir'[con'.path].ino = con'.ino => Passed(Inbox', con'.sid, taken', con'.at)
    BY <1>1, <1>3, <1>5 DEF Settles
<1> QED
    BY <1>4, <1>5 DEF OffsetInv

LEMMA ConStep ==
    ASSUME IInv, ConOnly, con.pc # "off", con' \in ConRecord, con'.pc # "off", con'.path = con.path,
           con'.sid = con.sid, con'.dev <= dev, DirStays,
           \A p \in Paths : Present(p) => dir'[p].cursor = dir[p].cursor /\ dir'[p].stop = dir[p].stop,
           \A x \in taken' : x \in taken \/ (x[2] \in Sent /\ to[x[2]] = x[1]),
           \A a \in Consumed' : a.m = 0 \/ a.m \in Sent,
           Owned /\ ~dir[con.path].again => Settles(Inbox, taken', con', Consumed')
    PROVE  IInv'
<1>0. /\ TypeInv /\ ShapeInv /\ DirInv /\ FileInv /\ ReaderInv
      /\ CursorInv /\ ArmedInv /\ OpenInv /\ StopInv /\ HookInv /\ OffsetInv /\ OwnInv
    BY DEF IInv
<1>1. UNCHANGED <<file, fol, hook, writer, dev, to, seen, Dealt>>
    BY DealtStays DEF ConOnly
<1>3. TypeInv'
    BY <1>0, <1>1 DEF TypeInv, DirStays
<1>4. ShapeInv'
  <2>1. \A s \in Sessions : HookShape(hook[s])'
      BY <1>0, <1>1 DEF ShapeInv, HookShape
  <2>2. \A f \in Followers : FollowerShape(fol[f])'
      BY <1>0, <1>1 DEF ShapeInv, FollowerShape
  <2> QED
      BY <2>1, <2>2, <1>0 DEF ShapeInv
<1>5. DirInv'
  <2>1. \A p \in Paths : Present(p) => dir'[p].cursor.dev <= dev' /\ dir'[p].stop.dev <= dev'
      BY <1>0, <1>1 DEF DirInv
  <2> QED
      BY <2>1, <1>0, <1>1, DirKept
<1>6. FileInv'
    BY <1>0, <1>1, FileKept
<1>7. ReaderInv'
    BY <1>0, <1>1, ReadsKept DEF ReaderInv
<1>8. FilesGrow(file, file') /\ DirCarries(dir, dir')
    BY <1>0, <1>1, GrowSelf, StaysCarries DEF FileInv
<1>9. \A p \in Paths : dir'[p] # Vacant =>
          Present(p) /\ dir[p] # Vacant /\ dir[p] \in Registration /\ Carries(dir[p], dir'[p])
    BY <1>8 DEF DirCarries, Present
<1>10. CursorInv'
  <2> SUFFICES ASSUME NEW p \in Paths PROVE CursorFits(dir'[p], file', seen', dev')
      BY DEF CursorInv
  <2>1. CASE dir'[p] = Vacant
      BY <2>1 DEF CursorFits, Clean
  <2>2. CASE dir'[p] # Vacant
    <3>1. CursorFits(dir[p], file, seen, dev) /\ dir'[p].cursor = dir[p].cursor /\ seen \subseteq seen'
        BY <2>2, <1>0, <1>1, <1>9 DEF CursorInv
    <3>2. CursorFits(dir'[p], file', seen', dev)
        BY <3>1, <2>2, <1>8, <1>9, CursorKept
    <3> QED
        BY <3>2, <1>1
  <2> QED
      BY <2>1, <2>2
<1>11. ArmedInv'
  <2> SUFFICES ASSUME NEW g \in Followers PROVE ArmedFits(fol'[g], dir', file', seen')
      BY DEF ArmedInv
  <2>1. ArmedFits(fol[g], dir, file, seen) /\ FollowerShape(fol[g]) /\ fol[g].at \in Nat /\ seen \subseteq seen'
      BY <1>0, <1>1, FolIs DEF ArmedInv, ShapeInv
  <2>2. ArmedFits(fol[g], dir', file', seen')
      BY <2>1, <1>8, ArmedKept
  <2> QED
      BY <2>2, <1>1
<1>12. OpenInv'
  <2> SUFFICES ASSUME NEW g \in Followers PROVE OpenFits(fol'[g], dir', file', seen')
      BY DEF OpenInv
  <2>1. /\ OpenFits(fol[g], dir, file, seen) /\ FollowerShape(fol[g])
        /\ fol[g].at \in Nat /\ fol[g].pend \in Nat /\ seen \subseteq seen'
      BY <1>0, <1>1, FolIs DEF OpenInv, ShapeInv
  <2>2. OpenFits(fol[g], dir', file', seen')
      BY <2>1, <1>8, OpenKept
  <2> QED
      BY <2>2, <1>1
<1>13. StopInv'
  <2> SUFFICES ASSUME NEW p \in Paths PROVE StopFits(dir'[p], file', Dealt', dev')
      BY DEF StopInv
  <2>1. CASE dir'[p] = Vacant
      BY <2>1 DEF StopFits, Clean
  <2>2. CASE dir'[p] # Vacant
    <3>1. StopFits(dir[p], file, Dealt, dev) /\ dir'[p].stop = dir[p].stop /\ Dealt \subseteq Dealt'
        BY <2>2, <1>0, <1>1, <1>9 DEF StopInv
    <3>2. StopFits(dir'[p], file', Dealt', dev)
        BY <3>1, <2>2, <1>8, <1>9, StopKept
    <3> QED
        BY <3>2, <1>1
  <2> QED
      BY <2>1, <2>2
<1>14. HookInv'
  <2> SUFFICES ASSUME NEW t \in Sessions PROVE HookFits(hook'[t], t, dir', file', Dealt')
      BY DEF HookInv
  <2>1. /\ HookFits(hook[t], t, dir, file, Dealt) /\ HookShape(hook[t]) /\ hook[t].at \in Nat
        /\ Dealt \subseteq Dealt'
      BY <1>0, <1>1, HookIs DEF HookInv, ShapeInv
  <2>2. HookFits(hook[t], t, dir', file', Dealt')
      BY <2>1, <1>8, HookKept
  <2> QED
      BY <2>2, <1>1
<1>15. OffsetInv'
    BY <1>0, <1>1, OffsetStep
<1>16. OwnInv'
    BY <1>0, <1>1 DEF OwnInv, OwnMailOnly, Sent
<1> QED
    BY <1>3, <1>4, <1>5, <1>6, <1>7, <1>10, <1>11, <1>12, <1>13, <1>14, <1>15, <1>16 DEF IInv


\* The witness of the connection's registration comes and goes.
LEMMA ArmedNowIs ==
    ASSUME TypeInv, con.path \in Paths, Present(con.path), ArmedNow \/ UNCHANGED dir
    PROVE  DirStays /\ \A p \in Paths : Present(p) => dir'[p].cursor = dir[p].cursor /\ dir'[p].stop = dir[p].stop
<1>1. CASE UNCHANGED dir
    BY <1>1, DirSame
<1>2. CASE ArmedNow
  <2> DEFINE d == dir[con.path]
             e == [d EXCEPT !.witness = TRUE]
  <2>1. d \in Registration
      BY DirIs
  <2>2. dir' = [dir EXCEPT ![con.path] = e]
      BY <1>2 DEF ArmedNow, TypeInv
  <2>3. Carries(d, e) /\ e.cursor = d.cursor /\ e.stop = d.stop
      BY <2>1, WitnessWritten
  <2> HIDE DEF e
  <2>4. \A q \in Paths : dir'[q] = IF q = con.path THEN e ELSE dir[q]
      BY <2>2 DEF TypeInv
  <2> QED
      BY <2>2, <2>3, <2>4, DirWrite
<1> QED
    BY <1>1, <1>2

LEMMA DaemonGoneIs ==
    ASSUME TypeInv, dir' = DaemonGone
    PROVE  DirStays /\ \A p \in Paths : Present(p) => dir'[p].cursor = dir[p].cursor /\ dir'[p].stop = dir[p].stop
<1>1. \A p \in Paths : dir'[p] = IF Managed(p) THEN [dir[p] EXCEPT !.witness = FALSE] ELSE dir[p]
    BY DEF DaemonGone
<1>2. ASSUME NEW p \in Paths
      PROVE  /\ IF Present(p) THEN Carries(dir[p], dir'[p]) ELSE dir'[p] = Vacant
             /\ Present(p) => dir'[p].cursor = dir[p].cursor /\ dir'[p].stop = dir[p].stop
  <2>1. CASE Present(p) /\ Managed(p)
    <3> DEFINE d == dir[p]
               e == [d EXCEPT !.witness = FALSE]
    <3>1. d \in Registration
        BY <2>1, DirIs
    <3>2. Carries(d, e) /\ e.cursor = d.cursor /\ e.stop = d.stop
        BY <3>1, WitnessWritten
    <3>3. dir'[p] = e
        BY <1>1, <2>1
    <3> HIDE DEF e
    <3> QED
        BY <2>1, <3>2, <3>3
  <2>2. CASE Present(p) /\ ~Managed(p)
      BY <1>1, <2>2, DirIs, CarriesSelf
  <2>3. CASE ~Present(p)
      BY <1>1, <2>3 DEF Managed, Present
  <2> QED
      BY <2>1, <2>2, <2>3
<1>3. \A p \in Paths : dir'[p] \in Registration \cup {Vacant}
    BY <1>2 DEF Carries
<1>4. dir' \in [Paths -> Registration \cup {Vacant}]
    BY <1>3 DEF DaemonGone
<1> QED
    BY <1>2, <1>4 DEF DirStays

\* A pass that changes neither position nor what was consumed.
LEMMA SamePlaceStep ==
    ASSUME IInv, ConOnly, con.pc # "off", UNCHANGED taken, DirStays,
           \A p \in Paths : Present(p) => dir'[p].cursor = dir[p].cursor /\ dir'[p].stop = dir[p].stop,
           con' \in ConRecord, con'.pc # "off", con'.path = con.path, con'.sid = con.sid,
           con'.ino = con.ino, con'.at = con.at, con'.last = con.last, con'.given = con.given,
           con'.dev = con.dev \/ (con'.dev = dev /\ Owned /\ \E k \in Nat : EpochDecision(k))
    PROVE  IInv'
<1>0. TypeInv /\ ShapeInv /\ DirInv /\ FileInv /\ OffsetInv /\ dev \in Nat
    BY DEF IInv, TypeInv
<1>1. Consumed' = Consumed /\ con'.dev <= dev
    BY <1>0 DEF Consumed, DirInv
<1>2. ASSUME Owned, ~dir[con.path].again PROVE Settles(Inbox, taken', con', Consumed')
  <2>1. /\ \A a \in Consumed, i \in 1 .. Len(Inbox) :
              Ends(Inbox[i]) /\ Message(Inbox[i]) <= a.m => <<con.sid, Message(Inbox[i])>> \in taken
        /\ writer = con.path => \A a \in Consumed : a.m < Whose(Inbox[Len(Inbox)])
        /\ con.dev = dev /\ dir[con.path].ino = con.ino => Passed(Inbox, con.sid, taken, con.at)
      BY <1>0, <1>2 DEF OffsetInv
  <2>2. con'.dev = dev /\ dir[con.path].ino = con'.ino => Passed(Inbox, con.sid, taken, con.at)
    <3>1. CASE con'.dev = con.dev
        BY <2>1, <3>1
    <3>2. CASE \E k \in Nat : EpochDecision(k)
        BY <3>2, <1>0, <1>2, OffsetCounts
    <3> QED
        BY <3>1, <3>2
  <2> QED
      BY <2>1, <2>2, <1>1 DEF Settles
<1>3. \A a \in Consumed' : a.m = 0 \/ a.m \in Sent
    BY <1>0, <1>1 DEF OffsetInv
<1> QED
    BY <1>1, <1>2, <1>3, ConStep

LEMMA ConIdlesStep ==
    ASSUME IInv, ConIdles
    PROVE  IInv'
<1>0. TypeInv /\ ShapeInv /\ dev \in Nat /\ con \in ConRecord
    BY ConIs DEF IInv, TypeInv
<1>1. Working(con.at) /\ con' = [con EXCEPT !.dev = dev] /\ (ArmedNow \/ UNCHANGED dir) /\ ConOnly /\ UNCHANGED taken
    BY DEF ConIdles
<1>2. con.pc = "up" /\ Owned /\ EpochDecision(con.at) /\ con.at \in Nat
    BY <1>0, <1>1, ConIs DEF Working
<1>3. con.path \in Paths /\ Present(con.path)
    BY <1>0, <1>2 DEF ShapeInv, Owned, Managed
<1>4. /\ con' \in ConRecord /\ con'.dev = dev /\ con'.pc = con.pc /\ con'.path = con.path /\ con'.sid = con.sid
      /\ con'.ino = con.ino /\ con'.at = con.at /\ con'.last = con.last /\ con'.given = con.given
    BY <1>0, <1>1 DEF ConRecord
<1>5. DirStays /\ \A p \in Paths : Present(p) => dir'[p].cursor = dir[p].cursor /\ dir'[p].stop = dir[p].stop
    BY <1>0, <1>1, <1>3, ArmedNowIs
<1> QED
    BY <1>1, <1>2, <1>4, <1>5, SamePlaceStep

LEMMA ConJournalsStep ==
    ASSUME IInv, ConJournals
    PROVE  IInv'
<1>0. TypeInv /\ ShapeInv /\ DirInv /\ FileInv /\ OffsetInv /\ dev \in Nat /\ con \in ConRecord
    BY ConIs DEF IInv, TypeInv
<1>1. Working(con.at) /\ ArmedNow /\ ConOnly /\ UNCHANGED taken
    BY DEF ConJournals
<1>2. con.pc = "up" /\ Owned /\ EpochDecision(con.at) /\ con.at \in Nat
    BY <1>0, <1>1, ConIs DEF Working
<1>3. con.path \in Paths /\ Present(con.path)
    BY <1>0, <1>2 DEF ShapeInv, Owned, Managed
<1>a. PICK a \in NextLine : con' = [con EXCEPT !.dev = dev, !.pend = a]
    BY DEF ConJournals
<1>b. a \in AttemptRecord
  <2>1. PICK m \in Messages : a = Attempt(m, con.at + 2) /\ RecordMatches(a)
      BY DEF NextLine
  <2>2. con.at + 2 \in Length
    <3>1. con.at + 2 \in 2 .. Len(Inbox) /\ Len(Inbox) \in Length
        BY <2>1, <1>0, <1>2, InboxIs DEF RecordMatches, Attempt
    <3>2. con.at + 2 \in Nat /\ con.at + 2 <= Len(Inbox) /\ Len(Inbox) \in 0 .. 2 * MaxMail
        BY <3>1, <1>2 DEF Length
    <3> QED
        BY <3>2, Constants DEF Length
  <2> QED
      BY <2>1, <2>2 DEF Attempt, AttemptRecord
<1>4. /\ con' \in ConRecord /\ con'.dev = dev /\ con'.pc = con.pc /\ con'.path = con.path /\ con'.sid = con.sid
      /\ con'.ino = con.ino /\ con'.at = con.at /\ con'.last = con.last /\ con'.given = con.given
    BY <1>0, <1>a, <1>b DEF ConRecord
<1>5. DirStays /\ \A p \in Paths : Present(p) => dir'[p].cursor = dir[p].cursor /\ dir'[p].stop = dir[p].stop
    BY <1>0, <1>1, <1>3, ArmedNowIs
<1> QED
    BY <1>1, <1>2, <1>4, <1>5, SamePlaceStep

LEMMA RearmStep ==
    ASSUME IInv, Rearm
    PROVE  IInv'
<1>0. TypeInv /\ ShapeInv /\ dev \in Nat /\ con \in ConRecord /\ con.at \in Nat
    BY ConIs DEF IInv, TypeInv
<1>1. con.pc = "down" /\ ConOnly /\ UNCHANGED taken
    BY DEF Rearm
<1>2. CASE Owned /\ LockFree(con.path) /\ EpochDecision(con.at)
  <2>1. con' = [con EXCEPT !.pc = "up", !.dev = dev] /\ ArmedNow
      BY <1>2 DEF Rearm
  <2>2. con.path \in Paths /\ Present(con.path)
      BY <1>0, <1>1, <1>2 DEF ShapeInv, Owned, Managed
  <2>3. /\ con' \in ConRecord /\ con'.dev = dev /\ con'.pc = "up" /\ con'.path = con.path /\ con'.sid = con.sid
        /\ con'.ino = con.ino /\ con'.at = con.at /\ con'.last = con.last /\ con'.given = con.given
      BY <1>0, <2>1 DEF ConRecord
  <2>4. DirStays /\ \A p \in Paths : Present(p) => dir'[p].cursor = dir[p].cursor /\ dir'[p].stop = dir[p].stop
      BY <1>0, <2>1, <2>2, ArmedNowIs
  <2> QED
      BY <1>0, <1>1, <1>2, <2>3, <2>4, SamePlaceStep
<1>3. CASE ~(Owned /\ LockFree(con.path) /\ EpochDecision(con.at))
  <2>1. con' = [con EXCEPT !.pc = "up"] /\ UNCHANGED dir
      BY <1>3 DEF Rearm
  <2>2. /\ con' \in ConRecord /\ con'.dev = con.dev /\ con'.pc = "up" /\ con'.path = con.path /\ con'.sid = con.sid
        /\ con'.ino = con.ino /\ con'.at = con.at /\ con'.last = con.last /\ con'.given = con.given
      BY <1>0, <2>1 DEF ConRecord
  <2>3. DirStays /\ \A p \in Paths : Present(p) => dir'[p].cursor = dir[p].cursor /\ dir'[p].stop = dir[p].stop
      BY <1>0, <2>1, DirSame
  <2> QED
      BY <1>1, <2>2, <2>3, SamePlaceStep
<1> QED
    BY <1>2, <1>3

LEMMA ConDiesStep ==
    ASSUME IInv, ConDies
    PROVE  IInv'
<1>0. TypeInv /\ con \in ConRecord
    BY ConIs DEF IInv
<1>1. /\ con.pc = "up" /\ ConOnly /\ UNCHANGED taken /\ con' = [con EXCEPT !.pc = "down"]
      /\ dir' = DaemonGone
    BY DEF ConDies
<1>2. /\ con' \in ConRecord /\ con'.dev = con.dev /\ con'.pc = "down" /\ con'.path = con.path /\ con'.sid = con.sid
      /\ con'.ino = con.ino /\ con'.at = con.at /\ con'.last = con.last /\ con'.given = con.given
    BY <1>0, <1>1 DEF ConRecord
<1>3. DirStays /\ \A p \in Paths : Present(p) => dir'[p].cursor = dir[p].cursor /\ dir'[p].stop = dir[p].stop
    BY <1>0, <1>1, DaemonGoneIs
<1> QED
    BY <1>1, <1>2, <1>3, SamePlaceStep

\* The next line is settled: accepted or given up.
LEMMA SettleStep ==
    ASSUME IInv, ConOnly, con.pc # "off", Owned, LockFree(con.path), NEW k \in Nat, EpochDecision(k),
           con.pend \in NextLine, ArmedNow \/ UNCHANGED dir,
           taken' = taken \cup {<<con.sid, con.pend.m>>},
           con' \in ConRecord, con'.pc = con.pc, con'.path = con.path, con'.sid = con.sid,
           con'.ino = con.ino, con'.dev = dev, con'.at = con.pend.end,
           Consumed' \subseteq Consumed \cup {con.pend}
    PROVE  IInv'
<1>0. TypeInv /\ ShapeInv /\ DirInv /\ FileInv /\ OffsetInv /\ dev \in Nat /\ con.pend \in AttemptRecord
    BY ConIs DEF IInv, TypeInv
<1>1. con.path \in Paths /\ Present(con.path)
    BY <1>0 DEF ShapeInv, Owned, Managed
<1>2. DirStays /\ \A p \in Paths : Present(p) => dir'[p].cursor = dir[p].cursor /\ dir'[p].stop = dir[p].stop
    BY <1>0, <1>1, ArmedNowIs
<1>3. con.pend.m \in Sent /\ to[con.pend.m] = con.sid
    \* that a message is the one of a line needs no position
  <2>1. PICK x \in Messages : con.pend = Attempt(x, con.at + 2) /\ RecordMatches(con.pend)
      BY DEF NextLine
  <2>2. con.pend.m \in Nat \ {0}
      BY <2>1, Constants DEF Attempt
  <2>3. con.pend.end \in 1 .. Len(Inbox) /\ Inbox[con.pend.end] = Full(con.pend.m)
      BY <2>1, <1>0, InboxIs, RecordIs
  <2>4. Whose(Inbox[con.pend.end]) = con.pend.m
      BY <2>2, <2>3, HalvesOf
  <2> QED
      BY <2>3, <2>4, <1>0, InboxIs DEF AllFor
<1>4. \A a \in Consumed' : a.m = 0 \/ a.m \in Sent
    BY <1>0, <1>3 DEF OffsetInv
<1>5. \A x \in taken' : x \in taken \/ (x[2] \in Sent /\ to[x[2]] = x[1])
    BY <1>3
<1>6. ASSUME ~dir[con.path].again PROVE Settles(Inbox, taken', con', Consumed')
  <2>1. Passed(Inbox, con.sid, taken, con.at)
      BY <1>0, <1>6, OffsetCounts
  <2>2. /\ Passed(Inbox, con.sid, taken', con.pend.end)
        /\ \A i \in 1 .. Len(Inbox) :
             Ends(Inbox[i]) /\ Message(Inbox[i]) <= con.pend.m => <<con.sid, Message(Inbox[i])>> \in taken'
      BY <1>0, <2>1, NextCounts
  <2>3. \A a \in Consumed, i \in 1 .. Len(Inbox) :
            Ends(Inbox[i]) /\ Message(Inbox[i]) <= a.m => <<con.sid, Message(Inbox[i])>> \in taken'
      BY <1>0, <1>6 DEF OffsetInv
  <2>4. \A a \in Consumed', i \in 1 .. Len(Inbox) :
            Ends(Inbox[i]) /\ Message(Inbox[i]) <= a.m => <<con.sid, Message(Inbox[i])>> \in taken'
      BY <2>2, <2>3
  <2> QED
      BY <2>2, <2>4 DEF Settles, LockFree
<1>7. con'.dev <= dev
    BY <1>0
<1> QED
    BY <1>2, <1>4, <1>5, <1>6, <1>7, ConStep

LEMMA ConAcceptsStep ==
    ASSUME IInv, ConAccepts
    PROVE  IInv'
<1>0. /\ TypeInv /\ dev \in Nat /\ con \in ConRecord /\ con.at \in Nat /\ con.pend \in AttemptRecord
      /\ con.pend.end \in Length
    BY ConIs, AttemptIs DEF IInv, TypeInv
<1>1. /\ Working(con.at) /\ con.pend \in NextLine /\ ArmedNow /\ ConOnly
      /\ taken' = taken \cup {<<con.sid, con.pend.m>>}
      /\ con' = [con EXCEPT !.dev = dev, !.at = con.pend.end, !.last = con.pend, !.pend = NoAttempt]
    BY DEF ConAccepts
<1>2. con.pc = "up" /\ Owned /\ LockFree(con.path) /\ EpochDecision(con.at)
    BY <1>1 DEF Working
<1>3. /\ con' \in ConRecord /\ con'.dev = dev /\ con'.pc = con.pc /\ con'.path = con.path /\ con'.sid = con.sid
      /\ con'.ino = con.ino /\ con'.at = con.pend.end /\ con'.last = con.pend /\ con'.given = con.given
    BY <1>0, <1>1, NoneIs DEF ConRecord
<1>4. Consumed' \subseteq Consumed \cup {con.pend}
    BY <1>3 DEF Consumed
<1> QED
    BY <1>0, <1>1, <1>2, <1>3, <1>4, SettleStep

LEMMA ConAbandonsStep ==
    ASSUME IInv, ConAbandons
    PROVE  IInv'
<1>0. /\ TypeInv /\ dev \in Nat /\ con \in ConRecord /\ con.pend \in AttemptRecord
      /\ con.pend.end \in Length /\ con.pend.end \in Nat
    BY ConIs, AttemptIs DEF IInv, TypeInv
<1>1. /\ Working(con.pend.end) /\ con.pend \in NextLine /\ UNCHANGED dir /\ ConOnly
      /\ taken' = taken \cup {<<con.sid, con.pend.m>>}
      /\ con' = [con EXCEPT !.dev = dev, !.at = con.pend.end, !.given = con.given \cup {con.pend}, !.pend = NoAttempt]
    BY DEF ConAbandons
<1>2. con.pc = "up" /\ Owned /\ LockFree(con.path) /\ EpochDecision(con.pend.end)
    BY <1>1 DEF Working
<1>3. /\ con' \in ConRecord /\ con'.dev = dev /\ con'.pc = con.pc /\ con'.path = con.path /\ con'.sid = con.sid
      /\ con'.ino = con.ino /\ con'.at = con.pend.end /\ con'.last = con.last
      /\ con'.given = con.given \cup {con.pend}
    BY <1>0, <1>1, NoneIs DEF ConRecord
<1>4. Consumed' \subseteq Consumed \cup {con.pend}
    BY <1>3 DEF Consumed
<1> QED
    BY <1>0, <1>1, <1>2, <1>3, <1>4, SettleStep


(* ------------------------------------------------------- a line is written - *)

\* What was sent before stays sent to whom it was.
SentStays(who) == \A m \in Sent : who[m] = to[m]

LEMMA ForStays ==
    ASSUME NEW l, NEW l2, Lines(l), Lines(l2), Grown(l, l2), \A i \in 1 .. Len(l) : Whose(l[i]) \in Sent,
           NEW who, SentStays(who), NEW s, AllFor(l, to, s),
           \A i \in 1 .. Len(l2) : i > Len(l) => who[Whose(l2[i])] = s
    PROVE  AllFor(l2, who, s)
<1>1. Len(l) \in Nat /\ Len(l2) \in Nat
    BY LinesFacts
<1> SUFFICES ASSUME NEW i \in 1 .. Len(l2) PROVE who[Whose(l2[i])] = s
    BY DEF AllFor
<1>2. CASE i > Len(l)
    BY <1>2
<1>3. CASE i <= Len(l)
  <2>1. i \in 1 .. Len(l) /\ l2[i] = l[i]
      BY <1>1, <1>3 DEF Grown
  <2>2. Whose(l[i]) \in Sent /\ to[Whose(l[i])] = s
      BY <2>1 DEF AllFor
  <2> QED
      BY <2>1, <2>2 DEF SentStays
<1> QED
    BY <1>1, <1>2, <1>3

\* Half lines are added to the inbox of alias p.
LEMMA SentStep ==
    ASSUME IInv, UNCHANGED <<dir, fol, hook, con, dev, seen, Dealt, taken>>,
           NEW p \in Paths, Present(p), NEW l2, Lines(l2), Grown(file[dir[p].ino], l2),
           file' = [file EXCEPT ![dir[p].ino] = l2],
           to' \in [Messages -> Sessions \cup {NoOne}], SentStays(to'), Sent \subseteq Sent',
           \E k \in Nat : Sent' = 1 .. k,
           \A i \in 1 .. Len(l2) : i > Len(file[dir[p].ino]) =>
               /\ Whose(l2[i]) \in Sent' /\ to'[Whose(l2[i])] = dir[p].sid
               /\ p = con.path /\ Owned /\ ~dir[p].again => \A a \in Consumed : a.m < Whose(l2[i]),
           writer' \in Paths \cup {NoOne}, \A q \in Paths : writer' = q => q = p \/ writer = q,
           writer' = p => Len(l2) > Len(file[dir[p].ino]) /\ ~Ends(l2[Len(l2)])
    PROVE  IInv'
<1>0. /\ TypeInv /\ ShapeInv /\ DirInv /\ FileInv /\ ReaderInv
      /\ CursorInv /\ ArmedInv /\ OpenInv /\ StopInv /\ HookInv /\ OffsetInv /\ OwnInv
    BY DEF IInv
<1> DEFINE n == dir[p].ino
           l == file[n]
<1>1. UNCHANGED <<dir, fol, hook, con, dev, seen, Dealt, taken>>
    OBVIOUS
<1>2. n \in Files /\ dir[p] \in Registration
    BY <1>0, DirIs, RegistrationIs
<1>3. \A x \in Files : file'[x] = IF x = n THEN l2 ELSE file[x]
    BY <1>0 DEF TypeInv
<1>4. Lines(l) /\ Len(l) \in Nat /\ Len(l2) \in Nat /\ Len(l) <= Len(l2) /\ \A i \in 1 .. Len(l) : l2[i] = l[i]
    BY <1>0, <1>2, LinesFacts DEF FileInv, Grown
<1>5. file' \in [Files -> Seq(1 .. 2 * MaxMail)]
  <2>1. l2 \in Seq(1 .. 2 * MaxMail)
      BY LinesFacts
  <2> QED
      BY <2>1, <1>0 DEF TypeInv
<1>6. TypeInv'
    BY <1>0, <1>1, <1>5 DEF TypeInv
<1>7. ShapeInv'
  <2>1. \A s \in Sessions : HookShape(hook[s])'
      BY <1>0, <1>1 DEF ShapeInv, HookShape
  <2>2. \A f \in Followers : FollowerShape(fol[f])'
      BY <1>0, <1>1 DEF ShapeInv, FollowerShape
  <2> QED
      BY <2>1, <2>2, <1>0, <1>1 DEF ShapeInv
<1>8. \A q \in Paths : Present(q)' <=> Present(q)
    BY <1>1 DEF Present
<1>9. \A q \in Paths : Present(q) /\ q # p => dir[q].ino # n /\ dir[q].ino \in Files
    BY <1>0, DirIs, RegistrationIs DEF DirInv
<1>10. DirInv'
  <2>1. \A q \in Paths : writer' = q =>
            /\ Present(q) /\ Len(file'[dir[q].ino]) > 0
            /\ ~Ends(file'[dir[q].ino][Len(file'[dir[q].ino])])
    <3> SUFFICES ASSUME NEW q \in Paths, writer' = q
                 PROVE  /\ Present(q) /\ Len(file'[dir[q].ino]) > 0
                        /\ ~Ends(file'[dir[q].ino][Len(file'[dir[q].ino])])
        OBVIOUS
    <3>1. CASE q = p
        BY <3>1, <1>2, <1>3, <1>4
    <3>2. CASE q # p
        BY <3>2, <1>0, <1>3, <1>9 DEF DirInv
    <3> QED
        BY <3>1, <3>2
  <2>2. \A q \in Paths : Managed(q)' <=> Managed(q)
      BY <1>1 DEF Managed, Present
  <2> QED
      BY <2>1, <2>2, <1>0, <1>1, <1>8 DEF DirInv
<1>11. \A i \in 1 .. Len(l) : Whose(l[i]) \in Sent
    BY <1>0, <1>2 DEF FileInv
<1>12. FilesGrow(file, file')
  <2> SUFFICES ASSUME NEW x \in Files PROVE Lines(file[x]) /\ Lines(file'[x]) /\ Grown(file[x], file'[x])
      BY DEF FilesGrow
  <2>1. Lines(file[x]) /\ Len(file[x]) \in Nat
      BY <1>0, LinesFacts DEF FileInv
  <2> QED
      BY <2>1, <1>3 DEF Grown
<1>13. DirCarries(dir, dir')
    BY <1>0, <1>1, DirSame, StaysCarries
<1>14. \A x \in Files, s \in Sessions \cup {NoOne} :
           AllFor(file[x], to, s) /\ (x = n => dir[p].sid = s) => AllFor(file'[x], to', s)
  <2> SUFFICES ASSUME NEW x \in Files, NEW s, AllFor(file[x], to, s), x = n => dir[p].sid = s
               PROVE  AllFor(file'[x], to', s)
      OBVIOUS
  <2>1. Lines(file[x]) /\ Lines(file'[x]) /\ Grown(file[x], file'[x])
      BY <1>12 DEF FilesGrow
  <2>2. \A i \in 1 .. Len(file[x]) : Whose(file[x][i]) \in Sent
      BY <1>0 DEF FileInv
  <2>3. \A i \in 1 .. Len(file'[x]) : i > Len(file[x]) => to'[Whose(file'[x][i])] = s
    <3>1. CASE x = n
        BY <3>1, <1>3
    <3>2. CASE x # n
        BY <3>2, <1>3, <2>1, LinesFacts
    <3> QED
        BY <3>1, <3>2
  <2> DEFINE u == file[x]
             v == file'[x]
             w == to'
  <2>4. /\ Lines(u) /\ Lines(v) /\ Grown(u, v) /\ (\A i \in 1 .. Len(u) : Whose(u[i]) \in Sent)
        /\ SentStays(w) /\ AllFor(u, to, s)
        /\ \A i \in 1 .. Len(v) : i > Len(u) => w[Whose(v[i])] = s
      BY <2>1, <2>2, <2>3
  <2> HIDE DEF u, v, w
  <2>5. AllFor(v, w, s)
      BY <2>4, ForStays
  <2> QED
      BY <2>5 DEF v, w
<1>15. FileInv'
  <2>1. ASSUME NEW x \in Files
        PROVE  Lines(file'[x]) /\ \A i \in 1 .. Len(file'[x]) : Whose(file'[x][i]) \in Sent'
    <3>1. CASE x = n
      <4>1. \A i \in 1 .. Len(l2) : Whose(l2[i]) \in Sent'
        <5> SUFFICES ASSUME NEW i \in 1 .. Len(l2) PROVE Whose(l2[i]) \in Sent'
            OBVIOUS
        <5>1. CASE i > Len(l)
            BY <5>1
        <5>2. CASE i <= Len(l)
          <6>1. i \in 1 .. Len(l)
              BY <5>2, <1>4
          <6> QED
              BY <6>1, <1>4, <1>11
        <5> QED
            BY <5>1, <5>2, <1>4
      <4> QED
          BY <3>1, <4>1, <1>3
    <3>2. CASE x # n
        BY <3>2, <1>0, <1>3 DEF FileInv
    <3> QED
        BY <3>1, <3>2
  <2>2. ASSUME NEW q \in Paths, Present(q) PROVE AllFor(file'[dir[q].ino], to', dir[q].sid)
    <3>1. AllFor(file[dir[q].ino], to, dir[q].sid) /\ dir[q].ino \in Files /\ dir[q].sid \in Sessions
        BY <2>2, <1>0, DirIs, RegistrationIs DEF FileInv
    <3>2. dir[q].ino = n => dir[p].sid = dir[q].sid
        BY <2>2, <1>9
    <3> QED
        BY <3>1, <3>2, <1>14
  <2> QED
      BY <2>1, <2>2, <1>1, <1>8 DEF FileInv
<1>16. ReaderInv'
  <2> SUFFICES ASSUME NEW f \in Followers PROVE Reads(fol[f], dir, file', to')
      BY <1>1 DEF ReaderInv
  <2>1. Reads(fol[f], dir, file, to) /\ FollowerShape(fol[f])
      BY <1>0 DEF ReaderInv, ShapeInv
  <2>2. ASSUME fol[f].pc \in Running, ~fol[f].late PROVE AllFor(file'[fol[f].ino], to', fol[f].sid)
    <3>1. /\ AllFor(file[fol[f].ino], to, fol[f].sid) /\ fol[f].ino \in Files
          /\ dir[p].ino = fol[f].ino => dir[p].sid = fol[f].sid
        BY <2>1, <2>2 DEF Reads, FollowerShape, Present
    <3>2. fol[f].sid \in Sessions \cup {NoOne}
        BY <1>0, FolIs
    <3> QED
        BY <3>1, <3>2, <1>14
  <2>3. ASSUME fol[f].pc \in Running, NEW i \in fol[f].at - fol[f].pend + 1 .. fol[f].at
        PROVE  i <= Len(file'[fol[f].ino]) /\ ~Ends(file'[fol[f].ino][i])
    <3>1. fol[f].ino \in Files /\ i <= Len(file[fol[f].ino]) /\ ~Ends(file[fol[f].ino][i])
        BY <2>1, <2>3 DEF Reads, FollowerShape
    <3>2. i \in Nat /\ i >= 1
        BY <1>0, <2>1, <2>3, FolIs DEF FollowerShape
    <3>3. /\ Len(file[fol[f].ino]) \in Nat /\ Len(file'[fol[f].ino]) \in Nat
          /\ Len(file[fol[f].ino]) <= Len(file'[fol[f].ino])
          /\ \A j \in 1 .. Len(file[fol[f].ino]) : file'[fol[f].ino][j] = file[fol[f].ino][j]
        BY <3>1, <1>12, LinesFacts DEF FilesGrow, Grown
    <3> QED
        BY <3>1, <3>2, <3>3
  <2> QED
      BY <2>1, <2>2, <2>3 DEF Reads
<1>17. CursorInv'
  <2> SUFFICES ASSUME NEW q \in Paths PROVE CursorFits(dir[q], file', seen, dev)
      BY <1>1 DEF CursorInv
  <2>1. CASE Present(q)
    <3>1. dir[q] \in Registration /\ Carries(dir[q], dir[q]) /\ CursorFits(dir[q], file, seen, dev)
        BY <2>1, <1>0, DirIs, CarriesSelf DEF CursorInv
    <3> QED
        BY <3>1, <1>12, CursorKept
  <2>2. CASE ~Present(q)
      BY <2>2 DEF CursorFits, Clean, Present
  <2> QED
      BY <2>1, <2>2
<1>18. ArmedInv'
  <2> SUFFICES ASSUME NEW g \in Followers PROVE ArmedFits(fol[g], dir', file', seen)
      BY <1>1 DEF ArmedInv
  <2>1. ArmedFits(fol[g], dir, file, seen) /\ FollowerShape(fol[g]) /\ fol[g].at \in Nat
      BY <1>0, FolIs DEF ArmedInv, ShapeInv
  <2> QED
      BY <2>1, <1>12, <1>13, ArmedKept
<1>19. OpenInv'
  <2> SUFFICES ASSUME NEW g \in Followers PROVE OpenFits(fol[g], dir', file', seen)
      BY <1>1 DEF OpenInv
  <2>1. OpenFits(fol[g], dir, file, seen) /\ FollowerShape(fol[g]) /\ fol[g].at \in Nat /\ fol[g].pend \in Nat
      BY <1>0, FolIs DEF OpenInv, ShapeInv
  <2> QED
      BY <2>1, <1>12, <1>13, OpenKept
<1>20. StopInv'
  <2> SUFFICES ASSUME NEW q \in Paths PROVE StopFits(dir[q], file', Dealt, dev)
      BY <1>1 DEF StopInv
  <2>1. CASE Present(q)
    <3>1. dir[q] \in Registration /\ Carries(dir[q], dir[q]) /\ StopFits(dir[q], file, Dealt, dev)
        BY <2>1, <1>0, DirIs, CarriesSelf DEF StopInv
    <3> QED
        BY <3>1, <1>12, StopKept
  <2>2. CASE ~Present(q)
      BY <2>2 DEF StopFits, Clean, Present
  <2> QED
      BY <2>1, <2>2
<1>21. HookInv'
  <2> SUFFICES ASSUME NEW s \in Sessions PROVE HookFits(hook[s], s, dir', file', Dealt)
      BY <1>1 DEF HookInv
  <2>1. HookFits(hook[s], s, dir, file, Dealt) /\ HookShape(hook[s]) /\ hook[s].at \in Nat
      BY <1>0, HookIs DEF HookInv, ShapeInv
  <2> QED
      BY <2>1, <1>12, <1>13, HookKept
<1>22. OffsetInv'
  <2>1. (Owned' <=> Owned) /\ Consumed' = Consumed /\ Inbox' = file'[dir[con.path].ino]
      BY <1>1 DEF Owned, Managed, Present, Consumed, Inbox
  <2>2. \A a \in Consumed' : a.m = 0 \/ a.m \in Sent'
      BY <2>1, <1>0 DEF OffsetInv
  <2>3. ASSUME Owned, ~dir[con.path].again
        PROVE  /\ \A a \in Consumed, i \in 1 .. Len(Inbox') :
                    Ends(Inbox'[i]) /\ Message(Inbox'[i]) <= a.m => <<con.sid, Message(Inbox'[i])>> \in taken
               /\ writer' = con.path => \A a \in Consumed : a.m < Whose(Inbox'[Len(Inbox')])
               /\ con.dev = dev /\ dir[con.path].ino = con.ino => Passed(Inbox', con.sid, taken, con.at)
    <3>1. /\ con.path \in Paths /\ Present(con.path) /\ dir[con.path].ino \in Files
          /\ Lines(Inbox) /\ Len(Inbox) \in Nat /\ con.at \in Nat /\ Consumed \subseteq AttemptRecord
        BY <1>0, <2>3, InboxIs, ConIs
    <3>2. Lines(Inbox') /\ Grown(Inbox, Inbox')
        BY <3>1, <2>1, <1>12 DEF FilesGrow, Inbox
    <3>3. /\ \A a \in Consumed, i \in 1 .. Len(Inbox) :
                Ends(Inbox[i]) /\ Message(Inbox[i]) <= a.m => <<con.sid, Message(Inbox[i])>> \in taken
          /\ writer = con.path => \A a \in Consumed : a.m < Whose(Inbox[Len(Inbox)])
          /\ con.dev = dev /\ dir[con.path].ino = con.ino => Passed(Inbox, con.sid, taken, con.at)
        BY <1>0, <2>3 DEF OffsetInv
    <3>4. con.path # p => Inbox' = Inbox
        BY <3>1, <2>1, <1>3, <1>9 DEF Inbox
    <3>5. con.path = p => Inbox' = l2 /\ Inbox = l
        BY <3>1, <2>1, <1>3 DEF Inbox
    <3>6. ASSUME NEW a \in Consumed, NEW i \in 1 .. Len(Inbox'), Ends(Inbox'[i]), Message(Inbox'[i]) <= a.m
          PROVE  <<con.sid, Message(Inbox'[i])>> \in taken
      <4>1. CASE i > Len(Inbox)
        <5>1. con.path = p /\ a.m < Whose(Inbox'[i])
          <6>1. con.path = p
              BY <4>1, <3>4, <3>1, <3>6
          <6> QED
              BY <6>1, <4>1, <3>5, <2>3, <3>6
        <5>2. Inbox'[i] \in Nat
            BY <3>2, <3>6, LinesFacts
        <5>3. Whose(Inbox'[i]) = Message(Inbox'[i]) /\ Message(Inbox'[i]) \in Nat
            BY <5>2, <3>6, Halves
        <5>4. a.m \in Nat
            BY <3>1, AttemptIs
        <5> QED
            BY <5>1, <5>3, <5>4, <3>6
      <4>2. CASE i <= Len(Inbox)
        <5>1. i \in 1 .. Len(Inbox) /\ Inbox'[i] = Inbox[i]
            BY <4>2, <3>1, <3>2, <3>6 DEF Grown
        <5> QED
            BY <5>1, <3>3, <3>6
      <4>3. i \in Nat
          BY <3>2, <3>6, LinesFacts
      <4> QED
          BY <4>1, <4>2, <4>3, <3>1
    <3>7. ASSUME writer' = con.path, NEW a \in Consumed PROVE a.m < Whose(Inbox'[Len(Inbox')])
      <4>1. CASE con.path = p
        <5>1. Len(l2) > Len(l) /\ Len(l2) \in 1 .. Len(l2)
            BY <4>1, <3>7, <1>4
        <5> QED
            BY <5>1, <4>1, <3>5, <2>3
      <4>2. CASE con.path # p
          BY <4>2, <3>1, <3>3, <3>4, <3>7
      <4> QED
          BY <4>1, <4>2
    <3>8. con.dev = dev /\ dir[con.path].ino = con.ino => Passed(Inbox', con.sid, taken, con.at)
      <4> DEFINE u == Inbox
                 v == Inbox'
                 k == con.at
                 s == con.sid
      <4>1. Lines(u) /\ Lines(v) /\ Grown(u, v) /\ k \in Nat
          BY <3>1, <3>2
      <4>2. con.dev = dev /\ dir[con.path].ino = con.ino => Passed(u, s, taken, k)
          BY <3>3
      <4> HIDE DEF u, v, k, s
      <4>3. Passed(u, s, taken, k) => Passed(v, s, taken, k)
          BY <4>1, PassedGrows
      <4>4. con.dev = dev /\ dir[con.path].ino = con.ino => Passed(v, s, taken, k)
          BY <4>2, <4>3
      <4> QED
          BY <4>4 DEF v, s, k
    <3> QED
        BY <3>6, <3>7, <3>8
  <2>4. con' = con /\ dir' = dir /\ dev' = dev /\ taken' = taken
      BY <1>1
  <2> QED
      BY <2>1, <2>2, <2>3, <2>4 DEF OffsetInv
<1>23. OwnInv'
    BY <1>0, <1>1 DEF OwnInv, OwnMailOnly, SentStays
<1> QED
    BY <1>6, <1>7, <1>10, <1>15, <1>16, <1>17, <1>18, <1>19, <1>20, <1>21, <1>22, <1>23 DEF IInv


LEMMA GrownOn ==
    ASSUME NEW l, NEW l2, NEW l3, Len(l) \in Nat, Len(l2) \in Nat, Len(l3) \in Nat, Grown(l, l2), Grown(l2, l3)
    PROVE  Grown(l, l3)
BY DEF Grown

LEMMA SendStep ==
    ASSUME IInv, NEW p \in Paths, Send(p)
    PROVE  IInv'
<1>0. TypeInv /\ ShapeInv /\ DirInv /\ FileInv /\ OffsetInv
    BY DEF IInv
<1> DEFINE N == NextMail
           n == dir[p].ino
           l == file[n]
           h == Half(N)
           g == Full(N)
           s == dir[p].sid
<1>1. /\ Present(p) /\ LockFree(p) /\ N <= MaxMail /\ to' = [to EXCEPT ![N] = s]
      /\ UNCHANGED <<dir, fol, hook, con, dev, seen, Dealt, taken>>
    BY DealtStays DEF Send
<1>2. n \in Files /\ s \in Sessions
    BY <1>0, <1>1, DirIs, RegistrationIs
<1>3. N \in Nat \ {0} /\ N \notin Sent /\ Sent = 1 .. N - 1 /\ Sent \subseteq Messages
    BY <1>0, NextIsNew
<1>4. N \in Messages
    BY <1>1, <1>3, Constants DEF Messages
<1>5. to' \in [Messages -> Sessions \cup {NoOne}] /\ \A m \in Messages : to'[m] = IF m = N THEN s ELSE to[m]
    BY <1>0, <1>1, <1>2, <1>4 DEF TypeInv
<1>6. SentStays(to')
    BY <1>3, <1>5 DEF SentStays
<1>7. Sent' = Sent \cup {N}
    BY <1>2, <1>4, <1>5, Constants DEF Sent
<1>8. Sent \subseteq Sent' /\ N \in Sent' /\ \E k \in Nat : Sent' = 1 .. k
    BY <1>3, <1>7
<1>9. /\ h \in 1 .. 2 * MaxMail /\ g \in 1 .. 2 * MaxMail /\ g = h + 1 /\ h \in Nat /\ h = 2 * N - 1
      /\ ~Ends(h) /\ Whose(h) = N /\ Ends(g) /\ Whose(g) = N
  <2>1. N \in Nat \ {0} /\ N <= MaxMail /\ MaxMail \in Nat
      BY <1>1, <1>3, Constants
  <2> HIDE DEF N
  <2>2. ~Ends(h) /\ Whose(h) = N /\ Ends(g) /\ Whose(g) = N
      BY <2>1, HalvesOf
  <2>3. h = 2 * N - 1 /\ g = 2 * N
      BY DEF Half, Full
  <2> HIDE DEF h, g
  <2>4. h \in 1 .. 2 * MaxMail /\ g \in 1 .. 2 * MaxMail /\ g = h + 1 /\ h \in Nat
      BY <2>1, <2>3
  <2> QED
      BY <2>2, <2>3, <2>4
<1>10. Lines(l) /\ Len(l) \in Nat /\ l \in Seq(1 .. 2 * MaxMail) /\ \A i \in 1 .. Len(l) : l[i] \in Nat
    BY <1>0, <1>2, LinesFacts DEF FileInv
<1>11. \A i \in 1 .. Len(l) : l[i] < h
  <2> SUFFICES ASSUME NEW i \in 1 .. Len(l) PROVE l[i] < h
      OBVIOUS
  <2>1. Whose(l[i]) \in 1 .. N - 1 /\ l[i] \in Nat
      BY <1>0, <1>2, <1>3, <1>10 DEF FileInv
  <2>2. l[i] <= 2 * Whose(l[i]) /\ Whose(l[i]) \in Nat
      BY <2>1 DEF Whose
  <2> QED
      BY <2>1, <2>2, <1>3, <1>9
<1> DEFINE l1 == Append(l, h)
           l2 == Append(l1, g)
<1> HIDE DEF h, g, l
<1>12. Lines(l1) /\ Grown(l, l1) /\ Len(l1) = Len(l) + 1 /\ l1[Len(l) + 1] = h
    BY <1>9, <1>10, <1>11, LinesAppend
<1>a. l \o <<h>> = l1 /\ l \o <<h, g>> = l2
    BY <1>9, <1>10, Appends
<1> HIDE DEF l1
<1>13. \A i \in 1 .. Len(l1) : l1[i] < g
  <2> SUFFICES ASSUME NEW i \in 1 .. Len(l1) PROVE l1[i] < g
      OBVIOUS
  <2>1. CASE i = Len(l) + 1
      BY <2>1, <1>9, <1>12
  <2>2. CASE i # Len(l) + 1
    <3>1. i \in 1 .. Len(l)
        BY <2>2, <1>10, <1>12
    <3>2. l1[i] = l[i] /\ l[i] < h /\ l[i] \in Nat
        BY <3>1, <1>10, <1>11, <1>12 DEF Grown
    <3> QED
        BY <3>2, <1>9
  <2> QED
      BY <2>1, <2>2
<1>14. Len(l1) > 0 /\ l1[Len(l1)] = g - 1
    BY <1>9, <1>10, <1>12
<1>15. Lines(l2) /\ Grown(l1, l2) /\ Len(l2) = Len(l1) + 1 /\ l2[Len(l1) + 1] = g
    BY <1>9, <1>12, <1>13, <1>14, LinesAppend
<1> HIDE DEF l2
<1>16. Grown(l, l2)
    BY <1>10, <1>12, <1>15, GrownOn
<1>17. \A a \in Consumed : a.m < N
    BY <1>0, <1>3 DEF OffsetInv
<1>18. \A q \in Paths : writer = q => q # p
    BY <1>1 DEF LockFree
<1>19. writer \in Paths \cup {NoOne}
    BY <1>0 DEF TypeInv
<1>20. CASE file' = [file EXCEPT ![n] = l2] /\ UNCHANGED writer
  <2>1. \A i \in 1 .. Len(l2) : i > Len(l) => i = Len(l) + 1 \/ i = Len(l) + 2
      BY <1>10, <1>12, <1>15
  <2>2. l2[Len(l) + 1] = h /\ l2[Len(l) + 2] = g
      BY <1>10, <1>12, <1>15 DEF Grown
  <2>3. \A i \in 1 .. Len(l2) : i > Len(l) => Whose(l2[i]) = N
      BY <2>1, <2>2, <1>9
  <2>4. \A i \in 1 .. Len(l2) : i > Len(l) =>
            /\ Whose(l2[i]) \in Sent' /\ to'[Whose(l2[i])] = s
            /\ p = con.path /\ Owned /\ ~dir[p].again => \A a \in Consumed : a.m < Whose(l2[i])
      BY <2>3, <1>4, <1>5, <1>8, <1>17
  <2>5. writer' \in Paths \cup {NoOne} /\ \A q \in Paths : writer' = q => q = p \/ writer = q
      BY <1>19, <1>20
  <2>6. writer' # p
      BY <1>18, <1>20
  <2> HIDE DEF N, s
  <2> QED
      BY <2>4, <2>5, <2>6, <1>1, <1>5, <1>6, <1>8, <1>15, <1>16, <1>20, SentStep DEF l, s
<1>21. CASE file' = [file EXCEPT ![n] = l1] /\ writer' = p /\ writer = NoOne
  <2>1. \A i \in 1 .. Len(l1) : i > Len(l) => i = Len(l) + 1
      BY <1>10, <1>12
  <2>3. \A i \in 1 .. Len(l1) : i > Len(l) => Whose(l1[i]) = N
      BY <2>1, <1>9, <1>12
  <2>4. \A i \in 1 .. Len(l1) : i > Len(l) =>
            /\ Whose(l1[i]) \in Sent' /\ to'[Whose(l1[i])] = s
            /\ p = con.path /\ Owned /\ ~dir[p].again => \A a \in Consumed : a.m < Whose(l1[i])
      BY <2>3, <1>4, <1>5, <1>8, <1>17
  <2>5. writer' \in Paths \cup {NoOne} /\ \A q \in Paths : writer' = q => q = p \/ writer = q
      BY <1>21
  <2>6. Len(l1) > Len(l) /\ ~Ends(l1[Len(l1)])
      BY <1>9, <1>10, <1>12
  <2> HIDE DEF N, s
  <2> QED
      BY <2>4, <2>5, <2>6, <1>1, <1>5, <1>6, <1>8, <1>12, <1>21, SentStep DEF l, s
<1>22. \/ file' = [file EXCEPT ![n] = l2] /\ UNCHANGED writer
       \/ file' = [file EXCEPT ![n] = l1] /\ writer' = p /\ writer = NoOne
    BY <1>a DEF Send, Write, l, h, g
<1> QED
    BY <1>20, <1>21, <1>22

LEMMA SendEndsStep ==
    ASSUME IInv, NEW p \in Paths, SendEnds(p)
    PROVE  IInv'
<1>0. TypeInv /\ ShapeInv /\ DirInv /\ FileInv /\ OffsetInv
    BY DEF IInv
<1> DEFINE n == dir[p].ino
           l == file[n]
           x == l[Len(l)]
           h == x + 1
<1>1. /\ writer = p /\ writer' = NoOne
      /\ UNCHANGED <<dir, fol, hook, con, dev, to, seen, Dealt, taken>>
    BY DealtStays DEF SendEnds
<1>2. Present(p) /\ Len(l) > 0 /\ ~Ends(x)
    BY <1>0, <1>1 DEF DirInv
<1>3. n \in Files /\ dir[p].sid \in Sessions
    BY <1>0, <1>2, DirIs, RegistrationIs
<1>4. /\ Lines(l) /\ Len(l) \in Nat /\ l \in Seq(1 .. 2 * MaxMail)
      /\ \A i \in 1 .. Len(l) : l[i] \in Nat /\ l[i] \in 1 .. 2 * MaxMail
      /\ \A i, j \in 1 .. Len(l) : i < j => l[i] < l[j]
    BY <1>0, <1>3, LinesFacts DEF FileInv
<1>5. Len(l) \in 1 .. Len(l)
    BY <1>2, <1>4
<1>6. x \in Nat /\ x \in 1 .. 2 * MaxMail
    BY <1>4, <1>5
<1>7. Whose(x) \in Sent /\ to[Whose(x)] = dir[p].sid
    BY <1>0, <1>2, <1>3, <1>5 DEF FileInv, AllFor
<1>8. UNCHANGED to /\ Sent' = Sent /\ SentStays(to') /\ to' \in [Messages -> Sessions \cup {NoOne}]
    BY <1>0, <1>1 DEF Sent, SentStays, TypeInv
<1>9. Sent \subseteq Sent' /\ \E k \in Nat : Sent' = 1 .. k
    BY <1>0, <1>8 DEF FileInv
<1>10. \A q \in Paths : writer' # q
    BY <1>1, Constants
<1>11. writer' \in Paths \cup {NoOne}
    BY <1>1
<1>12. UNCHANGED <<dir, fol, hook, con, dev, seen, Dealt, taken>>
    BY <1>1
<1>13. CASE UNCHANGED file
  <2>1. file' = [file EXCEPT ![n] = l]
      BY <1>0, <1>3, <1>13 DEF TypeInv
  <2>2. Grown(l, l)
      BY <1>4 DEF Grown
  <2>a. \A i \in 1 .. Len(l) : ~(i > Len(l))
      BY <1>4
  <2>3. \A i \in 1 .. Len(l) : i > Len(l) =>
            /\ Whose(l[i]) \in Sent' /\ to'[Whose(l[i])] = dir[p].sid
            /\ p = con.path /\ Owned /\ ~dir[p].again => \A a \in Consumed : a.m < Whose(l[i])
      BY <2>a
  <2>4. /\ \A q \in Paths : writer' = q => q = p \/ writer = q
        /\ writer' = p => Len(l) > Len(l) /\ ~Ends(l[Len(l)])
      BY <1>10
  <2>5. /\ Present(p) /\ Lines(l) /\ to' \in [Messages -> Sessions \cup {NoOne}] /\ SentStays(to')
        /\ Sent \subseteq Sent' /\ \E k \in Nat : Sent' = 1 .. k
        /\ writer' \in Paths \cup {NoOne} /\ UNCHANGED <<dir, fol, hook, con, dev, seen, Dealt, taken>>
      BY <1>2, <1>4, <1>8, <1>9, <1>11, <1>12
  <2> HIDE DEF x
  <2> QED
      BY <2>1, <2>2, <2>3, <2>4, <2>5, SentStep
<1>14. CASE file' = [file EXCEPT ![n] = l \o <<h>>]
  <2>1. h \in 1 .. 2 * MaxMail /\ Ends(h) /\ Whose(h) = Whose(x)
    <3>1. x = 2 * Whose(x) - 1 /\ Whose(x) \in Nat /\ Ends(x + 1)
        BY <1>2, <1>6, Halves
    <3>2. Whose(x + 1) = Whose(x)
        BY <1>2, <1>6, Halves
    <3> HIDE DEF x
    <3>3. x + 1 \in 1 .. 2 * MaxMail
        BY <3>1, <1>6, Constants
    <3> QED
        BY <3>1, <3>2, <3>3
  <2>2. \A i \in 1 .. Len(l) : l[i] < h
    <3> SUFFICES ASSUME NEW i \in 1 .. Len(l) PROVE l[i] < h
        OBVIOUS
    <3>1. CASE i = Len(l)
        BY <3>1, <1>6
    <3>2. CASE i # Len(l)
      <4>1. i < Len(l) /\ l[i] < x /\ l[i] \in Nat
          BY <3>2, <1>4, <1>5
      <4> HIDE DEF x, l
      <4> QED
          BY <4>1, <1>6
    <3> QED
        BY <3>1, <3>2
  <2>3. x = h - 1
    <3> HIDE DEF x
    <3> QED
        BY <1>6
  <2>d. Len(l) > 0 /\ l[Len(l)] = h - 1
      BY <2>3, <1>2
  <2> HIDE DEF h, x
  <2> DEFINE l2 == Append(l, h)
  <2>a. l \o <<h>> = l2
      BY <2>1, <1>4, Appends
  <2>b. /\ Lines(l2) /\ Grown(l, l2) /\ Len(l2) = Len(l) + 1 /\ l2[Len(l) + 1] = h
    <3> HIDE DEF l
    <3> QED
        BY <2>1, <2>2, <2>d, <1>4, LinesAppend
  <2>c. file' = [file EXCEPT ![n] = l2]
      BY <2>a, <1>14
  <2> HIDE DEF l2
  <2>4. \A i \in 1 .. Len(l2) : i > Len(l) => i = Len(l) + 1
      BY <2>b, <1>4
  <2>5. p = con.path /\ Owned /\ ~dir[p].again => \A a \in Consumed : a.m < Whose(x)
      BY <1>0, <1>1 DEF OffsetInv, Inbox, x
  <2>6. \A i \in 1 .. Len(l2) : i > Len(l) =>
            /\ Whose(l2[i]) \in Sent' /\ to'[Whose(l2[i])] = dir[p].sid
            /\ p = con.path /\ Owned /\ ~dir[p].again => \A a \in Consumed : a.m < Whose(l2[i])
      BY <2>1, <2>4, <2>5, <2>b, <1>7, <1>8
  <2> QED
      BY <2>6, <2>b, <2>c, <1>2, <1>8, <1>9, <1>10, <1>11, <1>12, SentStep
<1> QED
    BY <1>13, <1>14 DEF SendEnds, Write


(* --------------------------- registrations come, go and move, files too - *)

\* What the readers that looked, and did not open yet, are told of the aliases
\* of S.
FollowersTold(S) ==
    /\ fol' \in [Followers -> FollowerRecord]
    /\ \A f \in Followers :
          /\ fol'[f].pc = fol[f].pc /\ fol'[f].path = fol[f].path /\ fol'[f].sid = fol[f].sid
          /\ fol'[f].ino = fol[f].ino /\ fol'[f].at = fol[f].at /\ fol'[f].pend = fol[f].pend
          /\ fol'[f].sure = fol[f].sure /\ fol'[f].late = fol[f].late
          /\ fol[f].pc = "armed" /\ fol[f].at > 0 /\ ~fol'[f].moved => ~fol[f].moved /\ fol[f].path \notin S
HooksTold(S) ==
    /\ hook' \in [Sessions -> HookRecord]
    /\ \A s \in Sessions :
          /\ hook'[s].pc = hook[s].pc /\ hook'[s].path = hook[s].path /\ hook'[s].dev = hook[s].dev
          /\ hook'[s].ino = hook[s].ino /\ hook'[s].at = hook[s].at
          /\ hook'[s].lines = hook[s].lines
          /\ hook[s].pc = "look" /\ hook'[s].own => hook[s].own /\ hook[s].path \notin S

\* A registration with a file of N, and one that was at an alias of S.
NewHere(e, N) ==
    /\ e \in Registration /\ e.ino \in N /\ e.cursor.dev <= dev /\ e.stop.dev <= dev
    /\ ~e.again => e.cursor.ino # e.ino /\ e.stop.ino # e.ino
CameFrom(p, e, N) ==
    /\ Present(p) /\ dir[p].ino \notin N
    /\ Carries(dir[p], e) /\ e.cursor = dir[p].cursor /\ e.stop = dir[p].stop

\* The registrations at the aliases of S change and the files of N are new.
Reshapes(S, N) ==
    /\ dir' \in [Paths -> Registration \cup {Vacant}]
    /\ \A q \in Paths :
          IF q \in S THEN dir'[q] = Vacant \/ NewHere(dir'[q], N) \/ \E p \in Paths : CameFrom(p, dir'[q], N)
          ELSE dir'[q] = dir[q] /\ (Present(q) => dir[q].ino \notin N)
    /\ \A p, q \in Paths : dir'[p] # Vacant /\ dir'[q] # Vacant /\ dir'[p].ino = dir'[q].ino => p = q
    /\ file' \in [Files -> Seq(1 .. 2 * MaxMail)]
    /\ \A n \in Files : file'[n] = IF n \in N THEN <<>> ELSE file[n]
    /\ \A f \in Followers : fol[f].ino \notin N
    /\ FollowersTold(S) /\ HooksTold(S)
    /\ UNCHANGED <<writer, dev, to, seen, Dealt, taken>> /\ writer \notin S

LEMMA NothingWritten == Lines(<<>>) /\ Len(<<>>) = 0
BY DEF Lines

LEMMA ReplacedTells ==
    ASSUME TypeInv, NEW S, Replaced(S)
    PROVE  FollowersTold(S) /\ HooksTold(S)
<1>1. ASSUME NEW f \in Followers
      PROVE  /\ fol'[f] \in FollowerRecord
             /\ fol'[f].pc = fol[f].pc /\ fol'[f].path = fol[f].path /\ fol'[f].sid = fol[f].sid
             /\ fol'[f].ino = fol[f].ino /\ fol'[f].at = fol[f].at /\ fol'[f].pend = fol[f].pend
             /\ fol'[f].sure = fol[f].sure /\ fol'[f].late = fol[f].late
             /\ fol[f].pc = "armed" /\ fol[f].at > 0 /\ ~fol'[f].moved => ~fol[f].moved /\ fol[f].path \notin S
  <2>1. fol[f] \in FollowerRecord
      BY FolIs
  <2>2. PICK b \in BOOLEAN : b = (fol[f].moved \/ (fol[f].pc = "armed" /\ fol[f].at > 0 /\ fol[f].path \in S))
      OBVIOUS
  <2>3. fol'[f] = [fol[f] EXCEPT !.moved = b]
      BY <2>2 DEF Replaced
  <2>4. b \in BOOLEAN /\ (~b => ~fol[f].moved /\ ~(fol[f].pc = "armed" /\ fol[f].at > 0 /\ fol[f].path \in S))
      BY <2>2
  <2> DEFINE r == [fol[f] EXCEPT !.moved = b]
  <2>5. /\ r \in FollowerRecord
        /\ r.pc = fol[f].pc /\ r.path = fol[f].path /\ r.sid = fol[f].sid
        /\ r.ino = fol[f].ino /\ r.at = fol[f].at /\ r.pend = fol[f].pend
        /\ r.sure = fol[f].sure /\ r.late = fol[f].late /\ r.moved = b
      BY <2>1, <2>4 DEF FollowerRecord
  <2>6. fol'[f] = r
      BY <2>3
  <2> HIDE DEF r
  <2> QED
      BY <2>4, <2>5, <2>6
<1>2. ASSUME NEW s \in Sessions
      PROVE  /\ hook'[s] \in HookRecord
             /\ hook'[s].pc = hook[s].pc /\ hook'[s].path = hook[s].path /\ hook'[s].dev = hook[s].dev
             /\ hook'[s].ino = hook[s].ino /\ hook'[s].at = hook[s].at
             /\ hook'[s].lines = hook[s].lines
             /\ hook[s].pc = "look" /\ hook'[s].own => hook[s].own /\ hook[s].path \notin S
  <2>1. hook[s] \in HookRecord
      BY HookIs
  <2>2. PICK b \in BOOLEAN : b = (hook[s].own /\ hook[s].path \notin S)
      OBVIOUS
  <2>3. hook'[s] = [hook[s] EXCEPT !.own = b]
      BY <2>2 DEF Replaced
  <2>4. b \in BOOLEAN /\ (b => hook[s].own /\ hook[s].path \notin S)
      BY <2>2
  <2> DEFINE h == [hook[s] EXCEPT !.own = b]
  <2>5. /\ h \in HookRecord
        /\ h.pc = hook[s].pc /\ h.path = hook[s].path /\ h.dev = hook[s].dev
        /\ h.ino = hook[s].ino /\ h.at = hook[s].at /\ h.own = b /\ h.lines = hook[s].lines
      BY <2>1, <2>4 DEF HookRecord
  <2>6. hook'[s] = h
      BY <2>3
  <2> HIDE DEF h
  <2> QED
      BY <2>4, <2>5, <2>6
<1>3. fol' \in [Followers -> FollowerRecord] /\ hook' \in [Sessions -> HookRecord]
    BY <1>1, <1>2 DEF Replaced
<1> QED
    BY <1>1, <1>2, <1>3 DEF FollowersTold, HooksTold

LEMMA ToldDealt ==
    ASSUME NEW S, HooksTold(S), UNCHANGED <<handed, cut>>
    PROVE  Dealt' = Dealt
<1>1. \A s \in Sessions : hook'[s].lines = hook[s].lines
    BY DEF HooksTold
<1>2. Held' = Held
    BY <1>1 DEF Held
<1> QED
    BY <1>2 DEF Dealt

\* Where a registration comes from.
LEMMA ComesFrom ==
    ASSUME TypeInv, NEW S, NEW N, Reshapes(S, N), NEW q \in Paths, dir'[q] # Vacant
    PROVE  NewHere(dir'[q], N) \/ \E p \in Paths : CameFrom(p, dir'[q], N)
<1>1. CASE q \in S
    BY <1>1 DEF Reshapes
<1>2. CASE q \notin S
  <2>1. dir'[q] = dir[q] /\ (Present(q) => dir[q].ino \notin N)
      BY <1>2 DEF Reshapes
  <2>2. Present(q) /\ dir[q] \in Registration
      BY <2>1, DirIs DEF Present
  <2>3. CameFrom(q, dir'[q], N)
      BY <2>1, <2>2, CarriesSelf DEF CameFrom
  <2> QED
      BY <2>3
<1> QED
    BY <1>1, <1>2

\* What a position says is the same in another directory, over the same lines.
LEMMA CameFits ==
    ASSUME TypeInv, FileInv, CursorInv, OpenInv, StopInv, NEW N, NEW p \in Paths, NEW e, CameFrom(p, e, N),
           NEW l2, \A n \in Files : n \notin N => l2[n] = file[n]
    PROVE  /\ CursorFits(e, l2, seen, dev) /\ StopFits(e, l2, Dealt, dev)
           /\ \A f \in Followers : fol[f].pc \in Running /\ ~fol[f].late /\ Clean(e) /\ e.ino = fol[f].ino
                  /\ FollowerShape(fol[f]) => Settled(l2[e.ino], e, seen, fol[f].at - fol[f].pend)
<1>1. /\ Present(p) /\ dir[p] \in Registration /\ Carries(dir[p], e)
      /\ e.cursor = dir[p].cursor /\ e.stop = dir[p].stop /\ dir[p].ino \notin N
    BY DirIs DEF CameFrom
<1>2. FilesGrow(file, file)
    BY GrowSelf DEF FileInv
<1>3. e.ino = dir[p].ino /\ e.ino \in Files /\ l2[e.ino] = file[e.ino] /\ (Clean(e) => Clean(dir[p]))
    BY <1>1, CleanBefore
<1>4. CursorFits(e, file, seen, dev)
    BY <1>1, <1>2, CursorKept DEF CursorInv
<1>5. StopFits(e, file, Dealt, dev)
    BY <1>1, <1>2, StopKept DEF StopInv
<1>6. ASSUME NEW f \in Followers, fol[f].pc \in Running, ~fol[f].late, Clean(e), e.ino = fol[f].ino,
             FollowerShape(fol[f])
      PROVE  Settled(file[e.ino], e, seen, fol[f].at - fol[f].pend)
  <2> DEFINE k == fol[f].at - fol[f].pend
  <2>1. Settled(file[dir[p].ino], dir[p], seen, k)
      BY <1>3, <1>6 DEF OpenInv, OpenFits
  <2>2. k \in Nat
      BY <1>6, FolIs DEF FollowerShape
  <2> HIDE DEF k
  <2>3. Settled(file[e.ino], e, seen, k)
      BY <2>1, <2>2, <1>1, <1>2, SettledCarried
  <2> QED
      BY <2>3 DEF k
<1> QED
    BY <1>3, <1>4, <1>5, <1>6 DEF CursorFits, StopFits

LEMMA Reshape ==
    ASSUME IInv, NEW S, NEW N, Reshapes(S, N), con' \in ConRecord, con'.dev <= dev,
           con'.pc = "off" => con' = NoCon, con'.pc # "off" => con'.path \in Paths,
           \A q \in Paths : dir'[q] # Vacant /\ dir'[q].conn =>
               con'.pc # "off" /\ con'.path = q /\ dir'[q].sid = con'.sid,
           OffsetInv'
    PROVE  IInv'
<1>0. /\ TypeInv /\ ShapeInv /\ DirInv /\ FileInv /\ ReaderInv
      /\ CursorInv /\ ArmedInv /\ OpenInv /\ StopInv /\ HookInv /\ OffsetInv /\ OwnInv
    BY DEF IInv
<1>1. UNCHANGED <<writer, dev, to, seen, Dealt, taken>> /\ writer \notin S
    BY DEF Reshapes
<1>2. /\ dir' \in [Paths -> Registration \cup {Vacant}] /\ file' \in [Files -> Seq(1 .. 2 * MaxMail)]
      /\ \A n \in Files : file'[n] = IF n \in N THEN <<>> ELSE file[n]
      /\ \A f \in Followers : fol[f].ino \notin N
    BY DEF Reshapes
<1>3. \A q \in Paths : q \notin S => dir'[q] = dir[q] /\ (Present(q) => dir[q].ino \notin N)
    BY DEF Reshapes
<1>4. \A q \in Paths : dir'[q] # Vacant => NewHere(dir'[q], N) \/ \E p \in Paths : CameFrom(p, dir'[q], N)
    BY <1>0, ComesFrom
<1>5. \A q \in Paths : Present(q) => dir[q].ino \in Files
    BY <1>0, DirIs, RegistrationIs
<1>a. FollowersTold(S) /\ HooksTold(S)
    BY DEF Reshapes
<1>6. TypeInv'
    BY <1>0, <1>1, <1>2, <1>a DEF TypeInv, FollowersTold, HooksTold
<1>7. ShapeInv'
  <2>1. \A f \in Followers : FollowerShape(fol'[f])
      BY <1>0, <1>a DEF ShapeInv, FollowerShape, FollowersTold
  <2>2. \A s \in Sessions : HookShape(hook'[s])
      BY <1>0, <1>a DEF ShapeInv, HookShape, HooksTold
  <2>3. \A s \in Sessions : HookShape(hook[s])'
      BY <2>2, <1>1 DEF HookShape
  <2> QED
      BY <2>1, <2>3 DEF ShapeInv
<1>8. \A q \in Paths : dir'[q] # Vacant => dir'[q].cursor.dev <= dev /\ dir'[q].stop.dev <= dev
  <2> SUFFICES ASSUME NEW q \in Paths, dir'[q] # Vacant
               PROVE  dir'[q].cursor.dev <= dev /\ dir'[q].stop.dev <= dev
      OBVIOUS
  <2>1. CASE NewHere(dir'[q], N)
      BY <2>1 DEF NewHere
  <2>2. CASE \E p \in Paths : CameFrom(p, dir'[q], N)
      BY <2>2, <1>0 DEF CameFrom, DirInv
  <2> QED
      BY <2>1, <2>2, <1>4
<1>9. DirInv'
  <2>1. \A q \in Paths : Present(q)' <=> dir'[q] # Vacant
      BY DEF Present
  <2>2. \A q \in Paths : Managed(q)' <=> dir'[q] # Vacant /\ dir'[q].conn
      BY DEF Managed, Present
  <2>3. \A p, q \in Paths : Present(p)' /\ Present(q)' /\ dir'[p].ino = dir'[q].ino => p = q
      BY <2>1 DEF Reshapes
  <2>4. \A q \in Paths : writer' = q =>
            /\ Present(q)' /\ Len(file'[dir'[q].ino]) > 0
            /\ ~Ends(file'[dir'[q].ino][Len(file'[dir'[q].ino])])
    <3> SUFFICES ASSUME NEW q \in Paths, writer = q
                 PROVE  /\ dir'[q] # Vacant /\ Len(file'[dir'[q].ino]) > 0
                        /\ ~Ends(file'[dir'[q].ino][Len(file'[dir'[q].ino])])
        BY <1>1, <2>1
    <3>1. dir'[q] = dir[q] /\ (Present(q) => dir[q].ino \notin N)
        BY <1>1, <1>3
    <3>2. /\ Present(q) /\ Len(file[dir[q].ino]) > 0
          /\ ~Ends(file[dir[q].ino][Len(file[dir[q].ino])])
        BY <1>0 DEF DirInv
    <3>3. file'[dir[q].ino] = file[dir[q].ino]
        BY <3>1, <3>2, <1>2, <1>5
    <3> QED
        BY <3>1, <3>2, <3>3 DEF Present
  <2> QED
      BY <2>1, <2>2, <2>3, <2>4, <1>1, <1>8 DEF DirInv
<1>10. \A p \in Paths : \A e : CameFrom(p, e, N) =>
           /\ e.ino \notin N /\ e.ino \in Files /\ Present(p) /\ e.sid = dir[p].sid /\ e.ino = dir[p].ino
           /\ file'[e.ino] = file[e.ino]
    BY <1>2, <1>5 DEF CameFrom, Carries
<1>11. FileInv'
  <2>1. Sent' = Sent
      BY <1>1 DEF Sent
  <2>2. ASSUME NEW n \in Files PROVE Lines(file'[n]) /\ \A i \in 1 .. Len(file'[n]) : Whose(file'[n][i]) \in Sent
    <3>1. CASE n \in N
        BY <3>1, <1>2, NothingWritten
    <3>2. CASE n \notin N
        BY <3>2, <1>0, <1>2 DEF FileInv
    <3> QED
        BY <3>1, <3>2
  <2>3. ASSUME NEW q \in Paths, dir'[q] # Vacant PROVE AllFor(file'[dir'[q].ino], to, dir'[q].sid)
    <3>1. CASE NewHere(dir'[q], N)
      <4>1. dir'[q].ino \in N /\ dir'[q].ino \in Files
          BY <3>1, RegistrationIs DEF NewHere
      <4> QED
          BY <4>1, <1>2, NothingWritten DEF AllFor
    <3>2. CASE \E p \in Paths : CameFrom(p, dir'[q], N)
      <4>1. PICK p \in Paths : CameFrom(p, dir'[q], N)
          BY <3>2
      <4>2. /\ Present(p) /\ dir'[q].sid = dir[p].sid /\ dir'[q].ino = dir[p].ino
            /\ file'[dir'[q].ino] = file[dir[p].ino]
          BY <4>1, <1>10
      <4>3. AllFor(file[dir[p].ino], to, dir[p].sid)
          BY <4>2, <1>0 DEF FileInv
      <4> QED
          BY <4>2, <4>3
    <3> QED
        BY <3>1, <3>2, <2>3, <1>4
  <2> QED
      BY <2>1, <2>2, <2>3, <1>0, <1>1 DEF FileInv, Present
<1>12. ReaderInv'
  <2> SUFFICES ASSUME NEW f \in Followers PROVE Reads(fol'[f], dir', file', to)
      BY <1>1 DEF ReaderInv
  <2>1. /\ Reads(fol[f], dir, file, to) /\ FollowerShape(fol[f])
        /\ fol'[f].pc = fol[f].pc /\ fol'[f].sid = fol[f].sid
        /\ fol'[f].ino = fol[f].ino /\ fol'[f].at = fol[f].at /\ fol'[f].pend = fol[f].pend
        /\ fol'[f].late = fol[f].late
      BY <1>0, <1>a DEF ReaderInv, ShapeInv, FollowersTold
  <2>2. fol[f].pc \in Running => file'[fol[f].ino] = file[fol[f].ino]
      BY <2>1, <1>2 DEF FollowerShape
  <2>3. ASSUME fol[f].pc \in Running, ~fol[f].late, NEW q \in Paths, dir'[q] # Vacant, dir'[q].ino = fol[f].ino
        PROVE  dir'[q].sid = fol[f].sid
    <3>1. ~NewHere(dir'[q], N)
        BY <2>3, <1>2 DEF NewHere
    <3>2. PICK p \in Paths : CameFrom(p, dir'[q], N)
        BY <3>1, <2>3, <1>4
    <3>3. Present(p) /\ dir'[q].sid = dir[p].sid /\ dir'[q].ino = dir[p].ino
        BY <3>2, <1>10
    <3> QED
        BY <3>3, <2>1, <2>3 DEF Reads, Present
  <2> QED
      BY <2>1, <2>2, <2>3 DEF Reads
<1>13. \A n \in Files : n \notin N => file'[n] = file[n]
    BY <1>2
<1>14. ASSUME NEW q \in Paths
       PROVE  /\ CursorFits(dir'[q], file', seen, dev) /\ StopFits(dir'[q], file', Dealt, dev)
              /\ \A f \in Followers : fol[f].pc \in Running /\ ~fol[f].late /\ Clean(dir'[q])
                    /\ dir'[q].ino = fol[f].ino => Settled(file'[dir'[q].ino], dir'[q], seen, fol[f].at - fol[f].pend)
  <2> DEFINE e == dir'[q]
             l2 == file'
  <2>1. CASE e = Vacant
      BY <2>1 DEF CursorFits, StopFits, Clean
  <2>2. CASE e # Vacant /\ NewHere(e, N)
    <3>1. Clean(e) => e.cursor.ino # e.ino /\ e.stop.ino # e.ino
        BY <2>2 DEF NewHere, Clean
    <3>2. \A f \in Followers : e.ino # fol[f].ino
        BY <2>2, <1>2 DEF NewHere
    <3> HIDE DEF e, l2
    <3>3. CursorFits(e, l2, seen, dev) /\ StopFits(e, l2, Dealt, dev)
        BY <3>1 DEF CursorFits, StopFits
    <3> QED
        BY <3>2, <3>3 DEF e, l2
  <2>3. CASE \E p \in Paths : CameFrom(p, e, N)
    <3>1. PICK p \in Paths : CameFrom(p, e, N)
        BY <2>3
    <3>2. \A n \in Files : n \notin N => l2[n] = file[n]
        BY <1>13
    <3>3. \A f \in Followers : FollowerShape(fol[f])
        BY <1>0 DEF ShapeInv
    <3> HIDE DEF e, l2
    <3>4. /\ CursorFits(e, l2, seen, dev) /\ StopFits(e, l2, Dealt, dev)
          /\ \A f \in Followers : fol[f].pc \in Running /\ ~fol[f].late /\ Clean(e) /\ e.ino = fol[f].ino
                 /\ FollowerShape(fol[f]) => Settled(l2[e.ino], e, seen, fol[f].at - fol[f].pend)
        BY <3>1, <3>2, <1>0, CameFits
    <3> QED
        BY <3>3, <3>4 DEF e, l2
  <2> QED
      BY <2>1, <2>2, <2>3, <1>4
<1>15. CursorInv' /\ StopInv'
    BY <1>1, <1>14 DEF CursorInv, StopInv
<1>16. ArmedInv'
  <2> SUFFICES ASSUME NEW f \in Followers PROVE ArmedFits(fol'[f], dir', file', seen)
      BY <1>1 DEF ArmedInv
  <2>1. /\ ArmedFits(fol[f], dir, file, seen) /\ FollowerShape(fol[f])
        /\ fol'[f].pc = fol[f].pc /\ fol'[f].path = fol[f].path /\ fol'[f].sid = fol[f].sid /\ fol'[f].at = fol[f].at
        /\ fol[f].pc = "armed" /\ fol[f].at > 0 /\ ~fol'[f].moved => ~fol[f].moved /\ fol[f].path \notin S
      BY <1>0, <1>a DEF ArmedInv, ShapeInv, FollowersTold
  <2> SUFFICES ASSUME fol[f].pc = "armed", fol[f].at > 0, ~fol'[f].moved
               PROVE  /\ dir'[fol[f].path] # Vacant /\ dir'[fol[f].path].sid = fol[f].sid
                      /\ Clean(dir'[fol[f].path]) =>
                            Settled(file'[dir'[fol[f].path].ino], dir'[fol[f].path], seen, fol[f].at)
      BY <2>1 DEF ArmedFits
  <2>2. fol[f].path \in Paths /\ fol[f].path \notin S /\ ~fol[f].moved
      BY <2>1 DEF FollowerShape, Waiting
  <2>3. /\ dir[fol[f].path] # Vacant /\ dir[fol[f].path].sid = fol[f].sid
        /\ Clean(dir[fol[f].path]) => Settled(file[dir[fol[f].path].ino], dir[fol[f].path], seen, fol[f].at)
      BY <2>1, <2>2 DEF ArmedFits
  <2>4. dir'[fol[f].path] = dir[fol[f].path] /\ file'[dir[fol[f].path].ino] = file[dir[fol[f].path].ino]
      BY <2>2, <2>3, <1>3, <1>5, <1>13 DEF Present
  <2> QED
      BY <2>3, <2>4
<1>17. OpenInv'
  <2>1. \A f \in Followers : /\ fol'[f].pc = fol[f].pc /\ fol'[f].ino = fol[f].ino /\ fol'[f].at = fol[f].at
                             /\ fol'[f].pend = fol[f].pend /\ fol'[f].late = fol[f].late
      BY <1>a DEF FollowersTold
  <2> QED
      BY <2>1, <1>1, <1>14 DEF OpenInv, OpenFits
<1>18. HookInv'
  <2> SUFFICES ASSUME NEW s \in Sessions PROVE HookFits(hook'[s], s, dir', file', Dealt)
      BY <1>1 DEF HookInv
  <2>1. /\ HookFits(hook[s], s, dir, file, Dealt) /\ HookShape(hook[s])
        /\ hook'[s].pc = hook[s].pc /\ hook'[s].path = hook[s].path /\ hook'[s].ino = hook[s].ino
        /\ hook'[s].at = hook[s].at
        /\ hook[s].pc = "look" /\ hook'[s].own => hook[s].own /\ hook[s].path \notin S
      BY <1>0, <1>a DEF HookInv, ShapeInv, HooksTold
  <2> SUFFICES ASSUME hook[s].pc = "look", hook'[s].own
               PROVE  /\ dir'[hook[s].path] # Vacant /\ dir'[hook[s].path].sid = s
                      /\ dir'[hook[s].path].ino = hook[s].ino
                      /\ Clean(dir'[hook[s].path]) => Passed(file'[hook[s].ino], s, Dealt, hook[s].at)
      BY <2>1 DEF HookFits
  <2>2. hook[s].path \in Paths /\ hook[s].path \notin S /\ hook[s].own
      BY <2>1 DEF HookShape
  <2>3. /\ dir[hook[s].path] # Vacant /\ dir[hook[s].path].sid = s /\ dir[hook[s].path].ino = hook[s].ino
        /\ Clean(dir[hook[s].path]) => Passed(file[hook[s].ino], s, Dealt, hook[s].at)
      BY <2>1, <2>2 DEF HookFits
  <2>4. dir'[hook[s].path] = dir[hook[s].path] /\ file'[hook[s].ino] = file[hook[s].ino]
      BY <2>2, <2>3, <1>3, <1>5, <1>13 DEF Present
  <2> QED
      BY <2>3, <2>4
<1>19. OwnInv'
    BY <1>0, <1>1 DEF OwnInv, OwnMailOnly, Sent
<1> QED
    BY <1>6, <1>7, <1>9, <1>11, <1>12, <1>15, <1>16, <1>17, <1>18, <1>19 DEF IInv


LEMMA SpareIs ==
    ASSUME NEW d, NEW n \in Spare(d)
    PROVE  n \in Files /\ (\A q \in Paths : d[q].ino # n) /\ \A f \in Followers : fol[f].ino # n
BY DEF Spare

\* A command of the store: the connection's registration is left alone, or goes.
LEMMA StoreStep ==
    ASSUME IInv, NEW S, NEW N, Reshapes(S, N), con' = con,
           \A q \in Paths : q \in S => dir'[q] = Vacant \/ ~dir'[q].conn
    PROVE  IInv'
<1>0. TypeInv /\ ShapeInv /\ DirInv /\ FileInv /\ OffsetInv
    BY DEF IInv
<1>1. UNCHANGED <<writer, dev, to, seen, Dealt, taken, con>>
    BY DEF Reshapes
<1>2. /\ \A q \in Paths : q \notin S => dir'[q] = dir[q] /\ (Present(q) => dir[q].ino \notin N)
      /\ \A n \in Files : file'[n] = IF n \in N THEN <<>> ELSE file[n]
    BY DEF Reshapes
<1>3. con \in ConRecord /\ con.dev <= dev /\ (con.pc = "off" => con = NoCon) /\ (con.pc # "off" => con.path \in Paths)
    BY <1>0, ConIs DEF DirInv, ShapeInv
<1>4. ASSUME NEW q \in Paths, dir'[q] # Vacant, dir'[q].conn
      PROVE  q \notin S /\ dir'[q] = dir[q] /\ Managed(q)
    BY <1>2, <1>4 DEF Managed, Present
<1>5. \A q \in Paths : dir'[q] # Vacant /\ dir'[q].conn => con.pc # "off" /\ con.path = q /\ dir'[q].sid = con.sid
    BY <1>0, <1>4 DEF DirInv
<1>6. ASSUME Owned'
      PROVE  Owned /\ con.path \in Paths /\ dir'[con.path] = dir[con.path] /\ Inbox' = Inbox
  <2>1. con.pc # "off" /\ con.path \in Paths /\ dir'[con.path] # Vacant /\ dir'[con.path].conn
      BY <1>1, <1>3, <1>6 DEF Owned, Managed, Present
  <2>2. con.path \notin S /\ dir'[con.path] = dir[con.path] /\ Managed(con.path)
      BY <2>1, <1>4
  <2>3. Owned
      BY <2>2, <1>1, <1>6 DEF Owned
  <2>4. dir[con.path].ino \in Files /\ dir[con.path].ino \notin N
      BY <2>1, <2>2, <2>3, <1>0, <1>2, InboxIs
  <2>5. Inbox' = Inbox
      BY <2>2, <2>4, <1>1, <1>2 DEF Inbox
  <2> QED
      BY <2>1, <2>2, <2>3, <2>5
<1>7. OffsetInv'
  <2>1. Sent' = Sent /\ Consumed' = Consumed
      BY <1>1 DEF Sent, Consumed
  <2>2. \A a \in Consumed' : a.m = 0 \/ a.m \in Sent'
      BY <2>1, <1>0 DEF OffsetInv
  <2>3. ASSUME Owned', ~dir'[con'.path].again
        PROVE  /\ \A a \in Consumed', i \in 1 .. Len(Inbox') :
                    Ends(Inbox'[i]) /\ Message(Inbox'[i]) <= a.m => <<con'.sid, Message(Inbox'[i])>> \in taken'
               /\ writer' = con'.path => \A a \in Consumed' : a.m < Whose(Inbox'[Len(Inbox')])
               /\ con'.dev = dev' /\ dir'[con'.path].ino = con'.ino => Passed(Inbox', con'.sid, taken', con'.at)
      BY <2>1, <2>3, <1>0, <1>1, <1>6 DEF OffsetInv
  <2> QED
      BY <2>2, <2>3 DEF OffsetInv
<1> QED
    BY <1>1, <1>3, <1>5, <1>7, Reshape

LEMMA JoinStep ==
    ASSUME IInv, NEW s \in Sessions, NEW p \in Paths, Join(s, p)
    PROVE  IInv'
<1>0. TypeInv /\ DirInv /\ FileInv
    BY DEF IInv
<1> DEFINE swept == [q \in Paths |-> IF q \in Swept THEN Vacant ELSE dir[q]]
<1>1. UNCHANGED <<writer, con, dev, to, seen, handed, cut, taken>> /\ LockFree(p)
    BY DEF Join, StoreOnly
<1>2. \A q \in Swept : q \in Paths /\ Present(q) /\ writer # q
    BY DEF Swept, Reapable, LockFree
<1>3. \A q \in Paths : dir[q] \in Registration \cup {Vacant} /\ (dir[q] # Vacant <=> Present(q))
    BY <1>0 DEF TypeInv, Present
<1>4. \A x, y \in Paths : Present(x) /\ Present(y) /\ dir[x].ino = dir[y].ino => x = y
    BY <1>0 DEF DirInv
<1>5. \A q \in Paths : swept[q] = IF q \in Swept THEN Vacant ELSE dir[q]
    OBVIOUS
<1> HIDE DEF swept
<1>6. CASE dir' = swept /\ UNCHANGED file /\ Replaced(Swept)
  <2>1. dir' \in [Paths -> Registration \cup {Vacant}]
      BY <1>3, <1>6 DEF swept
  <2>2. \A q \in Paths : IF q \in Swept THEN dir'[q] = Vacant ELSE dir'[q] = dir[q]
      BY <1>5, <1>6
  <2>3. \A x, y \in Paths : dir'[x] # Vacant /\ dir'[y] # Vacant /\ dir'[x].ino = dir'[y].ino => x = y
      BY <2>2, <1>3, <1>4
  <2>4. FollowersTold(Swept) /\ HooksTold(Swept)
      BY <1>0, <1>6, ReplacedTells
  <2>d. UNCHANGED Dealt
      BY <2>4, <1>1, ToldDealt
  <2>5. Reshapes(Swept, {})
      BY <2>1, <2>2, <2>3, <2>4, <2>d, <1>0, <1>1, <1>2, <1>6 DEF Reshapes, TypeInv
  <2> QED
      BY <2>2, <2>5, <1>1, StoreStep
<1>7. ASSUME NEW n \in Spare([swept EXCEPT ![p] = Vacant]), dir' = [swept EXCEPT ![p] = Fresh(s, n)],
             file' = [file EXCEPT ![n] = <<>>], Replaced(Swept \cup {p})
      PROVE  IInv'
  <2> DEFINE S == Swept \cup {p}
             d == [swept EXCEPT ![p] = Vacant]
  <2>1. n \in Files /\ (\A q \in Paths : d[q].ino # n) /\ \A f \in Followers : fol[f].ino # n
      BY <1>7, SpareIs
  <2>2. \A q \in Paths : q \notin S => d[q] = dir[q]
      BY <1>5 DEF swept
  <2>3. \A q \in Paths : dir'[q] = IF q = p THEN Fresh(s, n) ELSE IF q \in Swept THEN Vacant ELSE dir[q]
      BY <1>5, <1>7 DEF swept
  <2> HIDE DEF d
  <2>4. Fresh(s, n) \in Registration
      BY <2>1, FreshIs
  <2>5. dir' \in [Paths -> Registration \cup {Vacant}]
    <3>1. \A q \in Paths : dir'[q] \in Registration \cup {Vacant}
        BY <2>3, <2>4, <1>3
    <3>2. dir' = [q \in Paths |-> dir'[q]]
        BY <1>7 DEF swept
    <3> QED
        BY <3>1, <3>2
  <2>6. dev \in Nat
      BY <1>0 DEF TypeInv
  <2>7. NewHere(Fresh(s, n), {n}) /\ Fresh(s, n).ino = n /\ Fresh(s, n).conn = FALSE
    <3>1. /\ Fresh(s, n).ino = n /\ Fresh(s, n).conn = FALSE /\ Fresh(s, n).cursor = NoCursor
          /\ Fresh(s, n).stop = NoCursor /\ n # 0
        BY <2>1, Constants DEF Fresh
    <3>2. NoCursor.dev = 0 /\ NoCursor.ino = 0
        BY DEF NoCursor
    <3> QED
        BY <3>1, <3>2, <2>4, <2>6 DEF NewHere
  <2>8. \A q \in Paths :
          IF q \in S THEN dir'[q] = Vacant \/ NewHere(dir'[q], {n})
          ELSE dir'[q] = dir[q] /\ (Present(q) => dir[q].ino \notin {n})
      BY <2>1, <2>2, <2>3, <2>7
  <2>9. \A x, y \in Paths : dir'[x] # Vacant /\ dir'[y] # Vacant /\ dir'[x].ino = dir'[y].ino => x = y
    <3>1. \A x \in Paths : x \in S => x = p \/ dir'[x] = Vacant
        BY <2>3
    <3>2. \A x \in Paths : x \notin S => dir'[x] = dir[x] /\ dir[x].ino # n
        BY <2>1, <2>2, <2>3
    <3>3. dir'[p].ino = n
        BY <2>3, <2>7
    <3> QED
        BY <3>1, <3>2, <3>3, <1>3, <1>4
  <2>10. FollowersTold(S) /\ HooksTold(S)
      BY <1>0, <1>7, ReplacedTells
  <2>11. /\ file' \in [Files -> Seq(1 .. 2 * MaxMail)]
         /\ \A x \in Files : file'[x] = IF x \in {n} THEN <<>> ELSE file[x]
      BY <2>1, <1>0, <1>7 DEF TypeInv
  <2>12. writer \notin S
      BY <1>1, <1>2 DEF LockFree
  <2>13. \A f \in Followers : fol[f].ino \notin {n}
      BY <2>1
  <2>d. UNCHANGED Dealt
      BY <2>10, <1>1, ToldDealt
  <2>14. Reshapes(S, {n})
      BY <2>5, <2>8, <2>9, <2>10, <2>d, <2>11, <2>12, <2>13, <1>1 DEF Reshapes
  <2>15. \A q \in Paths : q \in S => dir'[q] = Vacant \/ ~dir'[q].conn
      BY <2>3, <2>7
  <2> HIDE DEF S
  <2> QED
      BY <2>14, <2>15, <1>1, StoreStep
<1>8. \/ dir' = swept /\ UNCHANGED file /\ Replaced(Swept)
      \/ \E n \in Spare([swept EXCEPT ![p] = Vacant]) :
            /\ dir' = [swept EXCEPT ![p] = Fresh(s, n)]
            /\ file' = [file EXCEPT ![n] = <<>>]
            /\ Replaced(Swept \cup {p})
  <2>1. CASE Mine(s) \ Swept # {} \/ ListenerAlive(p) \/ Managed(p)
      BY <2>1, Zenon DEF Join, swept
  <2>2. CASE ~(Mine(s) \ Swept # {} \/ ListenerAlive(p) \/ Managed(p))
      BY <2>2, Zenon DEF Join, swept
  <2> QED
      BY <2>1, <2>2
<1> QED
    BY <1>6, <1>7, <1>8

LEMMA LeaveStep ==
    ASSUME IInv, NEW s \in Sessions, Leave(s)
    PROVE  IInv'
<1>0. TypeInv /\ DirInv
    BY DEF IInv
<1> DEFINE S == Mine(s)
<1>1. /\ UNCHANGED <<file, writer, con, dev, to, seen, handed, cut, taken>> /\ \A p \in S : writer # p
      /\ dir' = [p \in Paths |-> IF p \in S THEN Vacant ELSE dir[p]]
    BY DEF Leave, StoreOnly, LockFree
<1>2. FollowersTold(S) /\ HooksTold(S)
    BY <1>0, ReplacedTells DEF Leave
<1> HIDE DEF S
<1>3. \A q \in Paths : dir[q] \in Registration \cup {Vacant} /\ (dir[q] # Vacant <=> Present(q))
    BY <1>0 DEF TypeInv, Present
<1>4. dir' \in [Paths -> Registration \cup {Vacant}]
    BY <1>1, <1>3
<1>5. \A q \in Paths : IF q \in S THEN dir'[q] = Vacant ELSE dir'[q] = dir[q]
    BY <1>1
<1>6. \A x, y \in Paths : dir'[x] # Vacant /\ dir'[y] # Vacant /\ dir'[x].ino = dir'[y].ino => x = y
    BY <1>0, <1>3, <1>5 DEF DirInv
<1>d. UNCHANGED Dealt
    BY <1>1, <1>2, ToldDealt
<1>7. Reshapes(S, {})
    BY <1>0, <1>1, <1>2, <1>d, <1>4, <1>5, <1>6 DEF Reshapes, TypeInv
<1> QED
    BY <1>1, <1>5, <1>7, StoreStep

LEMMA RenameStep ==
    ASSUME IInv, NEW s \in Sessions, NEW p \in Paths, NEW q \in Paths, Rename(s, p, q)
    PROVE  IInv'
<1>0. TypeInv /\ DirInv
    BY DEF IInv
<1> DEFINE S == {p, q}
           d == dir[p]
           e == [d EXCEPT !.witness = FALSE]
<1>1. /\ UNCHANGED <<file, writer, con, dev, to, seen, handed, cut, taken>> /\ writer \notin S
      /\ dir' = [dir EXCEPT ![p] = Vacant, ![q] = e] /\ p # q /\ Present(p) /\ ~Managed(p)
    BY DEF Rename, StoreOnly, LockFree, Mine
<1>2. FollowersTold(S) /\ HooksTold(S)
    BY <1>0, ReplacedTells DEF Rename
<1>3. d \in Registration /\ ~d.conn
    BY <1>0, <1>1, DirIs
<1>4. Carries(d, e) /\ e.cursor = d.cursor /\ e.stop = d.stop
    BY <1>3, WitnessWritten
<1> HIDE DEF e
<1>5. \A x \in Paths : dir'[x] = IF x = q THEN e ELSE IF x = p THEN Vacant ELSE dir[x]
    BY <1>0, <1>1 DEF TypeInv
<1>6. e \in Registration /\ e.conn = d.conn /\ e.ino = d.ino
    BY <1>4 DEF Carries
<1>7. dir' \in [Paths -> Registration \cup {Vacant}]
  <2>1. \A x \in Paths : dir'[x] \in Registration \cup {Vacant}
      BY <1>0, <1>5, <1>6 DEF TypeInv
  <2>2. dir' = [x \in Paths |-> dir'[x]]
      BY <1>0, <1>1 DEF TypeInv
  <2> QED
      BY <2>1, <2>2
<1>8. CameFrom(p, e, {})
    BY <1>1, <1>4 DEF CameFrom
<1>9. \A x \in Paths :
          IF x \in S THEN dir'[x] = Vacant \/ \E y \in Paths : CameFrom(y, dir'[x], {}) ELSE dir'[x] = dir[x]
    BY <1>5, <1>8
<1>10. \A x, y \in Paths : Present(x) /\ Present(y) /\ dir[x].ino = dir[y].ino => x = y
    BY <1>0 DEF DirInv
<1>11. \A x, y \in Paths : dir'[x] # Vacant /\ dir'[y] # Vacant /\ dir'[x].ino = dir'[y].ino => x = y
    BY <1>1, <1>5, <1>6, <1>10 DEF Present
<1>d. UNCHANGED Dealt
    BY <1>1, <1>2, ToldDealt
<1>12. Reshapes(S, {})
    BY <1>0, <1>1, <1>2, <1>d, <1>7, <1>9, <1>11 DEF Reshapes, TypeInv
<1>13. \A x \in Paths : x \in S => dir'[x] = Vacant \/ ~dir'[x].conn
    BY <1>3, <1>5, <1>6
<1> HIDE DEF S
<1> QED
    BY <1>1, <1>12, <1>13, StoreStep


\* A file of the same registration: what its records name is another file, or it
\* is marked.
LEMMA RotateStep ==
    ASSUME IInv, NEW p \in Paths, Rotate(p)
    PROVE  IInv'
<1>0. TypeInv /\ ShapeInv /\ DirInv /\ FileInv /\ OffsetInv
    BY DEF IInv
<1>1. /\ Present(p) /\ writer # p /\ Replaced({p})
      /\ UNCHANGED <<writer, dev, to, seen, handed, cut, taken>>
    BY DEF Rotate, LockFree
<1>2. PICK n \in Spare(dir) :
          /\ dir' = [dir EXCEPT ![p].ino = n, ![p].skipped = 0, ![p].again = n \in Named(p)]
          /\ file' = [file EXCEPT ![n] = <<>>]
          /\ con' = IF Managed(p) THEN [con EXCEPT !.whole = FALSE] ELSE con
    BY Zenon DEF Rotate
<1>a. (n \in Named(p)) \in BOOLEAN
    OBVIOUS
<1>3. PICK b \in BOOLEAN : b = (n \in Named(p))
    BY <1>a
<1> DEFINE d == dir[p]
           e == [d EXCEPT !.ino = n, !.skipped = 0, !.again = b]
<1>4. d \in Registration /\ (Managed(p) <=> d.conn) /\ d.conn \in BOOLEAN
    BY <1>0, <1>1, DirIs, RegistrationIs
<1>5. n \in Files /\ (\A q \in Paths : dir[q].ino # n) /\ \A f \in Followers : fol[f].ino # n
    BY <1>2, SpareIs
<1>6. dir' = [dir EXCEPT ![p] = e]
    BY <1>0, <1>2, <1>3 DEF TypeInv
<1>7. b \in BOOLEAN /\ (~b => n # d.cursor.ino /\ n # d.stop.ino /\ (Managed(p) => n # con.ino))
    BY <1>3 DEF Named
<1>8. /\ e \in Registration /\ e.ino = n /\ e.again = b /\ e.sid = d.sid /\ e.conn = d.conn
      /\ e.cursor = d.cursor /\ e.stop = d.stop
    BY <1>4, <1>5, <1>7, Constants DEF Registration
<1> HIDE DEF e
<1>9. \A q \in Paths : dir'[q] = IF q = p THEN e ELSE dir[q]
    BY <1>0, <1>6 DEF TypeInv
<1>10. dir' \in [Paths -> Registration \cup {Vacant}]
    BY <1>0, <1>6, <1>8 DEF TypeInv
<1>11. \A q \in Paths : Present(q) <=> dir[q] # Vacant
    BY DEF Present
<1>12. d.cursor.dev <= dev /\ d.stop.dev <= dev
    BY <1>0, <1>1 DEF DirInv
<1>13. NewHere(e, {n})
    BY <1>7, <1>8, <1>12 DEF NewHere
<1>14. \A q \in Paths :
          IF q \in {p} THEN dir'[q] = Vacant \/ NewHere(dir'[q], {n})
          ELSE dir'[q] = dir[q] /\ (Present(q) => dir[q].ino \notin {n})
    BY <1>5, <1>9, <1>13
<1>15. \A x, y \in Paths : dir'[x] # Vacant /\ dir'[y] # Vacant /\ dir'[x].ino = dir'[y].ino => x = y
  <2>1. \A x, y \in Paths : Present(x) /\ Present(y) /\ dir[x].ino = dir[y].ino => x = y
      BY <1>0 DEF DirInv
  <2> QED
      BY <2>1, <1>5, <1>8, <1>9, <1>11
<1>16. FollowersTold({p}) /\ HooksTold({p})
    BY <1>0, <1>1, ReplacedTells
<1>17. /\ file' \in [Files -> Seq(1 .. 2 * MaxMail)]
       /\ \A x \in Files : file'[x] = IF x \in {n} THEN <<>> ELSE file[x]
    BY <1>0, <1>2, <1>5 DEF TypeInv
<1>18. (\A f \in Followers : fol[f].ino \notin {n}) /\ writer \notin {p}
    BY <1>1, <1>5
<1>d. UNCHANGED Dealt
    BY <1>1, <1>16, ToldDealt
<1>19. Reshapes({p}, {n})
    BY <1>1, <1>10, <1>d, <1>14, <1>15, <1>16, <1>17, <1>18 DEF Reshapes
<1>20. /\ con' \in ConRecord /\ con'.pc = con.pc /\ con'.path = con.path /\ con'.sid = con.sid
       /\ con'.dev = con.dev /\ con'.ino = con.ino /\ con'.at = con.at
       /\ con'.last = con.last /\ con'.given = con.given
       /\ con.pc = "off" => con' = con
  <2>1. con \in ConRecord
      BY <1>0, ConIs
  <2>2. Managed(p) => con.pc # "off"
      BY <1>0 DEF DirInv
  <2>3. CASE Managed(p)
      BY <2>1, <2>2, <2>3, <1>2 DEF ConRecord
  <2>4. CASE ~Managed(p)
      BY <2>1, <2>4, <1>2
  <2> QED
      BY <2>3, <2>4
<1>21. /\ con'.dev <= dev /\ (con'.pc = "off" => con' = NoCon) /\ (con'.pc # "off" => con'.path \in Paths)
    BY <1>0, <1>20 DEF DirInv, ShapeInv
<1>22. ASSUME NEW q \in Paths, dir'[q] # Vacant, dir'[q].conn
       PROVE  Managed(q) /\ dir'[q].sid = dir[q].sid
  <2>1. CASE q = p
      BY <2>1, <1>4, <1>8, <1>9, <1>22
  <2>2. CASE q # p
      BY <2>2, <1>9, <1>22 DEF Managed, Present
  <2> QED
      BY <2>1, <2>2
<1>23. \A q \in Paths : dir'[q] # Vacant /\ dir'[q].conn =>
           con'.pc # "off" /\ con'.path = q /\ dir'[q].sid = con'.sid
    BY <1>0, <1>20, <1>22 DEF DirInv
<1>24. OffsetInv'
  <2>1. Sent' = Sent /\ Consumed' = Consumed
      BY <1>1, <1>20 DEF Sent, Consumed
  <2>2. \A a \in Consumed' : a.m = 0 \/ a.m \in Sent'
      BY <2>1, <1>0 DEF OffsetInv
  <2>3. ASSUME Owned', ~dir'[con'.path].again
        PROVE  /\ \A a \in Consumed', i \in 1 .. Len(Inbox') :
                    Ends(Inbox'[i]) /\ Message(Inbox'[i]) <= a.m => <<con'.sid, Message(Inbox'[i])>> \in taken'
               /\ writer' = con'.path => \A a \in Consumed' : a.m < Whose(Inbox'[Len(Inbox')])
               /\ con'.dev = dev' /\ dir'[con'.path].ino = con'.ino => Passed(Inbox', con'.sid, taken', con'.at)
    <3>1. con.pc # "off" /\ con.path \in Paths /\ dir'[con.path] # Vacant /\ dir'[con.path].conn
        BY <2>3, <1>20, <1>21 DEF Owned, Managed, Present
    <3>2. Managed(con.path) /\ dir'[con.path].sid = dir[con.path].sid
        BY <3>1, <1>22
    <3>3. Owned
        BY <2>3, <3>1, <3>2, <1>20 DEF Owned
    <3>4. CASE con.path = p
      <4>1. dir'[p].ino = n /\ ~b
          BY <2>3, <3>4, <1>8, <1>9, <1>20
      <4>2. Inbox' = <<>>
          BY <4>1, <3>4, <1>5, <1>17, <1>20 DEF Inbox
      <4>3. n # con.ino
          BY <4>1, <3>2, <3>4, <1>7
      <4>4. Len(Inbox') = 0 /\ writer' # con'.path /\ dir'[con'.path].ino # con'.ino
          BY <4>1, <4>2, <4>3, <3>4, <1>1, <1>20, NothingWritten
      <4> QED
          BY <4>4
    <3>5. CASE con.path # p
      <4>1. dir'[con.path] = dir[con.path] /\ dir[con.path].ino # n /\ dir[con.path].ino \in Files
          BY <3>1, <3>3, <3>5, <1>0, <1>5, <1>9, InboxIs
      <4>2. Inbox' = Inbox
          BY <4>1, <1>17, <1>20 DEF Inbox
      <4> QED
          BY <4>1, <4>2, <2>1, <2>3, <3>3, <1>0, <1>1, <1>20 DEF OffsetInv
    <3> QED
        BY <3>4, <3>5
  <2> QED
      BY <2>2, <2>3 DEF OffsetInv
<1> QED
    BY <1>19, <1>20, <1>21, <1>23, <1>24, Reshape

\* The connection's own registration, with nothing read and nothing to read.
LEMMA ConnectStep ==
    ASSUME IInv, NEW s \in Sessions, NEW p \in Paths, Connect(s, p)
    PROVE  IInv'
<1>0. TypeInv /\ ShapeInv /\ DirInv /\ FileInv /\ ArmedInv /\ HookInv /\ OffsetInv
    BY DEF IInv
<1>1. /\ con = NoCon /\ dir[p] = Vacant /\ writer # p
      /\ UNCHANGED <<fol, hook, writer, dev, to, seen, handed, cut, taken>>
    BY DEF Connect, LockFree
<1>2. PICK n \in Spare(dir) :
          /\ file' = [file EXCEPT ![n] = <<>>]
          /\ dir' = [dir EXCEPT ![p] = [Fresh(s, n) EXCEPT !.conn = TRUE]]
          /\ con' = [NoCon EXCEPT !.pc = "up", !.path = p, !.sid = s, !.dev = dev, !.ino = n]
    BY Zenon DEF Connect
<1> DEFINE r == Fresh(s, n)
           e == [r EXCEPT !.conn = TRUE]
<1>3. n \in Files /\ (\A q \in Paths : dir[q].ino # n) /\ \A f \in Followers : fol[f].ino # n
    BY <1>2, SpareIs
<1>4. /\ r \in Registration /\ r.ino = n /\ r.sid = s /\ r.cursor.dev = 0 /\ r.stop.dev = 0
      /\ r.cursor.ino = 0 /\ r.stop.ino = 0
    BY <1>3, FreshIs DEF Fresh, NoCursor
<1>5. dir' = [dir EXCEPT ![p] = e]
    BY <1>2
<1> HIDE DEF r
<1>6. /\ e \in Registration /\ e.ino = n /\ e.sid = s /\ e.cursor.dev = 0 /\ e.stop.dev = 0
      /\ e.cursor.ino = 0 /\ e.stop.ino = 0
    BY <1>4 DEF Registration
<1> HIDE DEF e
<1>7. \A q \in Paths : dir'[q] = IF q = p THEN e ELSE dir[q]
    BY <1>0, <1>5 DEF TypeInv
<1>8. dir' \in [Paths -> Registration \cup {Vacant}]
    BY <1>0, <1>5, <1>6 DEF TypeInv
<1>9. dev \in Nat
    BY <1>0 DEF TypeInv
<1>10. NewHere(e, {n})
    BY <1>3, <1>6, <1>9, Constants DEF NewHere
<1>11. \A q \in Paths :
          IF q \in {p} THEN dir'[q] = Vacant \/ NewHere(dir'[q], {n})
          ELSE dir'[q] = dir[q] /\ (Present(q) => dir[q].ino \notin {n})
    BY <1>3, <1>7, <1>10
<1>12. \A x, y \in Paths : dir'[x] # Vacant /\ dir'[y] # Vacant /\ dir'[x].ino = dir'[y].ino => x = y
  <2>1. \A x, y \in Paths : Present(x) /\ Present(y) /\ dir[x].ino = dir[y].ino => x = y
      BY <1>0 DEF DirInv
  <2> QED
      BY <2>1, <1>3, <1>6, <1>7 DEF Present
<1>13. FollowersTold({p})
  <2>1. ASSUME NEW f \in Followers, fol[f].pc = "armed", fol[f].at > 0, ~fol[f].moved
        PROVE  fol[f].path # p
      BY <2>1, <1>0, <1>1 DEF ArmedInv, ArmedFits
  <2> QED
      BY <2>1, <1>0, <1>1 DEF FollowersTold, TypeInv
<1>14. HooksTold({p})
  <2>1. ASSUME NEW x \in Sessions, hook[x].pc = "look", hook[x].own
        PROVE  hook[x].path # p
      BY <2>1, <1>0, <1>1 DEF HookInv, HookFits
  <2> QED
      BY <2>1, <1>0, <1>1 DEF HooksTold, TypeInv
<1>15. /\ file' \in [Files -> Seq(1 .. 2 * MaxMail)]
       /\ \A x \in Files : file'[x] = IF x \in {n} THEN <<>> ELSE file[x]
    BY <1>0, <1>2, <1>3 DEF TypeInv
<1>16. (\A f \in Followers : fol[f].ino \notin {n}) /\ writer \notin {p}
    BY <1>1, <1>3
<1>d. UNCHANGED Dealt
    BY <1>1, <1>14, ToldDealt
<1>17. Reshapes({p}, {n})
    BY <1>1, <1>8, <1>d, <1>11, <1>12, <1>13, <1>14, <1>15, <1>16 DEF Reshapes
<1>18. /\ con' \in ConRecord /\ con'.pc = "up" /\ con'.path = p /\ con'.sid = s /\ con'.dev = dev
       /\ con'.ino = n /\ con'.at = 0 /\ con'.last = NoAttempt /\ con'.given = {}
  <2>1. con' \in ConRecord
      BY <1>2, <1>3, <1>9, NoneIs DEF ConRecord
  <2> QED
      BY <2>1, <1>2 DEF NoCon
<1>19. \A q \in Paths : dir'[q] # Vacant /\ dir'[q].conn => con'.pc # "off" /\ con'.path = q /\ dir'[q].sid = con'.sid
  <2> SUFFICES ASSUME NEW q \in Paths, dir'[q] # Vacant, dir'[q].conn
               PROVE  q = p
      BY <1>6, <1>7, <1>18
  <2>1. con.pc = "off"
      BY <1>1 DEF NoCon
  <2>2. ~Managed(q)
      BY <2>1, <1>0 DEF DirInv
  <2> QED
      BY <2>2, <1>7 DEF Managed, Present
<1>20. OffsetInv'
  <2>1. Inbox' = <<>>
      BY <1>3, <1>6, <1>7, <1>15, <1>18 DEF Inbox
  <2>2. Consumed' = {NoAttempt} /\ NoAttempt.m = 0
      BY <1>18, NoneIs DEF Consumed
  <2>3. Passed(<<>>, con'.sid, taken', 0) /\ Len(<<>>) = 0
      BY NothingWritten, PassedAtStart
  <2>4. writer' # con'.path
      BY <1>1, <1>18
  <2> QED
      BY <2>1, <2>2, <2>3, <2>4, <1>18 DEF OffsetInv
<1> QED
    BY <1>1, <1>9, <1>17, <1>18, <1>19, <1>20, Reshape


(* ------------------------------------------- the machine starts again - *)

\* Under a new device number no cursor counts, and nobody is in the middle of
\* anything; what the attempts of the connection say survives a backup of the
\* inbox.
LEMMA RebootStep ==
    ASSUME IInv, Reboot
    PROVE  IInv'
<1>0. TypeInv /\ ShapeInv /\ DirInv /\ FileInv /\ OffsetInv /\ OwnInv
    BY DEF IInv
<1>1. /\ con.pc # "off" /\ Owned /\ dev' = dev + 1 /\ dir' = DaemonGone /\ writer' = NoOne
      /\ hook' = [s \in Sessions |-> NoHook]
      /\ fol' = [f \in Followers |-> IF fol[f].pc = "off" THEN Off ELSE [Off EXCEPT !.pc = "dead"]]
      /\ UNCHANGED <<to, seen, handed, cut, taken>>
    BY DEF Reboot
<1> DEFINE n0 == dir[con.path].ino
           l  == file[n0]
<1>2. PICK k \in {0, Len(Inbox)} \cup LineEnds(n0, 0) :
          /\ file' = [file EXCEPT ![n0] = SubSeq(@, 1, k)]
          /\ con' = [con EXCEPT !.pc = "down", !.whole = @ /\ k = Len(Inbox)]
    BY Zenon DEF Reboot
<1>3. /\ con.path \in Paths /\ n0 \in Files /\ Lines(l) /\ Len(l) \in Nat /\ l = Inbox
      /\ dev \in Nat /\ dev' \in Nat
    BY <1>0, <1>1, InboxIs DEF Inbox, TypeInv
<1>4. k \in 0 .. Len(l)
    BY <1>2, <1>3 DEF LineEnds
<1> DEFINE l2 == SubSeq(l, 1, k)
<1>5. file' = [file EXCEPT ![n0] = l2]
    BY <1>2
<1>6. Lines(l2) /\ Len(l2) = k /\ \A i \in 1 .. k : l2[i] = l[i]
  <2> HIDE DEF l
  <2> QED
      BY <1>3, <1>4, LinesPrefix
<1>7. \A i \in 1 .. Len(l2) : i \in 1 .. Len(l) /\ l2[i] = l[i]
  <2> HIDE DEF l, l2
  <2> QED
      BY <1>3, <1>4, <1>6
<1>8. l2 \in Seq(1 .. 2 * MaxMail)
  <2> HIDE DEF l, l2
  <2> QED
      BY <1>6, LinesFacts
<1> HIDE DEF l2
<1>9. \A n \in Files : file'[n] = IF n = n0 THEN l2 ELSE file[n]
    BY <1>0, <1>5 DEF TypeInv
<1>10. DirStays /\ \A p \in Paths : Present(p) => dir'[p].cursor = dir[p].cursor /\ dir'[p].stop = dir[p].stop
    BY <1>0, <1>1, DaemonGoneIs
<1>11. /\ con' \in ConRecord /\ con'.pc = "down" /\ con'.path = con.path /\ con'.sid = con.sid
       /\ con'.dev = con.dev /\ con'.last = con.last /\ con'.given = con.given
  <2>1. PICK b \in BOOLEAN : b = (con.whole /\ k = Len(Inbox))
      OBVIOUS
  <2>2. con' = [con EXCEPT !.pc = "down", !.whole = b] /\ b \in BOOLEAN
      BY <1>2, <2>1
  <2> QED
      BY <2>2, <1>0, ConIs DEF ConRecord
<1>12. \A f \in Followers : fol'[f] \in FollowerRecord /\ fol'[f].pc \in {"off", "dead"} /\ fol'[f].pend <= fol'[f].at
  <2> SUFFICES ASSUME NEW f \in Followers
               PROVE  fol'[f] \in FollowerRecord /\ fol'[f].pc \in {"off", "dead"} /\ fol'[f].pend <= fol'[f].at
      OBVIOUS
  <2> DEFINE r == [Off EXCEPT !.pc = "dead"]
  <2>1. r \in FollowerRecord /\ r.pc = "dead" /\ r.at = 0 /\ r.pend = 0
      BY StoppedIs
  <2>2. Off \in FollowerRecord /\ Off.pc = "off" /\ Off.at = 0 /\ Off.pend = 0
      BY OffIs DEF Off
  <2>3. fol'[f] = Off \/ fol'[f] = r
      BY <1>1
  <2> HIDE DEF r
  <2> QED
      BY <2>1, <2>2, <2>3
<1>13. \A s \in Sessions : hook'[s] \in HookRecord /\ hook'[s].pc = "off" /\ hook'[s].lines = {}
    BY <1>1, DoneIs
<1>14. TypeInv'
  <2>1. file' \in [Files -> Seq(1 .. 2 * MaxMail)]
      BY <1>0, <1>5, <1>8 DEF TypeInv
  <2>2. fol' \in [Followers -> FollowerRecord] /\ hook' \in [Sessions -> HookRecord]
      BY <1>1, <1>12, <1>13
  <2> QED
      BY <2>1, <2>2, <1>0, <1>1, <1>3, <1>10, <1>11 DEF TypeInv, DirStays
<1>15. ShapeInv'
  <2>1. \A f \in Followers : FollowerShape(fol'[f])
      BY <1>12 DEF FollowerShape, Running, Waiting
  <2>2. \A s \in Sessions : HookShape(hook[s])'
      BY <1>13 DEF HookShape
  <2> QED
      BY <2>1, <2>2, <1>3, <1>11 DEF ShapeInv
<1>16. \A p \in Paths : /\ dir'[p] # Vacant <=> Present(p)
                        /\ Present(p) => /\ dir'[p].ino = dir[p].ino /\ dir'[p].sid = dir[p].sid
                                         /\ dir'[p].conn = dir[p].conn /\ dir'[p] # Vacant
                                         /\ dir[p] \in Registration /\ dir[p].ino \in Files
                                         /\ dir[p].cursor.dev \in Nat /\ dir[p].stop.dev \in Nat
  <2> SUFFICES ASSUME NEW p \in Paths
               PROVE  /\ dir'[p] # Vacant <=> Present(p)
                      /\ Present(p) => /\ dir'[p].ino = dir[p].ino /\ dir'[p].sid = dir[p].sid
                                       /\ dir'[p].conn = dir[p].conn /\ dir'[p] # Vacant
                                       /\ dir[p] \in Registration /\ dir[p].ino \in Files
                                       /\ dir[p].cursor.dev \in Nat /\ dir[p].stop.dev \in Nat
      OBVIOUS
  <2>1. CASE Present(p)
    <3>1. Carries(dir[p], dir'[p]) /\ dir[p] \in Registration
        BY <2>1, <1>0, <1>10, DirIs DEF DirStays
    <3>2. dir'[p] # Vacant /\ dir'[p].ino = dir[p].ino /\ dir'[p].sid = dir[p].sid /\ dir'[p].conn = dir[p].conn
        BY <3>1, RegistrationIs DEF Carries
    <3>3. dir[p].ino \in Files /\ dir[p].cursor \in Cursor /\ dir[p].stop \in Cursor
        BY <3>1, RegistrationIs
    <3> QED
        BY <2>1, <3>1, <3>2, <3>3 DEF Cursor
  <2>2. CASE ~Present(p)
      BY <2>2, <1>10 DEF DirStays
  <2> QED
      BY <2>1, <2>2
<1>17. \A p \in Paths : Present(p) =>
           /\ dir'[p].cursor.dev = dir[p].cursor.dev /\ dir'[p].stop.dev = dir[p].stop.dev
           /\ dir[p].cursor.dev <= dev /\ dir[p].stop.dev <= dev
    BY <1>0, <1>10 DEF DirInv
<1>18. \A p \in Paths : Present(p) => dir'[p].cursor.dev < dev' /\ dir'[p].stop.dev < dev'
    BY <1>1, <1>3, <1>16, <1>17
<1>19. con.dev \in Nat /\ con.dev < dev'
    BY <1>0, <1>1, <1>3, ConIs DEF DirInv
<1>20. DirInv'
  <2>1. \A p, q \in Paths : Present(p)' /\ Present(q)' /\ dir'[p].ino = dir'[q].ino => p = q
      BY <1>0, <1>16 DEF DirInv, Present
  <2>2. \A p \in Paths : Managed(p)' => con'.pc # "off" /\ con'.path = p /\ dir'[p].sid = con'.sid
      BY <1>0, <1>11, <1>16 DEF DirInv, Managed, Present
  <2>3. \A p \in Paths : Present(p)' => dir'[p].cursor.dev <= dev' /\ dir'[p].stop.dev <= dev'
      BY <1>3, <1>16, <1>17, <1>18 DEF Present
  <2>4. con'.dev <= dev'
      BY <1>3, <1>11, <1>19
  <2>5. \A p \in Paths : writer' # p
      BY <1>1, Constants
  <2> QED
      BY <2>1, <2>2, <2>3, <2>4, <2>5 DEF DirInv
<1>21. FileInv'
  <2>1. Sent' = Sent
      BY <1>1 DEF Sent
  <2>2. ASSUME NEW n \in Files PROVE Lines(file'[n]) /\ \A i \in 1 .. Len(file'[n]) : Whose(file'[n][i]) \in Sent
    <3>1. CASE n = n0
        BY <3>1, <1>0, <1>3, <1>6, <1>7, <1>9 DEF FileInv
    <3>2. CASE n # n0
        BY <3>2, <1>0, <1>9 DEF FileInv
    <3> QED
        BY <3>1, <3>2
  <2>3. ASSUME NEW p \in Paths, dir'[p] # Vacant PROVE AllFor(file'[dir'[p].ino], to', dir'[p].sid)
    <3>1. Present(p) /\ dir'[p].ino = dir[p].ino /\ dir'[p].sid = dir[p].sid /\ dir[p].ino \in Files
        BY <2>3, <1>16
    <3>2. AllFor(file[dir[p].ino], to, dir[p].sid)
        BY <3>1, <1>0 DEF FileInv
    <3>3. CASE dir[p].ino = n0
        BY <3>1, <3>2, <3>3, <1>1, <1>7, <1>9 DEF AllFor
    <3>4. CASE dir[p].ino # n0
        BY <3>1, <3>2, <3>4, <1>1, <1>9
    <3> QED
        BY <3>3, <3>4
  <2> QED
      BY <2>1, <2>2, <2>3, <1>0 DEF FileInv, Present
<1>22. ReaderInv' /\ ArmedInv' /\ OpenInv'
  <2>1. \A f \in Followers : fol'[f].pc # "armed" /\ fol'[f].pc \notin Running
      BY <1>12 DEF Running
  <2> QED
      BY <2>1 DEF ReaderInv, Reads, ArmedInv, ArmedFits, OpenInv, OpenFits
<1>23. CursorInv' /\ StopInv'
  <2> SUFFICES ASSUME NEW p \in Paths
               PROVE  CursorFits(dir'[p], file', seen', dev') /\ StopFits(dir'[p], file', Dealt', dev')
      BY DEF CursorInv, StopInv
  <2>1. CASE dir'[p] = Vacant
      BY <2>1 DEF CursorFits, StopFits, Clean
  <2>2. CASE dir'[p] # Vacant
    <3>1. dir'[p].cursor.dev # dev' /\ dir'[p].stop.dev # dev'
        BY <2>2, <1>3, <1>16, <1>17, <1>18
    <3> QED
        BY <3>1 DEF CursorFits, StopFits
  <2> QED
      BY <2>1, <2>2
<1>24. HookInv'
    BY <1>13 DEF HookInv, HookFits
<1>25. OffsetInv'
  <2>1. Sent' = Sent /\ Consumed' = Consumed
      BY <1>1, <1>11 DEF Sent, Consumed
  <2>2. \A a \in Consumed' : a.m = 0 \/ a.m \in Sent'
      BY <2>1, <1>0 DEF OffsetInv
  <2>3. ASSUME Owned', ~dir'[con'.path].again
        PROVE  /\ \A a \in Consumed', i \in 1 .. Len(Inbox') :
                    Ends(Inbox'[i]) /\ Message(Inbox'[i]) <= a.m => <<con'.sid, Message(Inbox'[i])>> \in taken'
               /\ writer' # con'.path /\ con'.dev # dev'
    <3>1. dir'[con'.path].ino = n0 /\ ~dir[con.path].again
        BY <2>3, <1>0, <1>1, <1>10, <1>11, OwnedKept
    <3>2. Inbox' = l2
        BY <3>1, <1>3, <1>9 DEF Inbox
    <3>3. \A a \in Consumed, i \in 1 .. Len(l) :
              Ends(l[i]) /\ Message(l[i]) <= a.m => <<con.sid, Message(l[i])>> \in taken
        BY <3>1, <1>0, <1>1, <1>3 DEF OffsetInv
    <3>4. \A a \in Consumed', i \in 1 .. Len(Inbox') :
              Ends(Inbox'[i]) /\ Message(Inbox'[i]) <= a.m => <<con'.sid, Message(Inbox'[i])>> \in taken'
      <4> HIDE DEF l
      <4> QED
          BY <3>2, <3>3, <2>1, <1>1, <1>7, <1>11
    <3>5. con'.dev # dev'
        BY <1>3, <1>11, <1>19
    <3> QED
        BY <3>4, <3>5, <1>1, <1>3, <1>11, Constants
  <2> QED
      BY <2>2, <2>3 DEF OffsetInv
<1>26. OwnInv'
    BY <1>0, <1>1 DEF OwnInv, OwnMailOnly, Sent
<1> QED
    BY <1>14, <1>15, <1>20, <1>21, <1>22, <1>23, <1>24, <1>25, <1>26 DEF IInv


(* ---------------------------------------------------- the invariant holds - *)

LEMMA InitEstablishes == Init => IInv
<1> SUFFICES ASSUME Init
             PROVE  IInv
    OBVIOUS
<1>1. /\ dir = [p \in Paths |-> Vacant] /\ file = [n \in Files |-> <<>>]
      /\ fol = [f \in Followers |-> Off] /\ hook = [s \in Sessions |-> NoHook]
      /\ writer = NoOne /\ to = [m \in Messages |-> NoOne] /\ con = NoCon /\ dev = 1
      /\ seen = {} /\ handed = {} /\ taken = {}
    BY DEF Init, Start
<1>2. (\A p \in Paths : dir[p] = Vacant /\ ~Present(p) /\ ~Managed(p) /\ ~Clean(dir[p]))
    BY <1>1 DEF Present, Managed, Clean
<1>3. \A f \in Followers : fol[f].pc \notin Running \cup Waiting /\ fol[f].pc # "armed" /\ fol[f].pend <= fol[f].at
    BY <1>1 DEF Off, Running, Waiting
<1>4. \A s \in Sessions : hook[s].pc = "off" /\ hook[s].lines = {}
    BY <1>1, DoneIs
<1>5. con.pc = "off" /\ con.dev = 0 /\ con.last = NoAttempt /\ con.given = {}
    BY <1>1 DEF NoCon
<1>6. TypeInv
  <2>1. <<>> \in Seq(1 .. 2 * MaxMail)
      BY NothingWritten, LinesFacts
  <2> QED
      BY <2>1, <1>1, OffIs, NoneIs DEF TypeInv
<1>7. ShapeInv
  <2>1. \A f \in Followers : FollowerShape(fol[f])
      BY <1>3 DEF FollowerShape, Running, Waiting
  <2>2. \A s \in Sessions : HookShape(hook[s])
      BY <1>4 DEF HookShape
  <2> QED
      BY <2>1, <2>2, <1>1, <1>5 DEF ShapeInv
<1>8. DirInv
    BY <1>1, <1>2, <1>5, Constants DEF DirInv
<1>9. FileInv
  <2>1. Sent = {}
      BY <1>1, Constants DEF Sent
  <2>2. Sent = 1 .. 0 /\ 0 \in Nat
      BY <2>1
  <2>3. \A n \in Files : Lines(file[n]) /\ Len(file[n]) = 0
      BY <1>1, NothingWritten
  <2> QED
      BY <2>2, <2>3, <1>2 DEF FileInv
<1>10. ReaderInv /\ ArmedInv /\ OpenInv
    BY <1>3 DEF ReaderInv, Reads, ArmedInv, ArmedFits, OpenInv, OpenFits
<1>11. CursorInv /\ StopInv
    BY <1>2 DEF CursorInv, CursorFits, StopInv, StopFits
<1>12. HookInv
    BY <1>4 DEF HookInv, HookFits
<1>13. OffsetInv
    BY <1>5, NoneIs DEF OffsetInv, Owned, Consumed
<1>14. OwnInv
    BY <1>1 DEF OwnInv, OwnMailOnly
<1> QED
    BY <1>6, <1>7, <1>8, <1>9, <1>10, <1>11, <1>12, <1>13, <1>14 DEF IInv

LEMMA StutterKeeps ==
    ASSUME IInv, UNCHANGED vars
    PROVE  IInv'
<1>0. TypeInv /\ DirInv
    BY DEF IInv
<1>1. UNCHANGED <<dir, file, fol, hook, writer, con, dev, to, seen, handed, cut, taken>>
    BY DEF vars
<1>2. FollowersTold({}) /\ HooksTold({})
    BY <1>0, <1>1 DEF FollowersTold, HooksTold, TypeInv
<1>d. UNCHANGED Dealt
    BY <1>1, DealtStays
<1>3. Reshapes({}, {})
    BY <1>0, <1>1, <1>2, <1>d DEF Reshapes, TypeInv, DirInv, Present
<1> QED
    BY <1>1, <1>3, StoreStep

LEMMA NextKeeps ==
    ASSUME IInv, Next
    PROVE  IInv'
<1>1. CASE \E s \in Sessions, p \in Paths : Join(s, p)
    BY <1>1, JoinStep
<1>2. CASE \E s \in Sessions : Leave(s)
    BY <1>2, LeaveStep
<1>3. CASE \E s \in Sessions, p, q \in Paths : Rename(s, p, q)
    BY <1>3, RenameStep
<1>4. CASE \E p \in Paths : Rotate(p) \/ Send(p) \/ SendEnds(p)
    BY <1>4, RotateStep, SendStep, SendEndsStep
<1>5. CASE \E f \in Followers, p \in Paths : Arm(f, p) \/ Claim(f, p)
    BY <1>5, ArmStep, ClaimStep
<1>6. CASE \E f \in Followers : Die(f)
    BY <1>6, DieStep
<1>7. CASE \E s \in Sessions : \/ HookStarts(s) \/ HookEnds(s) \/ HookLooks(s)
                                \/ HookReads(s) \/ HookHands(s) \/ HookDies(s)
    BY <1>7, HookStartsStep, HookEndsStep, HookLooksStep, HookReadsStep, HookHandsStep, HookDiesStep
<1>8. CASE \E s \in Sessions, p \in Paths : Connect(s, p)
    BY <1>8, ConnectStep
<1>9. CASE ConAbandons \/ ConDies \/ Reboot
    BY <1>9, ConAbandonsStep, ConDiesStep, RebootStep
<1>10. CASE Pass \/ Rearm
    BY <1>10, ConIdlesStep, ConJournalsStep, ConAcceptsStep, RearmStep DEF Pass
<1>11. CASE \E f \in Followers : Step(f)
    BY <1>11, OpenStep, SeedStep, ReadStep, QuietsStep, CheckStep, SaveStep, PollStep DEF Step
<1> QED
    BY <1>1, <1>2, <1>3, <1>4, <1>5, <1>6, <1>7, <1>8, <1>9, <1>10, <1>11, Zenon DEF Next, Command

\* IInv is inductive: it holds initially and every step keeps it.
THEOREM Inductive == Spec => []IInv
<1>1. Init => IInv
    BY InitEstablishes
<1>2. IInv /\ [Next]_vars => IInv'
    BY NextKeeps, StutterKeeps
<1> QED
    BY <1>1, <1>2, PTL DEF Spec

(* --------------------------------------- what is left, and what was seen - *)

Pairs == (Sessions \cup {NoOne}) \X Messages
PastTyped == left \in [Names -> Nat] /\ seen \cup handed \cup cut \cup taken \subseteq Pairs

\* A command or a mishap that is counted has a budget.
LEMMA UseTyped ==
    ASSUME left \in [Names -> Nat], NEW k \in Names, Use(k)
    PROVE  left' \in [Names -> Nat]
BY DEF Use

LEMMA CommandSpends ==
    ASSUME Command
    PROVE  UNCHANGED left \/ \E k \in Names : Use(k)
<1>1. ASSUME NEW s \in Sessions, NEW p \in Paths, NEW q \in Paths,
             Join(s, p) \/ Leave(s) \/ Rename(s, p, q) \/ Connect(s, p)
      PROVE  \E k \in Names : Use(k)
    BY <1>1 DEF Join, Leave, Rename, Connect, Names
<1>2. ASSUME NEW p \in Paths, Rotate(p) \/ Send(p) \/ SendEnds(p)
      PROVE  UNCHANGED left \/ \E k \in Names : Use(k)
    BY <1>2 DEF Rotate, Send, SendEnds, Names
<1>3. ASSUME NEW f \in Followers, NEW p \in Paths, Arm(f, p) \/ Claim(f, p) \/ Die(f)
      PROVE  \E k \in Names : Use(k)
    BY <1>3 DEF Arm, Claim, Die, Names
<1>4. ASSUME NEW s \in Sessions, \/ HookStarts(s) \/ HookEnds(s) \/ HookLooks(s)
                                 \/ HookReads(s) \/ HookHands(s) \/ HookDies(s)
      PROVE  UNCHANGED left \/ \E k \in Names : Use(k)
    BY <1>4 DEF HookStarts, HookEnds, HookLooks, HookReads, HookHands, HookDies, Names
<1>5. CASE ConAbandons \/ ConDies \/ Reboot
    BY <1>5 DEF ConAbandons, ConDies, Reboot, Names
<1>6. CASE \E s \in Sessions : Leave(s)
    BY <1>6 DEF Leave, Names
<1>7. CASE \E f \in Followers : Die(f)
    BY <1>7 DEF Die, Names
<1> QED
    BY <1>1, <1>2, <1>3, <1>4, <1>5, <1>6, <1>7 DEF Command

LEMMA NextSpends ==
    ASSUME Next
    PROVE  UNCHANGED left \/ \E k \in Names : Use(k)
<1>1. CASE Pass \/ Rearm
    BY <1>1 DEF Pass, ConIdles, ConJournals, ConAccepts, Rearm
<1>2. ASSUME NEW f \in Followers, Step(f)
      PROVE  UNCHANGED left \/ \E k \in Names : Use(k)
    BY <1>2 DEF Step, Open, Seed, Read, Quiet, Check, Save, Poll, Names
<1> QED
    BY <1>1, <1>2, CommandSpends DEF Next

\* What a follower shows, a hook hands over or is killed with, and a connection
\* settles, are messages.
LEMMA ReadTyped ==
    ASSUME IInv, PastTyped, NEW f \in Followers, Read(f)
    PROVE  seen' \cup handed' \cup cut' \cup taken' \subseteq Pairs
<1> DEFINE n == fol[f].ino
           i == Least(LineEnds(n, fol[f].at))
           sid == fol[f].sid
           m == Message(file[n][i])
<1>1. /\ UNCHANGED <<handed, cut, taken>>
      /\ seen' = seen \/ (LineEnds(n, fol[f].at) # {} /\ seen' = seen \cup ({sid} \X {m}))
    BY DEF Read, ReadOnly
<1>2. sid \in Sessions \cup {NoOne} /\ n \in Files
    BY FolIs DEF IInv, ShapeInv, FollowerShape, Running, Read
<1>3. ASSUME LineEnds(n, fol[f].at) # {}
      PROVE  m \in Messages
  <2>1. Lines(file[n]) /\ file[n] \in Seq(1 .. 2 * MaxMail)
      BY <1>2 DEF IInv, FileInv, TypeInv
  <2>2. i \in LineEnds(n, fol[f].at)
      BY <1>3, <2>1, LineEndsAre
  <2>3. i \in 1 .. Len(file[n]) /\ Ends(file[n][i])
      BY <2>2 DEF LineEnds
  <2>4. file[n][i] \in 1 .. 2 * MaxMail /\ MaxMail \in Nat
      BY <2>1, <2>3, FollowerAssumption, ElementOfSeq
  <2> QED
      BY <2>3, <2>4 DEF Ends, Message, Messages
<1> HIDE DEF n, i, sid, m
<1> QED
    BY <1>1, <1>2, <1>3 DEF PastTyped, Pairs

LEMMA HookTyped ==
    ASSUME IInv, PastTyped, NEW s \in Sessions, HookHands(s) \/ HookDies(s)
    PROVE  seen' \cup handed' \cup cut' \cup taken' \subseteq Pairs
<1>1. hook[s].lines \in SUBSET Messages
    BY HookIs DEF IInv
<1>2. {s} \X hook[s].lines \subseteq Pairs
    BY <1>1 DEF Pairs
<1>3. CASE HookHands(s)
    BY <1>2, <1>3 DEF HookHands, HookOnly, PastTyped
<1>4. CASE HookDies(s)
    BY <1>2, <1>4 DEF HookDies, HookOnly, PastTyped
<1> QED
    BY <1>3, <1>4

LEMMA ConTyped ==
    ASSUME IInv, PastTyped, ConAccepts \/ ConAbandons
    PROVE  seen' \cup handed' \cup cut' \cup taken' \subseteq Pairs
<1>1. con.sid \in Sessions \cup {NoOne}
    BY ConIs DEF IInv
<1>2. con.pend.m \in Messages
    BY DEF ConAccepts, ConAbandons, NextLine, Attempt
<1>3. /\ UNCHANGED <<seen, handed, cut>>
      /\ taken' = taken \cup {<<con.sid, con.pend.m>>}
    BY DEF ConAccepts, ConAbandons, ConOnly
<1> QED
    BY <1>1, <1>2, <1>3 DEF PastTyped, Pairs

LEMMA PastKept ==
    ASSUME IInv, PastTyped, [Next]_vars
    PROVE  PastTyped'
<1>1. left' \in [Names -> Nat]
  <2>1. UNCHANGED left \/ \E k \in Names : Use(k)
      BY NextSpends DEF vars
  <2> QED
      BY <2>1, UseTyped DEF PastTyped
<1>2. seen' \cup handed' \cup cut' \cup taken' \subseteq Pairs
  <2>1. ASSUME UNCHANGED <<seen, handed, cut, taken>>
        PROVE  seen' \cup handed' \cup cut' \cup taken' \subseteq Pairs
      BY <2>1 DEF PastTyped
  <2>2. CASE UNCHANGED vars
      BY <2>1, <2>2 DEF vars
  <2>3. CASE \/ \E s \in Sessions, p \in Paths : Join(s, p) \/ Connect(s, p)
             \/ \E s \in Sessions : Leave(s)
             \/ \E s \in Sessions, p, q \in Paths : Rename(s, p, q)
      BY <2>1, <2>3 DEF Join, Connect, Leave, Rename, StoreOnly
  <2>4. CASE \E p \in Paths : Rotate(p) \/ Send(p) \/ SendEnds(p)
      BY <2>1, <2>4 DEF Rotate, Send, SendEnds
  <2>5. CASE \/ \E f \in Followers, p \in Paths : Arm(f, p) \/ Claim(f, p)
             \/ \E f \in Followers : Die(f)
    <3>1. ASSUME NEW f \in Followers, NEW p \in Paths, Arm(f, p)
          PROVE  UNCHANGED <<seen, handed, cut, taken>>
        BY <3>1 DEF Arm, ReadOnly
    <3>2. ASSUME NEW f \in Followers, NEW p \in Paths, Claim(f, p)
          PROVE  UNCHANGED <<seen, handed, cut, taken>>
        BY <3>2 DEF Claim, ReadOnly
    <3>3. ASSUME NEW f \in Followers, Die(f)
          PROVE  UNCHANGED <<seen, handed, cut, taken>>
        BY <3>3 DEF Die, ReadOnly
    <3> QED
        BY <2>1, <2>5, <3>1, <3>2, <3>3
  <2>6. CASE \E s \in Sessions : HookStarts(s) \/ HookEnds(s) \/ HookLooks(s) \/ HookReads(s)
      BY <2>1, <2>6 DEF HookStarts, HookEnds, HookLooks, HookReads, HookOnly
  <2>7. CASE ConDies \/ Reboot \/ ConIdles \/ ConJournals \/ Rearm
      BY <2>1, <2>7 DEF ConDies, Reboot, ConIdles, ConJournals, Rearm, ConOnly
  <2>8. CASE \E f \in Followers : Open(f) \/ Seed(f) \/ Quiet(f) \/ Check(f) \/ Save(f) \/ Poll(f)
      BY <2>1, <2>8 DEF Open, Seed, Quiet, Check, Save, Poll, ReadOnly
  <2>9. CASE \/ \E s \in Sessions : HookHands(s) \/ HookDies(s)
             \/ ConAccepts \/ ConAbandons \/ \E f \in Followers : Read(f)
      BY <2>9, HookTyped, ConTyped, ReadTyped
  <2> QED
      BY <2>2, <2>3, <2>4, <2>5, <2>6, <2>7, <2>8, <2>9, Zenon DEF Next, Command, Pass, Step
<1> QED
    BY <1>1, <1>2 DEF PastTyped

\* Every variable keeps the shape the code gives it, in every behaviour: the
\* registrations with their cursors, the inboxes, the followers, the Stop hooks,
\* the connection, and what was shown, handed over and settled; and a follower
\* never counts more of a line as unread than it read.
THEOREM Types == Spec => []TypeOK
<1>1. Init => PastTyped
    BY FollowerAssumption DEF Init, Start, PastTyped
<1>2. IInv /\ PastTyped /\ [Next]_vars => PastTyped'
    BY PastKept
<1>3. IInv /\ PastTyped => TypeOK
  <2> SUFFICES ASSUME IInv, PastTyped
               PROVE  TypeOK
      OBVIOUS
  <2>1. TypeInv /\ \A f \in Followers : fol[f].pend <= fol[f].at
      BY DEF IInv, ShapeInv, FollowerShape
  <2> QED
      BY <2>1 DEF TypeOK, TypeInv, PastTyped, Pairs
<1> QED
    BY <1>1, <1>2, <1>3, Inductive, PTL DEF Spec

\* The cursor of a follower counts only what a follower showed, that of a Stop
\* hook what a hook handed over, holds, or was killed with before it handed it
\* over, and the offset of the connection what it settled: for any number of followers that are displaced between check and
\* write, of hooks, joins, leaves, renames, replaced files, reboots and backups.
THEOREM NoMailIsSkipped == Spec => []NothingIsSkipped
<1>1. IInv => NothingIsSkipped
  <2> SUFFICES ASSUME IInv
               PROVE  NothingIsSkipped
      OBVIOUS
  <2>0. TypeInv /\ ShapeInv /\ DirInv /\ FileInv /\ CursorInv /\ StopInv /\ OffsetInv
      BY DEF IInv
  <2>1. ASSUME NEW p \in Paths, Untouched(p)
        PROVE  Clean(dir[p]) /\ dir[p] # Vacant
      BY <2>1 DEF Untouched, Present, Clean
  <2>2. CursorCountsShown
    <3> SUFFICES ASSUME NEW p \in Paths, Untouched(p), Counts(dir[p].cursor, p),
                        NEW m \in Complete(dir[p].ino, dir[p].cursor.at) \ Begun(dir[p].ino, dir[p].skipped)
                 PROVE  <<dir[p].sid, m>> \in seen
        BY DEF CursorCountsShown
    <3> DEFINE l == file[dir[p].ino]
    <3>1. Settled(l, dir[p], seen, dir[p].cursor.at)
        BY <2>0, <2>1 DEF CursorInv, CursorFits, Counts
    <3>2. m \in Ended(l, dir[p].cursor.at) \ Started(l, dir[p].skipped)
        BY CompleteIs
    <3> QED
        BY <3>1, <3>2 DEF Settled
  <2>3. StopCountsHanded
    <3> SUFFICES ASSUME NEW p \in Paths, Untouched(p), Counts(dir[p].stop, p),
                        NEW m \in Complete(dir[p].ino, dir[p].stop.at)
                 PROVE  <<dir[p].sid, m>> \in Dealt
        BY DEF StopCountsHanded, Dealt
    <3> DEFINE l == file[dir[p].ino]
    <3>1. Passed(l, dir[p].sid, Dealt, dir[p].stop.at)
        BY <2>0, <2>1 DEF StopInv, StopFits, Counts
    <3>2. m \in Ended(l, dir[p].stop.at)
        BY CompleteIs
    <3> QED
        BY <3>1, <3>2 DEF Passed
  <2>4. OffsetCountsTaken
    <3> SUFFICES ASSUME Owned, EpochDecision(con.at), ~dir[con.path].again, NEW m \in Complete(con.ino, con.at)
                 PROVE  <<con.sid, m>> \in taken
        BY DEF OffsetCountsTaken
    <3>1. Passed(Inbox, con.sid, taken, con.at)
        BY <2>0, OffsetCounts
    <3>2. m \in Ended(Inbox, con.at)
        BY CompleteIs DEF EpochDecision, Inbox
    <3> QED
        BY <3>1, <3>2 DEF Passed
  <2> QED
      BY <2>2, <2>3, <2>4 DEF NothingIsSkipped
<1> QED
    BY <1>1, Inductive, PTL

\* A follower shows, and a connection settles, only mail that was sent to the
\* session it was made for, whoever takes the alias over meanwhile and whatever
\* file stands at it.
THEOREM MailIsItsOwn == Spec => []OwnMailOnly
<1>1. IInv => OwnMailOnly
    BY DEF IInv, OwnInv
<1> QED
    BY <1>1, Inductive, PTL

=============================================================================
