--------------------------- MODULE RegistryProofs ---------------------------
(***************************************************************************)
(* Proofs about Registry.  A directory that names a connection is that     *)
(* connection's alone, its cursor is no further than what was handed over, *)
(* and what an earlier collection exported is still in the directory or    *)
(* was handed over.  The daemon's step in between finds the directory as   *)
(* it left it, because every command needs the lock it holds.              *)
(***************************************************************************)
EXTENDS Registry, TLAPS

(* ------------------------------------------------------------ invariant -- *)

\* A command that waits for a lock knows whose.
Ops == {o \in [pc : {"idle", "join", "leave", "rename", "prune"},
               s : Sessions \cup {Reserved}, a : Aliases \cup {0}, b : Aliases \cup {0}] :
           /\ o.pc \in {"leave", "rename", "prune"} => o.a \in Aliases
           /\ o.pc = "rename" => o.b \in Aliases}

Typed == TypeOK /\ mails \in 0 .. MaxMail /\ op \in Ops

Gone == got \cup dropped
Mail(a) == Range(dir[a].mail)

\* What the directory of a connection says of the connection.
Manages(a, c) ==
    /\ rec[c].state # "none" /\ rec[c].alias = a /\ rec[c].sid = dir[a].sid
    /\ rec[c].seen <= Len(dir[a].mail)
    /\ \A i \in 1 .. rec[c].seen : dir[a].mail[i] \in got
    /\ Range(unread[c]) \subseteq Gone \cup Mail(a)

DirFine(a) ==
    /\ Len(dir[a].mail) \in 0 .. mails
    /\ dir[a].kind = "absent" => dir[a].mail = <<>>
    /\ dir[a].conn # 0 => dir[a].kind = "peer" /\ Manages(a, dir[a].conn)
DirsFine == \A a \in Aliases : DirFine(a)

\* A connection without a record has exported nothing.
RecordsFine ==
    \A c \in Conns : /\ rec[c].state = "none" => unread[c] = <<>>
                     /\ rec[c].state # "none" => rec[c].alias \in Aliases

\* Where the daemon is between two writes, under the peer lock.
Unclaimed(a) == dir[a].conn = 0 /\ (dir[a].kind = "bare" \/ Placeholder(a))
DaemonFits ==
    LET c == daemon.c  a == daemon.a IN
    /\ daemon.pc # "idle" => c \in Conns
    /\ daemon.pc \in {"made", "saved"} => a \in Aliases /\ Unclaimed(a)
    /\ daemon.pc = "made" => rec[c].state = "none"
    /\ daemon.pc \in {"exported", "moved"} => rec[c].state # "none" /\ rec[c].alias = a
    /\ daemon.pc = "saved" =>
          /\ rec[c].state # "none" /\ rec[c].alias = a /\ rec[c].sid = daemon.s
          /\ rec[c].seen = 0 /\ unread[c] = <<>>
    /\ daemon.pc = "exported" =>
          a \in Aliases /\ dir[a].conn = c /\ Mail(a) \subseteq Gone \cup Range(unread[c])

IInv == Typed /\ DirsFine /\ RecordsFine /\ DaemonFits /\ MailAccounted
(* ------------------------------------------------------------- sequences -- *)

LEMMA Appended ==
    ASSUME NEW S, NEW s \in Seq(S), NEW x \in S
    PROVE  /\ Append(s, x) \in Seq(S)
           /\ Len(s) \in Nat /\ Len(Append(s, x)) = Len(s) + 1
           /\ \A i \in 1 .. Len(s) : Append(s, x)[i] = s[i]
           /\ Range(Append(s, x)) = Range(s) \cup {x}
<1>1. \A i \in 1 .. Len(s) : Append(s, x)[i] = s[i]
  OBVIOUS
<1>2. Append(s, x)[Len(s) + 1] = x
  OBVIOUS
<1>3. /\ DOMAIN Append(s, x) = 1 .. Len(s) + 1 /\ Len(Append(s, x)) = Len(s) + 1
      /\ DOMAIN s = 1 .. Len(s) /\ Len(s) \in Nat /\ Append(s, x) \in Seq(S)
  OBVIOUS
<1>4. Range(Append(s, x)) = Range(s) \cup {x}
  BY <1>1, <1>2, <1>3 DEF Range
<1> QED BY <1>1, <1>3, <1>4

\* What follows a prefix: nothing new, and with the prefix everything.
LEMMA Suffix ==
    ASSUME NEW S, NEW s \in Seq(S), NEW m \in Nat, m <= Len(s)
    PROVE  /\ SubSeq(s, m + 1, Len(s)) \in Seq(S)
           /\ Range(SubSeq(s, m + 1, Len(s))) \subseteq Range(s)
           /\ \A i \in 1 .. Len(s) : i <= m \/ s[i] \in Range(SubSeq(s, m + 1, Len(s)))
<1> DEFINE t == SubSeq(s, m + 1, Len(s))
<1>1. t \in Seq(S) /\ Len(t) = Len(s) - m /\ \A i \in 1 .. Len(s) - m : t[i] = s[i + m]
  OBVIOUS
<1>2. DOMAIN t = 1 .. Len(t) /\ DOMAIN s = 1 .. Len(s)
  OBVIOUS
<1> HIDE DEF t
<1>3. ASSUME NEW i \in 1 .. Len(s), ~(i <= m) PROVE s[i] \in Range(t)
  <2>1. i - m \in DOMAIN t /\ t[i - m] = s[i]
    BY <1>1, <1>2, <1>3
  <2> QED BY <2>1 DEF Range
<1>4. ASSUME NEW i \in DOMAIN t PROVE t[i] \in Range(s)
  <2>1. i + m \in DOMAIN s /\ t[i] = s[i + m]
    BY <1>1, <1>2
  <2> QED BY <2>1 DEF Range
<1>5. Range(t) \subseteq Range(s)
  BY <1>4 DEF Range
<1> QED BY <1>1, <1>3, <1>5 DEF t

(* ----------------------------------------------------------------- types -- *)

LEMMA ConstantsFit ==
    /\ Aliases \subseteq Nat /\ 0 \notin Aliases
    /\ MaxMail \in Nat /\ MaxConns \in Nat /\ Conns \subseteq Nat /\ 0 \notin Conns
    /\ 0 .. MaxConns = Conns \cup {0}
BY RegistryAssumption DEF Conns

\* A directory is one of four shapes; the rest of a proof only needs its fields.
LEMMA Shapes ==
    ASSUME NEW s \in Sessions \cup {Reserved}
    PROVE  /\ Absent \in Directory /\ Bare \in Directory /\ Peer(s) \in Directory
           /\ Absent.kind = "absent" /\ Absent.conn = 0 /\ Absent.mail = <<>>
           /\ Bare.kind = "bare" /\ Bare.conn = 0 /\ Bare.mail = <<>>
           /\ Bare.sid = Reserved
           /\ Peer(s).kind = "peer" /\ Peer(s).conn = 0 /\ Peer(s).mail = <<>>
           /\ Peer(s).sid = s
<1>1. 0 \in 0 .. MaxConns /\ <<>> \in Seq(1 .. MaxMail)
  BY RegistryAssumption
<1> QED BY <1>1 DEF Absent, Bare, Peer, Directory, Listeners

LEMMA NothingIn == Range(<<>>) = {}
BY DEF Range

\* The fields of what the invariant types.
LEMMA Fields ==
    ASSUME Typed
    PROVE  /\ \A a \in Aliases :
                /\ dir[a].kind \in {"absent", "bare", "peer"}
                /\ dir[a].sid \in Sessions \cup {Reserved}
                /\ dir[a].conn \in Conns \cup {0}
                /\ dir[a].listener \in Listeners
                /\ dir[a].mail \in Seq(1 .. MaxMail)
           /\ \A c \in Conns :
                /\ rec[c].state \in {"none", "ready", "disconnected", "detached", "archived"}
                /\ rec[c].alias \in Aliases \cup {0}
                /\ rec[c].sid \in Sessions \cup {Reserved}
                /\ rec[c].seen \in Nat
                /\ unread[c] \in Seq(1 .. MaxMail)
<1> DEFINE M == Seq(1 .. MaxMail)
<1>1. \A a \in Aliases : dir[a] \in Directory
  BY DEF Typed, TypeOK
<1>2. \A c \in Conns : rec[c] \in Record /\ unread[c] \in M
  BY DEF Typed, TypeOK
<1>3. \A d \in Directory :
         /\ d.kind \in {"absent", "bare", "peer"} /\ d.sid \in Sessions \cup {Reserved}
         /\ d.conn \in 0 .. MaxConns /\ d.listener \in Listeners /\ d.mail \in M
  <2> HIDE DEF M
  <2> QED BY DEF Directory, M
<1>4. \A r \in Record :
         /\ r.state \in {"none", "ready", "disconnected", "detached", "archived"}
         /\ r.alias \in Aliases \cup {0} /\ r.sid \in Sessions \cup {Reserved}
         /\ r.seen \in Nat
  BY RegistryAssumption DEF Record
<1> QED BY <1>1, <1>2, <1>3, <1>4, ConstantsFit

\* A directory made from another's fields.
LEMMA Directories ==
    ASSUME NEW d \in Directory, NEW l \in Listeners, NEW m \in Seq(1 .. MaxMail)
    PROVE  /\ [d EXCEPT !.listener = l] \in Directory
           /\ [d EXCEPT !.mail = m] \in Directory
<1> DEFINE M == Seq(1 .. MaxMail)
<1>1. m \in M
  OBVIOUS
<1>2. Directory = [kind : {"absent", "bare", "peer"}, sid : Sessions \cup {Reserved},
                   conn : 0 .. MaxConns, listener : Listeners, mail : M]
  BY DEF Directory
<1> HIDE DEF M
<1> QED BY <1>1, <1>2
(* ------------------------------------------------------- what steps keep -- *)

\* The directory keeps all but its listener, and the ghosts only grow.
SameDir(a) ==
    /\ dir'[a].kind = dir[a].kind /\ dir'[a].sid = dir[a].sid
    /\ dir'[a].conn = dir[a].conn /\ dir'[a].mail = dir[a].mail
SameConn(c) ==
    /\ rec'[c].state # "none" <=> rec[c].state # "none"
    /\ rec'[c].alias = rec[c].alias /\ rec'[c].sid = rec[c].sid
    /\ rec'[c].seen = rec[c].seen /\ unread'[c] = unread[c]
Grows == got \subseteq got' /\ dropped \subseteq dropped' /\ 0 .. mails \subseteq 0 .. mails'

LEMMA DirStays ==
    ASSUME NEW a \in Aliases, DirFine(a), SameDir(a), Grows,
           dir[a].conn # 0 => SameConn(dir[a].conn)
    PROVE  DirFine(a)'
<1>1. dir[a].kind = "absent" => dir[a].mail = <<>>
  BY DEF DirFine
<1>2. (dir[a].kind = "absent" => dir[a].mail = <<>>)'
  BY <1>1 DEF SameDir
<1>5. (Len(dir[a].mail) \in 0 .. mails)'
  BY DEF DirFine, SameDir, Grows
<1>3. ASSUME NEW c, c = dir[a].conn, c # 0 PROVE Manages(a, c)'
  <2>1. Manages(a, c) /\ SameConn(c)
    BY <1>3 DEF DirFine
  <2>2. (Gone \cup Mail(a)) \subseteq (Gone \cup Mail(a))'
    BY DEF Gone, Mail, SameDir, Grows
  <2> QED BY <2>1, <2>2 DEF Manages, SameDir, SameConn, Grows
<1>4. dir[a].conn # 0 => dir[a].kind = "peer"
  BY DEF DirFine
<1> QED BY <1>2, <1>3, <1>4, <1>5 DEF DirFine, SameDir

\* A step of another actor leaves the daemon's between two writes as it was.
LEMMA DaemonStays ==
    ASSUME DaemonFits, daemon' = daemon, Grows,
           daemon.pc # "idle" /\ daemon.a \in Aliases => SameDir(daemon.a),
           daemon.pc # "idle" => SameConn(daemon.c)
    PROVE  DaemonFits'
<1> DEFINE c == daemon.c
           a == daemon.a
<1>1. daemon.pc # "idle" => c \in Conns
  BY DEF DaemonFits
<1>2. ASSUME daemon.pc \in {"made", "saved"} PROVE a \in Aliases /\ Unclaimed(a)'
  <2>1. a \in Aliases /\ Unclaimed(a) /\ SameDir(a)
    BY <1>2 DEF DaemonFits
  <2> QED BY <2>1 DEF Unclaimed, Placeholder, IsPeer, SameDir
<1>3. ASSUME daemon.pc = "made" PROVE rec'[c].state = "none"
  BY <1>3 DEF DaemonFits, SameConn
<1>4. ASSUME daemon.pc = "saved"
      PROVE  /\ rec'[c].state # "none" /\ rec'[c].alias = a /\ rec'[c].sid = daemon.s
             /\ rec'[c].seen = 0 /\ unread'[c] = <<>>
  BY <1>4 DEF DaemonFits, SameConn
<1>5. ASSUME daemon.pc = "exported"
      PROVE  a \in Aliases /\ dir'[a].conn = c
             /\ (Mail(a) \subseteq Gone \cup Range(unread[c]))'
  <2>1. /\ a \in Aliases /\ dir[a].conn = c /\ Mail(a) \subseteq Gone \cup Range(unread[c])
        /\ SameDir(a) /\ SameConn(c)
    BY <1>5 DEF DaemonFits
  <2> QED BY <2>1 DEF SameDir, SameConn, Gone, Mail, Grows
<1>6. ASSUME daemon.pc \in {"exported", "moved"}
      PROVE  rec'[c].state # "none" /\ rec'[c].alias = a
  BY <1>6 DEF DaemonFits, SameConn
<1> QED BY <1>1, <1>2, <1>3, <1>4, <1>5, <1>6
         DEF DaemonFits, Unclaimed, Placeholder, IsPeer, Gone, Mail

\* Where an accepted message may be.
Held(m) ==
    \/ m \in got \/ m \in dropped
    \/ \E a \in Aliases : m \in Mail(a)
    \/ \E c \in Conns : m \in Range(unread[c])

LEMMA Accounted ==
    /\ MailAccounted => \A m \in 1 .. mails : Held(m)
    /\ (\A m \in 1 .. mails' : Held(m)') => MailAccounted'
<1>1. ASSUME MailAccounted, NEW m \in 1 .. mails PROVE Held(m)
  BY <1>1 DEF MailAccounted, Held, Mail
<1>2. ASSUME NEW m, Held(m)'
      PROVE  m \in got' \cup dropped' \cup (UNION {Range(dir'[a].mail) : a \in Aliases})
                   \cup (UNION {Range(unread'[c]) : c \in Conns})
  BY <1>2 DEF Held, Mail
<1>3. ASSUME \A m \in 1 .. mails' : Held(m)' PROVE MailAccounted'
  BY <1>2, <1>3, Zenon DEF MailAccounted
<1> QED BY <1>1, <1>3

LEMMA MailStays ==
    ASSUME MailAccounted, mails' = mails, Grows,
           \A a \in Aliases : \A m \in Mail(a) : Held(m)',
           \A c \in Conns : \A m \in Range(unread[c]) : Held(m)'
    PROVE  MailAccounted'
<1>1. ASSUME NEW m, m \in got \cup dropped PROVE Held(m)'
  BY <1>1 DEF Grows, Held
<1>2. ASSUME NEW m, Held(m) PROVE Held(m)'
  BY <1>1, <1>2 DEF Held
<1> QED BY <1>2, Accounted

(* ---------------------------------------------------------------- commands - *)

Daemons == [pc : {"idle", "made", "saved", "exported", "moved"}, c : Conns \cup {0},
            a : Aliases \cup {0}, s : Sessions \cup {Reserved}]

LEMMA Start ==
    NoOp \in Ops /\ Idle \in Daemons /\ NoRec \in Record
<1>1. NoOp \in Ops
  BY DEF NoOp, Ops
<1>2. Idle \in Daemons
  BY DEF Idle, Daemons
<1>3. NoRec \in Record
  BY RegistryAssumption DEF NoRec, Record
<1> QED BY <1>1, <1>2, <1>3

\* Directories that a command writes under their locks belong to no connection.
Blank(D, d) ==
    /\ D \subseteq Aliases /\ \A a \in D : LockFree(a)
    /\ \A a \in D : /\ d[a] \in Directory /\ d[a].conn = 0
                    /\ Len(d[a].mail) \in 0 .. mails
                    /\ d[a].kind = "absent" => d[a].mail = <<>>

LEMMA EmptyIsShort ==
    ASSUME IInv PROVE Len(<<>>) \in 0 .. mails
BY DEF IInv, Typed

LEMMA CommandWrites ==
    ASSUME IInv, CommandOnly, op' \in Ops, NEW D, NEW d, D = DOMAIN d, Blank(D, d), Writes(d)
    PROVE  IInv'
<1>1. /\ rec' = rec /\ unread' = unread /\ daemon' = daemon /\ mails' = mails /\ got' = got
  BY DEF CommandOnly
<1>2. /\ dir' = [a \in Aliases |-> IF a \in D THEN d[a] ELSE dir[a]]
      /\ dropped' = dropped \cup ((UNION {Range(dir[a].mail) : a \in D})
                                      \ (UNION {Range(d[a].mail) : a \in D}))
  BY DEF Writes
<1>3. /\ \A a \in D : a \in Aliases /\ dir'[a] = d[a]
      /\ \A a \in Aliases \ D : dir'[a] = dir[a] /\ SameDir(a)
  BY <1>2 DEF Blank, SameDir
<1>4. Grows /\ \A c : SameConn(c)
  BY <1>1, <1>2 DEF Grows, SameConn
<1>5. Typed'
  <2>1. dir' \in [Aliases -> Directory]
    BY <1>2 DEF Blank, IInv, Typed, TypeOK
  <2> QED BY <1>1, <2>1 DEF IInv, Typed, TypeOK, Ops
<1>6. ASSUME NEW a \in Aliases PROVE DirFine(a)'
  <2>1. CASE a \in D
    BY <1>1, <1>3, <2>1 DEF Blank, DirFine
  <2>2. CASE a \notin D
    BY <1>3, <1>4, <2>2, DirStays DEF IInv, DirsFine
  <2> QED BY <2>1, <2>2
<1>7. RecordsFine'
  BY <1>1 DEF IInv, RecordsFine
<1>8. DaemonFits'
  <2>1. daemon.pc # "idle" => daemon.a \notin D
    BY DEF Blank, LockFree
  <2> QED BY <1>1, <1>3, <1>4, <2>1, DaemonStays DEF IInv
<1>9. MailAccounted'
  <2>1. ASSUME NEW a \in Aliases, NEW m \in Mail(a) PROVE Held(m)'
    <3>1. CASE a \notin D
      BY <1>3, <3>1 DEF Held, Mail
    <3>2. CASE a \in D
      <4>1. m \in dropped' \/ \E x \in D : m \in Range(d[x].mail)
        BY <1>2, <3>2 DEF Mail
      <4>2. \A x \in D : x \in Aliases /\ Mail(x)' = Range(d[x].mail)
        BY <1>3 DEF Mail
      <4> QED BY <4>1, <4>2 DEF Held
    <3> QED BY <3>1, <3>2
  <2>2. ASSUME NEW c \in Conns, NEW m \in Range(unread[c]) PROVE Held(m)'
    BY <1>1 DEF Held
  <2> QED BY <1>1, <1>4, <2>1, <2>2, MailStays DEF IInv
<1> QED BY <1>5, <1>6, <1>7, <1>8, <1>9 DEF IInv, DirsFine

LEMMA RemovingKeeps ==
    ASSUME IInv, CommandOnly, op' \in Ops, NEW A \in SUBSET Aliases,
           \A a \in A : LockFree(a), Removes(A)
    PROVE  IInv'
<1> DEFINE d == [a \in A |-> Absent]
<1>1. Reserved \in Sessions \cup {Reserved}
  OBVIOUS
<1>2. A = DOMAIN d /\ \A a \in A : d[a] = Absent
  OBVIOUS
<1>3. Blank(A, d)
  BY <1>1, <1>2, Shapes, EmptyIsShort DEF Blank
<1>4. Writes(d)
  BY DEF Removes
<1> HIDE DEF d
<1> QED BY <1>2, <1>3, <1>4, CommandWrites

LEMMA PuttingKeeps ==
    ASSUME IInv, CommandOnly, op' \in Ops, NEW a \in Aliases, LockFree(a),
           NEW x \in Directory, x.conn = 0, x.kind # "absent", x.mail = <<>>, Puts(a, x)
    PROVE  IInv'
<1> DEFINE d == [b \in {a} |-> x]
<1>1. {a} = DOMAIN d /\ d[a] = x
  OBVIOUS
<1>2. Blank({a}, d)
  BY <1>1, EmptyIsShort DEF Blank
<1>3. Writes(d)
  BY DEF Puts
<1> HIDE DEF d
<1> QED BY <1>1, <1>2, <1>3, CommandWrites

\* A step that only moves between a command's reading and its lock.
LEMMA WaitingKeeps ==
    ASSUME IInv, CommandOnly, op' \in Ops, Keep
    PROVE  IInv'
<1>1. /\ rec' = rec /\ unread' = unread /\ daemon' = daemon /\ mails' = mails /\ got' = got
      /\ dir' = dir /\ dropped' = dropped
  BY DEF CommandOnly, Keep
<1>2. Grows /\ (\A c : SameConn(c)) /\ \A a : SameDir(a)
  BY <1>1 DEF Grows, SameConn, SameDir
<1>3. Typed'
  BY <1>1 DEF IInv, Typed, TypeOK, Ops
<1>4. DirsFine'
  BY <1>2, DirStays DEF IInv, DirsFine
<1>5. DaemonFits'
  BY <1>1, <1>2, DaemonStays DEF IInv
<1>6. RecordsFine' /\ MailAccounted'
  BY <1>1 DEF IInv, RecordsFine, MailAccounted
<1> QED BY <1>3, <1>4, <1>5, <1>6 DEF IInv
LEMMA JoinStartsKeeps ==
    ASSUME IInv, NEW s \in Sessions, NEW a \in Aliases \cup {AnyName}, JoinStarts(s, a)
    PROVE  IInv'
<1>1. op' \in Ops
  <2>1. op' = NoOp \/ op' = [NoOp EXCEPT !.pc = "join", !.s = s, !.a = a]
    BY DEF JoinStarts
  <2> QED BY <2>1, Start DEF Ops, NoOp, AnyName
<1>2. \A x \in Prunable : LockFree(x)
  BY DEF Prunable
<1>3. Prunable \in SUBSET Aliases
  BY DEF Prunable
<1> QED BY <1>1, <1>2, <1>3, RemovingKeeps DEF JoinStarts

\* What a command that is under way was given.
LEMMA UnderWay ==
    ASSUME IInv
    PROVE  op \in Ops /\ op.s \in Sessions \cup {Reserved} /\ op.a \in Aliases \cup {0}
           /\ op.b \in Aliases \cup {0}
BY DEF IInv, Typed, TypeOK, Ops

LEMMA JoinClaimsKeeps ==
    ASSUME IInv, JoinClaims
    PROVE  IInv'
<1>1. op' = NoOp /\ CommandOnly /\ op' \in Ops
  BY Start DEF JoinClaims
<1>2. PICK a \in Aliases :
         /\ LockFree(a)
         /\ \/ Reclaimable(a) /\ Puts(a, Peer(op.s))
            \/ Reclaimable(a) /\ Puts(a, Bare)
            \/ ~Reclaimable(a) /\ Keep
  BY DEF JoinClaims
<1>3. CASE Puts(a, Peer(op.s))
  BY <1>1, <1>2, <1>3, UnderWay, Shapes, PuttingKeeps
<1>4. CASE Puts(a, Bare)
  <2>1. Reserved \in Sessions \cup {Reserved}
    OBVIOUS
  <2> QED BY <1>1, <1>2, <1>4, <2>1, Shapes, PuttingKeeps
<1>5. CASE Keep
  BY <1>1, <1>5, WaitingKeeps
<1> QED BY <1>2, <1>3, <1>4, <1>5

LEMMA ReserveKeeps ==
    ASSUME IInv, NEW s \in Sessions, NEW a \in Aliases, Reserve(s, a)
    PROVE  IInv'
<1>1. Reserved \in Sessions \cup {Reserved}
  OBVIOUS
<1>2. op' = op /\ LockFree(a) /\ Puts(a, Peer(Reserved)) /\ CommandOnly
  BY DEF Reserve
<1> QED BY <1>1, <1>2, UnderWay, Shapes, PuttingKeeps

LEMMA UnreserveKeeps ==
    ASSUME IInv, NEW a \in Aliases, Unreserve(a) \/ Unregister(a)
    PROVE  IInv'
<1>1. op' = op /\ LockFree(a) /\ Removes({a}) /\ CommandOnly
  BY DEF Unreserve, Unregister
<1> QED BY <1>1, UnderWay, RemovingKeeps

LEMMA BeginsKeeps ==
    ASSUME IInv, NEW s \in Sessions, NEW a \in Aliases, NEW b \in Aliases, Begins(s, a, b)
    PROVE  IInv'
<1>1. op' \in Ops /\ CommandOnly /\ Keep
  BY DEF Begins, Ops
<1> QED BY <1>1, WaitingKeeps

LEMMA PruneSeesKeeps ==
    ASSUME IInv, NEW a \in Aliases, PruneSees(a)
    PROVE  IInv'
<1>1. op' \in Ops /\ CommandOnly /\ Keep
  BY Start DEF PruneSees, Ops, NoOp
<1> QED BY <1>1, WaitingKeeps

LEMMA LeaveRemovesKeeps ==
    ASSUME IInv, LeaveRemoves
    PROVE  IInv'
<1>1. op' \in Ops /\ CommandOnly /\ LockFree(op.a)
  BY Start DEF LeaveRemoves
<1>2. PICK exits \in BOOLEAN :
         Removes({a \in Mine(op.s) \cap {op.a} : ~(exits /\ Managed(a))})
  BY DEF LeaveRemoves
<1> DEFINE A == {a \in Mine(op.s) \cap {op.a} : ~(exits /\ Managed(a))}
<1>3. A \in SUBSET Aliases /\ \A a \in A : LockFree(a)
  BY <1>1 DEF Mine
<1> QED BY <1>1, <1>2, <1>3, RemovingKeeps

LEMMA PruneReapsKeeps ==
    ASSUME IInv, PruneReaps
    PROVE  IInv'
<1>1. op' \in Ops /\ CommandOnly /\ LockFree(op.a)
      /\ Removes(IF Dead(op.a) THEN {op.a} ELSE {})
  BY Start DEF PruneReaps
<1>2. op.a \in Aliases
  BY DEF PruneReaps, IInv, Typed, Ops
<1> QED BY <1>1, <1>2, RemovingKeeps
LEMMA RenameMovesKeeps ==
    ASSUME IInv, RenameMoves
    PROVE  IInv'
<1> DEFINE a == op.a
           b == op.b
           moved == [dir[a] EXCEPT !.listener = IF @ = "alive" THEN "gone" ELSE @]
           d == [x \in {a, b} |-> IF x = a THEN Absent ELSE moved]
<1>1. /\ op' \in Ops /\ CommandOnly /\ op.pc = "rename" /\ LockFree(a) /\ LockFree(b)
      /\ \/ ~Managed(a) /\ a \in Mine(op.s) /\ Writes(d)
         \/ Keep
  BY Start DEF RenameMoves
<1>2. a \in Aliases /\ b \in Aliases
  BY <1>1 DEF IInv, Typed, Ops
<1>3. CASE Keep
  BY <1>1, <1>3, WaitingKeeps
<1>4. CASE ~Managed(a) /\ a \in Mine(op.s) /\ Writes(d)
  <2>1. dir[a] \in Directory /\ dir[a].listener \in Listeners
    BY <1>2, Fields DEF IInv, Typed, TypeOK
  <2>2. (IF dir[a].listener = "alive" THEN "gone" ELSE dir[a].listener) \in Listeners
    BY <2>1 DEF Listeners
  <2>3. moved \in Directory
    <3>1. ASSUME NEW m \in Seq(1 .. MaxMail) PROVE moved \in Directory
      BY <2>1, <2>2, Directories
    <3>2. <<>> \in Seq(1 .. MaxMail)
      OBVIOUS
    <3> QED BY <3>1, <3>2
  <2>4. /\ moved.conn = dir[a].conn /\ moved.kind = dir[a].kind
        /\ Len(moved.mail) \in 0 .. mails
    BY <1>2, <2>1 DEF Directory, IInv, DirsFine, DirFine
  <2>5. dir[a].conn = 0 /\ dir[a].kind = "peer"
    BY <1>4 DEF Managed, Mine, IsPeer
  <2>6. {a, b} = DOMAIN d /\ \A x \in {a, b} : d[x] = Absent \/ d[x] = moved
    OBVIOUS
  <2> HIDE DEF moved, d
  <2>7. Reserved \in Sessions \cup {Reserved}
    OBVIOUS
  <2>8. Blank({a, b}, d)
    BY <1>1, <1>2, <2>3, <2>4, <2>5, <2>6, <2>7, Shapes, EmptyIsShort DEF Blank
  <2> QED BY <1>1, <1>4, <2>6, <2>8, CommandWrites
<1> QED BY <1>1, <1>3, <1>4

LEMMA ListenersKeep ==
    ASSUME IInv, NEW a \in Aliases, Arm(a) \/ Ages(a)
    PROVE  IInv'
<1>1. /\ rec' = rec /\ unread' = unread /\ daemon' = daemon /\ mails' = mails /\ got' = got
      /\ op' = op /\ dropped' = dropped
  BY DEF Arm, Ages, CommandOnly
<1>2. PICK l \in Listeners : dir' = [dir EXCEPT ![a].listener = l]
  <2>1. CASE Arm(a)
    BY <2>1 DEF Arm, Listeners
  <2>2. CASE Ages(a)
    BY <2>2 DEF Ages, Listeners
  <2> QED BY <2>1, <2>2
<1>3. dir \in [Aliases -> Directory]
  BY DEF IInv, Typed, TypeOK
<1>4. \A x \in Aliases : dir[x] \in Directory
  BY <1>3
<1>5. [dir[a] EXCEPT !.listener = l] \in Directory
  <2>1. <<>> \in Seq(1 .. MaxMail)
    OBVIOUS
  <2> QED BY <1>4, <2>1, Directories
<1>6. dir' = [dir EXCEPT ![a] = [dir[a] EXCEPT !.listener = l]]
  BY <1>2
<1>7. dir' \in [Aliases -> Directory]
  BY <1>3, <1>5, <1>6
<1>8. ASSUME NEW x \in Aliases PROVE SameDir(x)
  BY <1>3, <1>4, <1>6 DEF SameDir, Directory
<1>9. Grows /\ \A c : SameConn(c)
  BY <1>1 DEF Grows, SameConn
<1>10. Typed'
  BY <1>1, <1>7 DEF IInv, Typed, TypeOK
<1>11. DirsFine'
  BY <1>8, <1>9, DirStays DEF IInv, DirsFine
<1>12. DaemonFits'
  BY <1>1, <1>8, <1>9, DaemonStays DEF IInv
<1>13. RecordsFine'
  BY <1>1 DEF IInv, RecordsFine
<1>14. MailAccounted'
  <2>1. ASSUME NEW x \in Aliases, NEW m \in Mail(x) PROVE Held(m)'
    BY <1>8 DEF Held, Mail, SameDir
  <2>2. ASSUME NEW c \in Conns, NEW m \in Range(unread[c]) PROVE Held(m)'
    BY <1>1 DEF Held
  <2> QED BY <1>1, <1>9, <2>1, <2>2, MailStays DEF IInv
<1> QED BY <1>10, <1>11, <1>12, <1>13, <1>14 DEF IInv
LEMMA SendKeeps ==
    ASSUME IInv, NEW a \in Aliases, Send(a)
    PROVE  IInv'
<1> SUFFICES ASSUME NEW n, n = mails + 1, NEW s, s = dir[a].mail
             PROVE  IInv'
  OBVIOUS
<1> DEFINE t == Append(s, n)
<1>1. /\ rec' = rec /\ unread' = unread /\ daemon' = daemon /\ got' = got /\ op' = op
      /\ dropped' = dropped /\ mails' = n /\ mails < MaxMail
      /\ IsPeer(a) /\ LockFree(a) /\ dir' = [dir EXCEPT ![a].mail = t]
  BY DEF Send
<1>2. dir \in [Aliases -> Directory] /\ mails \in 0 .. MaxMail
  BY DEF IInv, Typed, TypeOK
<1>3. \A x \in Aliases : dir[x] \in Directory
  BY <1>2
<1>4. n \in 1 .. MaxMail /\ s \in Seq(1 .. MaxMail)
  BY <1>1, <1>2, ConstantsFit, Fields DEF IInv
<1>5. /\ t \in Seq(1 .. MaxMail) /\ Len(t) = Len(s) + 1 /\ Len(s) \in Nat
      /\ \A i \in 1 .. Len(s) : t[i] = s[i]
      /\ Range(t) = Range(s) \cup {n}
  <2> DEFINE N == 1 .. MaxMail
  <2>1. s \in Seq(N) /\ n \in N
    BY <1>4
  <2> HIDE DEF N
  <2>2. /\ Append(s, n) \in Seq(N) /\ Len(Append(s, n)) = Len(s) + 1 /\ Len(s) \in Nat
        /\ \A i \in 1 .. Len(s) : Append(s, n)[i] = s[i]
        /\ Range(Append(s, n)) = Range(s) \cup {n}
    BY <2>1, Appended
  <2> QED BY <2>2, Zenon DEF N
<1>6. Range(t) = Range(s) \cup {n}
  BY <1>5, Zenon
<1>7. [dir[a] EXCEPT !.mail = t] \in Directory
  <2>1. "never" \in Listeners
    BY DEF Listeners
  <2> QED BY <1>3, <1>5, <2>1, Directories
<1> HIDE DEF t
<1>8. dir' = [dir EXCEPT ![a] = [dir[a] EXCEPT !.mail = t]]
  BY <1>1
<1>9. dir' \in [Aliases -> Directory]
  BY <1>2, <1>7, <1>8
<1>10. \A x \in Aliases : x # a => dir'[x] = dir[x] /\ SameDir(x)
  BY <1>2, <1>8 DEF SameDir
<1>11. /\ dir'[a].kind = dir[a].kind /\ dir'[a].sid = dir[a].sid /\ dir'[a].conn = dir[a].conn
       /\ dir'[a].mail = t
  BY <1>2, <1>3, <1>8 DEF Directory
<1>12. Grows /\ \A c : SameConn(c)
  BY <1>1, <1>2 DEF Grows, SameConn
<1>13. Typed'
  BY <1>1, <1>4, <1>9 DEF IInv, Typed, TypeOK
<1>14. ASSUME NEW x \in Aliases PROVE DirFine(x)'
  <2>1. CASE x # a
    BY <1>10, <1>12, <2>1, DirStays DEF IInv, DirsFine
  <2>2. CASE x = a
    <3>1. dir[a].kind = "peer" /\ DirFine(a)
      BY <1>1 DEF IsPeer, IInv, DirsFine
    <3>2. ASSUME NEW c, c = dir[a].conn, c # 0 PROVE Manages(a, c)'
      <4>1. Manages(a, c) /\ c \in Conns
        BY <3>1, <3>2, Fields DEF DirFine, IInv
      <4>2. rec[c].seen \in Nat
        BY <4>1, Fields DEF IInv
      <4>3. rec[c].seen <= Len(t) /\ \A i \in 1 .. rec[c].seen : t[i] \in got
        <5>1. rec[c].seen <= Len(s) /\ \A i \in 1 .. rec[c].seen : s[i] \in got
          BY <4>1 DEF Manages
        <5>2. Len(s) \in Nat /\ Len(t) = Len(s) + 1 /\ \A i \in 1 .. Len(s) : t[i] = s[i]
          BY <1>5
        <5>3. rec[c].seen <= Len(t) /\ \A i \in 1 .. rec[c].seen : i \in 1 .. Len(s)
          BY <4>2, <5>1, <5>2
        <5> QED BY <5>1, <5>2, <5>3
      <4>4. Range(unread[c]) \subseteq (Gone \cup Mail(a))'
        BY <1>1, <1>6, <1>11, <4>1 DEF Manages, Gone, Mail
      <4> QED BY <1>1, <1>11, <4>1, <4>3, <4>4 DEF Manages
    <3>3. Len(t) \in 0 .. mails'
      BY <1>1, <1>2, <1>5, <3>1 DEF DirFine
    <3> QED BY <1>11, <2>2, <3>1, <3>2, <3>3 DEF DirFine
  <2> QED BY <2>1, <2>2
<1>15. DaemonFits'
  <2>1. daemon.pc # "idle" => daemon.a # a
    BY <1>1 DEF LockFree
  <2> QED BY <1>1, <1>10, <1>12, <2>1, DaemonStays DEF IInv
<1>16. RecordsFine'
  BY <1>1 DEF IInv, RecordsFine
<1>17. MailAccounted'
  <2>1. ASSUME NEW m, Held(m) PROVE Held(m)'
    <3>1. ASSUME NEW x \in Aliases, m \in Mail(x) PROVE m \in Mail(x)'
      BY <1>6, <1>10, <1>11, <3>1 DEF Mail, SameDir
    <3>2. got' = got /\ dropped' = dropped /\ unread' = unread
      BY <1>1
    <3>3. CASE \E x \in Aliases : m \in Mail(x)
      BY <3>1, <3>3 DEF Held
    <3>4. CASE m \in got \/ m \in dropped \/ \E c \in Conns : m \in Range(unread[c])
      BY <3>2, <3>4 DEF Held
    <3> QED BY <2>1, <3>3, <3>4 DEF Held
  <2>2. Held(n)'
    BY <1>6, <1>11 DEF Held, Mail
  <2>3. ASSUME NEW m \in 1 .. mails' PROVE Held(m)'
    <3>1. m \in 1 .. mails \/ m = n
      BY <1>1, <1>2
    <3>2. m \in 1 .. mails => Held(m)
      BY Accounted DEF IInv
    <3>3. CASE m \in 1 .. mails
      BY <2>1, <3>2, <3>3
    <3>4. CASE m = n
      BY <2>2, <3>4
    <3> QED BY <3>1, <3>3, <3>4
  <2> QED BY <2>3, Accounted
<1> QED BY <1>13, <1>14, <1>15, <1>16, <1>17 DEF IInv, DirsFine

(* ------------------------------------------------------------- the daemon - *)

\* A step on a record that leaves every directory and cursor alone.
LEMMA RecordsKeep ==
    ASSUME IInv, dir' = dir, unread' = unread, got' = got, daemon' = daemon, DaemonOnly,
           rec' \in [Conns -> Record], \A c \in Conns : SameConn(c)
    PROVE  IInv'
<1>1. op' = op /\ mails' = mails /\ dropped' = dropped
  BY DEF DaemonOnly
<1>2. Grows /\ \A a : SameDir(a)
  BY <1>1 DEF Grows, SameDir
<1>3. Typed'
  BY <1>1 DEF IInv, Typed, TypeOK
<1>4. DirsFine'
  <2>1. \A a \in Aliases : dir[a].conn # 0 => dir[a].conn \in Conns
    BY Fields DEF IInv
  <2> QED BY <1>2, <2>1, DirStays DEF IInv, DirsFine
<1>5. DaemonFits'
  <2>1. daemon.pc # "idle" => daemon.c \in Conns
    BY DEF IInv, DaemonFits
  <2> QED BY <1>2, <2>1, DaemonStays DEF IInv
<1>6. RecordsFine'
  BY DEF IInv, RecordsFine, SameConn
<1>7. MailAccounted'
  BY <1>1 DEF IInv, MailAccounted
<1> QED BY <1>3, <1>4, <1>5, <1>6, <1>7 DEF IInv

\* A record that only its state or its consumer changed in.
LEMMA RecordChanges ==
    ASSUME Typed, NEW c \in Conns, NEW r \in Record,
           r.state # "none" <=> rec[c].state # "none", r.alias = rec[c].alias,
           r.sid = rec[c].sid, r.seen = rec[c].seen,
           unread' = unread, rec' = [rec EXCEPT ![c] = r]
    PROVE  rec' \in [Conns -> Record] /\ \A k \in Conns : SameConn(k)
<1>1. rec \in [Conns -> Record]
  BY DEF Typed, TypeOK
<1>2. rec' \in [Conns -> Record]
  BY <1>1
<1>3. ASSUME NEW k \in Conns PROVE SameConn(k)
  BY <1>1 DEF SameConn
<1> QED BY <1>2, <1>3

\* What was announced of a consumer is no concern of its registration.
LEMMA Shows ==
    ASSUME NEW r \in Record, NEW shown \in {"off", "on", "cli"}
    PROVE  /\ Announced(r, shown) \in Record
           /\ Announced(r, shown).state = r.state /\ Announced(r, shown).alias = r.alias
           /\ Announced(r, shown).sid = r.sid /\ Announced(r, shown).seen = r.seen
<1> DEFINE n == IF r.notes = "stuck" \/ (r.shown = "off" <=> shown = "off") THEN r.notes
                ELSE "open"
<1>1. n \in {"none", "open", "stuck"}
  BY DEF Record
<1>2. Announced(r, shown) = [r EXCEPT !.shown = shown, !.notes = n]
  BY DEF Announced
<1> HIDE DEF n
<1> QED BY <1>1, <1>2 DEF Record

LEMMA Inspects ==
    ASSUME NEW r \in Record
    PROVE  /\ Inspected(r) \in Record /\ Inspected(r).state = r.state
           /\ Inspected(r).alias = r.alias /\ Inspected(r).sid = r.sid
           /\ Inspected(r).seen = r.seen
BY Shows DEF Inspected

\* A step of the daemon on one record, of which it leaves what the registration
\* answers for.
LEMMA RecordKeeps ==
    ASSUME IInv, UNCHANGED <<dir, unread, got, daemon>>, DaemonOnly,
           NEW c \in Conns, NEW r \in Record,
           r.state # "none" <=> rec[c].state # "none", r.alias = rec[c].alias,
           r.sid = rec[c].sid, r.seen = rec[c].seen, rec' = [rec EXCEPT ![c] = r]
    PROVE  IInv'
<1>1. rec' \in [Conns -> Record] /\ \A k \in Conns : SameConn(k)
  BY RecordChanges DEF IInv
<1> QED BY <1>1, RecordsKeep

LEMMA ReconnectKeeps ==
    ASSUME IInv, NEW c \in Conns, Reconnect(c)
    PROVE  IInv'
<1>1. PICK shown \in {"on", "cli"} :
         rec' = [rec EXCEPT ![c] =
                    [Announced(rec[c], shown) EXCEPT !.state = "ready", !.consumer = TRUE]]
  BY DEF Reconnect
<1> DEFINE q == Announced(rec[c], shown)
           r == [q EXCEPT !.state = "ready", !.consumer = TRUE]
<1>2. UNCHANGED <<dir, unread, got, daemon>> /\ DaemonOnly /\ rec[c].state # "none"
  BY DEF Reconnect
<1>3. rec[c] \in Record
  BY DEF IInv, Typed, TypeOK
<1>4. q \in Record /\ q.alias = rec[c].alias /\ q.sid = rec[c].sid /\ q.seen = rec[c].seen
  BY <1>3, Shows
<1> HIDE DEF q
<1>5. r \in Record /\ r.state # "none" /\ r.alias = rec[c].alias /\ r.sid = rec[c].sid
      /\ r.seen = rec[c].seen
  BY <1>4 DEF Record
<1>6. rec' = [rec EXCEPT ![c] = r]
  BY <1>1 DEF q
<1> HIDE DEF r
<1> QED BY <1>2, <1>5, <1>6, RecordKeeps

LEMMA DisconnectKeeps ==
    ASSUME IInv, NEW c \in Conns, Disconnect(c)
    PROVE  IInv'
<1> DEFINE q == Announced(rec[c], "off")
           r == [q EXCEPT !.state = "disconnected"]
<1>1. UNCHANGED <<dir, unread, got, daemon>> /\ DaemonOnly /\ rec[c].state # "none"
      /\ rec' = [rec EXCEPT ![c] = r]
  BY DEF Disconnect
<1>2. rec[c] \in Record
  BY DEF IInv, Typed, TypeOK
<1>3. q \in Record /\ q.alias = rec[c].alias /\ q.sid = rec[c].sid /\ q.seen = rec[c].seen
  BY <1>2, Shows
<1> HIDE DEF q
<1>4. r \in Record /\ r.state # "none" /\ r.alias = rec[c].alias /\ r.sid = rec[c].sid
      /\ r.seen = rec[c].seen
  BY <1>3 DEF Record
<1> HIDE DEF r
<1> QED BY <1>1, <1>4, RecordKeeps

LEMMA DetachKeeps ==
    ASSUME IInv, NEW c \in Conns, Detach(c)
    PROVE  IInv'
<1> DEFINE r == [rec[c] EXCEPT !.state = "detached"]
<1>1. UNCHANGED <<dir, unread, got, daemon>> /\ DaemonOnly /\ rec[c].state # "none"
      /\ rec' = [rec EXCEPT ![c] = r]
  BY DEF Detach
<1>2. rec[c] \in Record
  BY DEF IInv, Typed, TypeOK
<1>3. r \in Record /\ r.state # "none" /\ r.alias = rec[c].alias /\ r.sid = rec[c].sid
      /\ r.seen = rec[c].seen
  BY <1>2 DEF Record
<1> HIDE DEF r
<1> QED BY <1>1, <1>3, RecordKeeps

LEMMA ConsumerDiesKeeps ==
    ASSUME IInv, NEW c \in Conns, ConsumerDies(c)
    PROVE  IInv'
<1> DEFINE r == [rec[c] EXCEPT !.consumer = FALSE]
<1>1. UNCHANGED <<dir, unread, got, daemon>> /\ DaemonOnly /\ rec' = [rec EXCEPT ![c] = r]
  BY DEF ConsumerDies
<1>2. rec[c] \in Record
  BY DEF IInv, Typed, TypeOK
<1>3. r \in Record /\ r.state = rec[c].state /\ r.alias = rec[c].alias /\ r.sid = rec[c].sid
      /\ r.seen = rec[c].seen
  BY <1>2 DEF Record
<1> HIDE DEF r
<1> QED BY <1>1, <1>3, RecordKeeps

LEMMA NoticesKeep ==
    ASSUME IInv, NEW c \in Conns, Observe(c) \/ TellNotices(c) \/ CollectRefuses(c)
    PROVE  IInv'
<1>1. UNCHANGED <<dir, unread, got, daemon>> /\ DaemonOnly
  BY DEF Observe, TellNotices, CollectRefuses
<1>2. rec[c] \in Record /\ rec \in [Conns -> Record]
  BY DEF IInv, Typed, TypeOK
<1>3. \E r \in Record :
         /\ r.state = rec[c].state /\ r.alias = rec[c].alias /\ r.sid = rec[c].sid
         /\ r.seen = rec[c].seen /\ rec' = [rec EXCEPT ![c] = r]
  <2>1. CASE Observe(c)
    BY <1>2, <2>1, Shows DEF Observe
  <2>2. CASE TellNotices(c)
    <3>1. PICK n \in {"none", "stuck"} : rec' = [rec EXCEPT ![c] = [rec[c] EXCEPT !.notes = n]]
      BY <2>2 DEF TellNotices
    <3> QED BY <1>2, <3>1 DEF Record
  <2>3. CASE CollectRefuses(c)
    <3>1. rec' = [rec EXCEPT ![c] = rec[c]] \/ rec' = [rec EXCEPT ![c] = Inspected(rec[c])]
      BY <1>2, <2>3 DEF CollectRefuses
    <3> QED BY <1>2, <3>1, Inspects
  <2> QED BY <2>1, <2>2, <2>3
<1> QED BY <1>1, <1>3, RecordKeeps

\* A step that leaves only the daemon's place to be looked at.
LEMMA PlaceMoves ==
    ASSUME IInv, UNCHANGED <<dir, unread, got>>, DaemonOnly,
           rec' \in [Conns -> Record], \A c \in Conns : SameConn(c), daemon' \in Daemons,
           DaemonFits'
    PROVE  IInv'
<1>1. op' = op /\ mails' = mails /\ dropped' = dropped
  BY DEF DaemonOnly
<1>2. Grows /\ \A a : SameDir(a)
  BY <1>1 DEF Grows, SameDir
<1>3. Typed'
  BY <1>1 DEF IInv, Typed, TypeOK, Daemons
<1>4. DirsFine'
  <2>1. \A a \in Aliases : dir[a].conn # 0 => dir[a].conn \in Conns
    BY Fields DEF IInv
  <2> QED BY <1>2, <2>1, DirStays DEF IInv, DirsFine
<1>5. RecordsFine'
  BY DEF IInv, RecordsFine, SameConn
<1>6. MailAccounted'
  BY <1>1 DEF IInv, MailAccounted
<1> QED BY <1>3, <1>4, <1>5, <1>6 DEF IInv

LEMMA AtRest ==
    ASSUME daemon' = Idle
    PROVE  DaemonFits' /\ daemon' \in Daemons
<1>1. daemon'.pc = "idle"
  BY DEF Idle
<1> QED BY <1>1, Start DEF DaemonFits

LEMMA StopsKeeps ==
    ASSUME IInv, Stops
    PROVE  IInv'
<1>1. /\ UNCHANGED <<dir, unread, got>> /\ rec' = rec /\ daemon' = Idle /\ DaemonOnly
  BY DEF Stops
<1>2. rec' \in [Conns -> Record] /\ \A c \in Conns : SameConn(c)
  BY <1>1 DEF SameConn, IInv, Typed, TypeOK
<1> QED BY <1>1, <1>2, AtRest, PlaceMoves

LEMMA CollectCommitsKeeps ==
    ASSUME IInv, CollectCommits
    PROVE  IInv'
<1> SUFFICES ASSUME NEW c, c = daemon.c PROVE IInv'
  OBVIOUS
<1> DEFINE r == [rec[c] EXCEPT !.state = "archived"]
<1>1. /\ UNCHANGED <<dir, unread, got>> /\ daemon' = Idle /\ DaemonOnly
      /\ daemon.pc = "moved" /\ rec' = [rec EXCEPT ![c] = r]
  BY DEF CollectCommits
<1>2. c \in Conns /\ rec[c].state # "none"
  BY <1>1 DEF IInv, DaemonFits
<1>3. rec[c] \in Record
  BY <1>2 DEF IInv, Typed, TypeOK
<1>4. r \in Record /\ r.state # "none" /\ r.alias = rec[c].alias /\ r.sid = rec[c].sid
      /\ r.seen = rec[c].seen
  BY <1>3 DEF Record
<1> HIDE DEF r
<1>5. rec' \in [Conns -> Record] /\ \A k \in Conns : SameConn(k)
  BY <1>1, <1>2, <1>4, RecordChanges DEF IInv
<1> QED BY <1>1, <1>5, AtRest, PlaceMoves

\* A collection that finds the directory owned has its mail, past the cursor, in
\* the export; up to the cursor it was handed over.
LEMMA ExportHolds ==
    ASSUME IInv, NEW a \in Aliases, NEW c \in Conns, dir[a].conn = c
    PROVE  LET e == SubSeq(dir[a].mail, rec[c].seen + 1, Len(dir[a].mail)) IN
           /\ e \in Seq(1 .. MaxMail) /\ Range(e) \subseteq Mail(a)
           /\ Mail(a) \subseteq Gone \cup Range(e)
<1> DEFINE s == dir[a].mail
           k == rec[c].seen
           e == SubSeq(s, k + 1, Len(s))
<1>1. /\ s \in Seq(1 .. MaxMail) /\ k \in Nat /\ k <= Len(s)
      /\ \A i \in 1 .. k : s[i] \in got
  <2>1. c # 0 /\ DirFine(a)
    BY ConstantsFit DEF IInv, DirsFine
  <2> QED BY <2>1, Fields DEF IInv, DirFine, Manages
<1>2. /\ e \in Seq(1 .. MaxMail) /\ Range(e) \subseteq Mail(a)
      /\ \A i \in 1 .. Len(s) : i <= k \/ s[i] \in Range(e)
  BY <1>1, Suffix DEF Mail
<1>3. DOMAIN s = 1 .. Len(s) /\ Len(s) \in Nat
  BY <1>1
<1> HIDE DEF e
<1>4. ASSUME NEW m \in Mail(a) PROVE m \in Gone \cup Range(e)
  <2>1. PICK i \in DOMAIN s : m = s[i]
    BY <1>4 DEF Mail, Range
  <2>2. i \in 1 .. Len(s) /\ (i <= k => i \in 1 .. k)
    BY <1>1, <1>3
  <2> QED BY <1>1, <1>2, <2>1, <2>2 DEF Gone
<1> QED BY <1>2, <1>4 DEF e

LEMMA CollectExportsKeeps ==
    ASSUME IInv, NEW c \in Conns, CollectExports(c)
    PROVE  IInv'
<1> SUFFICES ASSUME NEW a, a = rec[c].alias PROVE IInv'
  OBVIOUS
<1> DEFINE e == SubSeq(dir[a].mail, rec[c].seen + 1, Len(dir[a].mail))
<1>1. /\ op' = op /\ mails' = mails /\ dropped' = dropped /\ dir' = dir /\ rec' = rec
      /\ got' = got /\ OnFile(c)
      /\ daemon' = [Idle EXCEPT !.pc = IF Owns(c) THEN "exported" ELSE "moved", !.c = c, !.a = a]
      /\ unread' = IF Owns(c) THEN [unread EXCEPT ![c] = Export(c)] ELSE unread
  BY DEF CollectExports, DaemonOnly, Collectable
<1>2. daemon'.pc \in {"exported", "moved"} /\ daemon'.c = c /\ daemon'.a = a
      /\ daemon'.s = Reserved
  BY <1>1 DEF Idle
<1>3. rec[c].state # "none" /\ a \in Aliases \cup {0}
  BY <1>1, Fields DEF OnFile, IInv
<1>4. daemon' \in Daemons
  BY <1>1, <1>3 DEF Daemons, Idle
<1>5. CASE ~Owns(c)
  <2>1. UNCHANGED <<dir, unread, got>> /\ rec' = rec /\ daemon'.pc = "moved"
    BY <1>1, <1>5 DEF Idle
  <2>2. DaemonFits'
    BY <1>2, <1>3, <2>1 DEF DaemonFits
  <2>3. rec' \in [Conns -> Record] /\ \A k \in Conns : SameConn(k)
    BY <2>1 DEF SameConn, IInv, Typed, TypeOK
  <2>4. DaemonOnly
    BY <1>1 DEF DaemonOnly
  <2> QED BY <1>4, <2>1, <2>2, <2>3, <2>4, PlaceMoves
<1>6. CASE Owns(c)
  <2>1. a \in Aliases /\ dir[a].conn = c /\ rec \in [Conns -> Record]
    BY <1>3, <1>6 DEF Owns, IInv, RecordsFine, Typed, TypeOK
  <2>2. /\ e \in Seq(1 .. MaxMail) /\ Range(e) \subseteq Mail(a)
        /\ Mail(a) \subseteq Gone \cup Range(e)
    BY <2>1, ExportHolds
  <2>3. unread' = [unread EXCEPT ![c] = e] /\ daemon'.pc = "exported"
    BY <1>1, <1>6 DEF Export, Idle
  <2> HIDE DEF e
  <2>4. unread \in [Conns -> Seq(1 .. MaxMail)]
    BY DEF IInv, Typed, TypeOK
  <2>5. unread' \in [Conns -> Seq(1 .. MaxMail)]
    BY <2>2, <2>3, <2>4
  <2>6. unread'[c] = e /\ \A k \in Conns : k # c => SameConn(k)
    BY <1>1, <2>3, <2>4 DEF SameConn
  <2>7. Grows /\ \A x : SameDir(x)
    BY <1>1 DEF Grows, SameDir
  <2>8. Typed'
    BY <1>1, <1>4, <2>5 DEF IInv, Typed, TypeOK, Daemons
  <2>9. Manages(a, c)
    BY <2>1, ConstantsFit DEF IInv, DirsFine, DirFine
  <2>10. ASSUME NEW x \in Aliases PROVE DirFine(x)'
    <3>1. CASE dir[x].conn # c
      <4>1. dir[x].conn # 0 => dir[x].conn \in Conns
        BY Fields DEF IInv
      <4> QED BY <2>6, <2>7, <3>1, <4>1, DirStays DEF IInv, DirsFine
    <3>2. CASE dir[x].conn = c
      <4>1. x = a
        BY <3>2, ConstantsFit DEF IInv, DirsFine, DirFine, Manages
      <4>2. DirFine(a)
        BY <2>1 DEF IInv, DirsFine
      <4>3. Manages(a, c)'
        BY <1>1, <2>2, <2>6, <2>9 DEF Manages, Gone, Mail
      <4> QED BY <1>1, <2>1, <4>1, <4>2, <4>3 DEF DirFine
    <3> QED BY <3>1, <3>2
  <2>11. RecordsFine'
    BY <1>1, <1>3, <2>6 DEF IInv, RecordsFine, SameConn
  <2>12. DaemonFits'
    BY <1>1, <1>2, <1>3, <2>1, <2>2, <2>3, <2>6 DEF DaemonFits, Gone, Mail
  <2>13. MailAccounted'
    <3>1. ASSUME NEW x \in Aliases, NEW m \in Mail(x) PROVE Held(m)'
      BY <1>1 DEF Held, Mail
    <3>2. ASSUME NEW k \in Conns, NEW m \in Range(unread[k]) PROVE Held(m)'
      <4>1. CASE k = c
        <5>1. m \in got \/ m \in dropped \/ m \in Mail(a)
          BY <2>9, <4>1 DEF Manages, Gone
        <5>2. got' = got /\ dropped' = dropped
          BY <1>1
        <5> QED BY <2>1, <3>1, <5>1, <5>2 DEF Held
      <4>2. CASE k # c
        <5>1. m \in Range(unread[k])'
          BY <2>6, <4>2 DEF SameConn
        <5> QED BY <5>1 DEF Held
      <4> QED BY <4>1, <4>2
    <3> QED BY <1>1, <2>7, <3>1, <3>2, MailStays DEF IInv
  <2> QED BY <2>8, <2>10, <2>11, <2>12, <2>13 DEF IInv, DirsFine
<1> QED BY <1>5, <1>6

LEMMA CollectMovesKeeps ==
    ASSUME IInv, CollectMoves
    PROVE  IInv'
<1> SUFFICES ASSUME NEW a, a = daemon.a, NEW c, c = daemon.c PROVE IInv'
  OBVIOUS
<1>1. /\ op' = op /\ mails' = mails /\ dropped' = dropped /\ rec' = rec /\ unread' = unread
      /\ got' = got /\ daemon.pc = "exported"
      /\ dir' = [dir EXCEPT ![a] = Absent] /\ daemon' = [daemon EXCEPT !.pc = "moved"]
  BY DEF CollectMoves, DaemonOnly
<1>2. /\ c \in Conns /\ a \in Aliases /\ dir[a].conn = c
      /\ rec[c].state # "none" /\ rec[c].alias = a
      /\ Mail(a) \subseteq Gone \cup Range(unread[c])
  BY <1>1 DEF IInv, DaemonFits
<1>3. daemon \in Daemons /\ dir \in [Aliases -> Directory]
  BY DEF IInv, Typed, TypeOK, Daemons
<1>4. daemon' \in Daemons /\ daemon'.pc = "moved" /\ daemon'.c = c /\ daemon'.a = a
  BY <1>1, <1>3 DEF Daemons
<1>5. Absent \in Directory /\ Absent.kind = "absent" /\ Absent.conn = 0 /\ Absent.mail = <<>>
  <2>1. Reserved \in Sessions \cup {Reserved}
    OBVIOUS
  <2> QED BY <2>1, Shapes
<1>6. /\ dir' \in [Aliases -> Directory] /\ dir'[a] = Absent
      /\ \A x \in Aliases : x # a => dir'[x] = dir[x] /\ SameDir(x)
  BY <1>1, <1>2, <1>3, <1>5 DEF SameDir
<1>7. Grows /\ \A k : SameConn(k)
  BY <1>1 DEF Grows, SameConn
<1>8. Typed'
  BY <1>1, <1>4, <1>6 DEF IInv, Typed, TypeOK, Daemons
<1>9. ASSUME NEW x \in Aliases PROVE DirFine(x)'
  <2>1. CASE x # a
    BY <1>6, <1>7, <2>1, DirStays DEF IInv, DirsFine
  <2>2. CASE x = a
    BY <1>1, <1>5, <1>6, <2>2, EmptyIsShort DEF DirFine
  <2> QED BY <2>1, <2>2
<1>10. RecordsFine'
  BY <1>1 DEF IInv, RecordsFine
<1>11. DaemonFits'
  BY <1>1, <1>2, <1>4 DEF DaemonFits
<1>12. MailAccounted'
  <2>1. ASSUME NEW k \in Conns, NEW m \in Range(unread[k]) PROVE Held(m)'
    BY <1>1 DEF Held
  <2>2. ASSUME NEW x \in Aliases, NEW m \in Mail(x) PROVE Held(m)'
    <3>1. CASE x # a
      BY <1>6, <3>1 DEF Held, Mail
    <3>2. CASE x = a
      <4>1. m \in got \/ m \in dropped \/ m \in Range(unread[c])
        BY <1>2, <3>2 DEF Gone
      <4>2. got' = got /\ dropped' = dropped
        BY <1>1
      <4> QED BY <1>2, <2>1, <4>1, <4>2 DEF Held
    <3> QED BY <3>1, <3>2
  <2> QED BY <1>1, <1>7, <2>1, <2>2, MailStays DEF IInv
<1> QED BY <1>8, <1>9, <1>10, <1>11, <1>12 DEF IInv, DirsFine

LEMMA PruneArchiveKeeps ==
    ASSUME IInv, NEW c \in Conns, PruneArchive(c)
    PROVE  IInv'
<1>1. /\ dir' = dir /\ rec' = rec /\ op' = op /\ daemon' = daemon /\ mails' = mails
      /\ got' = got /\ daemon.c # c /\ unread' = [unread EXCEPT ![c] = <<>>]
      /\ dropped' = dropped \cup Range(unread[c])
  BY DEF PruneArchive
<1>2. unread \in [Conns -> Seq(1 .. MaxMail)] /\ rec \in [Conns -> Record]
  BY DEF IInv, Typed, TypeOK
<1>3. unread' \in [Conns -> Seq(1 .. MaxMail)]
  <2>1. <<>> \in Seq(1 .. MaxMail)
    OBVIOUS
  <2> QED BY <1>1, <1>2, <2>1
<1>4. unread'[c] = <<>> /\ \A k \in Conns : k # c => unread'[k] = unread[k] /\ SameConn(k)
  BY <1>1, <1>2 DEF SameConn
<1>5. Grows /\ \A x : SameDir(x)
  BY <1>1 DEF Grows, SameDir
<1>6. Typed'
  BY <1>1, <1>3 DEF IInv, Typed, TypeOK
<1>7. ASSUME NEW x \in Aliases PROVE DirFine(x)'
  <2>1. CASE dir[x].conn # c
    <3>1. dir[x].conn # 0 => dir[x].conn \in Conns
      BY Fields DEF IInv
    <3> QED BY <1>4, <1>5, <2>1, <3>1, DirStays DEF IInv, DirsFine
  <2>2. CASE dir[x].conn = c
    <3>1. DirFine(x) /\ Manages(x, c)
      BY <2>2, ConstantsFit DEF IInv, DirsFine, DirFine
    <3>2. Manages(x, c)'
      BY <1>1, <1>4, <3>1, NothingIn DEF Manages
    <3> QED BY <1>1, <2>2, <3>1, <3>2 DEF DirFine
  <2> QED BY <2>1, <2>2
<1>8. RecordsFine'
  BY <1>1, <1>4 DEF IInv, RecordsFine
<1>9. DaemonFits'
  <2>1. daemon.pc # "idle" => daemon.c \in Conns
    BY DEF IInv, DaemonFits
  <2>2. daemon.pc # "idle" => SameConn(daemon.c)
    BY <1>1, <1>4, <2>1
  <2> QED BY <1>1, <1>5, <2>2, DaemonStays DEF IInv
<1>10. MailAccounted'
  <2>1. ASSUME NEW x \in Aliases, NEW m \in Mail(x) PROVE Held(m)'
    BY <1>1 DEF Held, Mail
  <2>2. ASSUME NEW k \in Conns, NEW m \in Range(unread[k]) PROVE Held(m)'
    <3>1. CASE k = c
      <4>1. m \in dropped'
        BY <1>1, <3>1
      <4> QED BY <4>1 DEF Held
    <3>2. CASE k # c
      <4>1. m \in Range(unread[k])'
        BY <1>4, <3>2
      <4> QED BY <4>1 DEF Held
    <3> QED BY <3>1, <3>2
  <2> QED BY <1>1, <1>5, <2>1, <2>2, MailStays DEF IInv
<1> QED BY <1>6, <1>7, <1>8, <1>9, <1>10 DEF IInv, DirsFine
LEMMA DeliverKeeps ==
    ASSUME IInv, NEW c \in Conns, Deliver(c)
    PROVE  IInv'
<1> SUFFICES ASSUME NEW a, a = rec[c].alias, NEW k, k = rec[c].seen, NEW s, s = dir[a].mail
             PROVE  IInv'
  OBVIOUS
<1> DEFINE r == [rec[c] EXCEPT !.seen = k + 1]
<1>1. /\ dir' = dir /\ unread' = unread /\ daemon' = daemon /\ op' = op /\ mails' = mails
      /\ dropped' = dropped /\ got' = got \cup {s[k + 1]}
      /\ rec[c].state = "ready" /\ Owns(c) /\ LockFree(a) /\ k < Len(s)
      /\ rec' = [rec EXCEPT ![c] = r]
  BY DEF Deliver, DaemonOnly
<1>2. rec \in [Conns -> Record] /\ rec[c] \in Record
  BY DEF IInv, Typed, TypeOK
<1>3. /\ a \in Aliases /\ dir[a].conn = c /\ dir[a].kind = "peer"
      /\ s \in Seq(1 .. MaxMail) /\ k \in Nat /\ k + 1 <= Len(s)
  <2>1. a \in Aliases /\ dir[a].conn = c /\ dir[a].kind = "peer"
    BY <1>1 DEF Owns, IsPeer, IInv, RecordsFine
  <2>2. s \in Seq(1 .. MaxMail) /\ k \in Nat
    BY <2>1, Fields DEF IInv
  <2>3. Len(s) \in Nat
    BY <2>2
  <2> QED BY <1>1, <2>1, <2>2, <2>3
<1>4. k + 1 \in 0 .. MaxMail
  <2>1. rec[c].seen \in 0 .. MaxMail /\ MaxMail \in Nat
    BY <1>2, ConstantsFit DEF Record
  <2>2. Len(s) \in 0 .. mails /\ mails \in 0 .. MaxMail
    BY <1>3 DEF IInv, Typed, DirsFine, DirFine
  <2>3. /\ k \in Nat /\ k + 1 <= Len(s) /\ Len(s) <= mails /\ mails <= MaxMail
        /\ Len(s) \in Nat /\ mails \in Nat
    BY <1>3, <2>1, <2>2
  <2> QED BY <2>1, <2>3
<1>5. r \in Record /\ r.state = rec[c].state /\ r.alias = rec[c].alias /\ r.sid = rec[c].sid
      /\ r.seen = k + 1
  BY <1>2, <1>4 DEF Record
<1> HIDE DEF r
<1>6. /\ rec' \in [Conns -> Record] /\ rec'[c] = r
      /\ \A x \in Conns : x # c => rec'[x] = rec[x] /\ SameConn(x)
  BY <1>1, <1>2, <1>5 DEF SameConn
<1>7. Grows /\ \A x : SameDir(x)
  BY <1>1 DEF Grows, SameDir
<1>8. Typed'
  BY <1>1, <1>6 DEF IInv, Typed, TypeOK
<1>9. Manages(a, c)
  BY <1>3, ConstantsFit DEF IInv, DirsFine, DirFine
<1>10. ASSUME NEW x \in Aliases PROVE DirFine(x)'
  <2>1. CASE dir[x].conn # c
    <3>1. dir[x].conn # 0 => dir[x].conn \in Conns
      BY Fields DEF IInv
    <3> QED BY <1>6, <1>7, <2>1, <3>1, DirStays DEF IInv, DirsFine
  <2>2. CASE dir[x].conn = c
    <3>1. x = a
      BY <2>2, ConstantsFit DEF IInv, DirsFine, DirFine, Manages
    <3>2. \A i \in 1 .. k + 1 : s[i] \in got'
      <4>1. \A i \in 1 .. k : s[i] \in got
        BY <1>9 DEF Manages
      <4>2. \A i \in 1 .. k + 1 : i = k + 1 \/ i \in 1 .. k
        BY <1>3
      <4> QED BY <1>1, <4>1, <4>2
    <3>3. Range(unread[c]) \subseteq (Gone \cup Mail(a))'
      BY <1>1, <1>9 DEF Manages, Gone, Mail
    <3>4. Manages(a, c)'
      BY <1>1, <1>3, <1>5, <1>6, <1>9, <3>2, <3>3 DEF Manages
    <3>5. DirFine(a)
      BY <1>3 DEF IInv, DirsFine
    <3> QED BY <1>1, <1>3, <3>1, <3>4, <3>5 DEF DirFine
  <2> QED BY <2>1, <2>2
<1>11. RecordsFine'
  BY <1>1, <1>5, <1>6 DEF IInv, RecordsFine
<1>12. DaemonFits'
  <2>1. daemon.pc # "idle" => daemon.c \in Conns /\ daemon.a # a
    BY <1>1 DEF IInv, DaemonFits, LockFree
  <2>2. daemon.pc # "idle" => daemon.c # c
    <3>1. daemon.pc = "made" => daemon.c # c
      BY <1>1 DEF IInv, DaemonFits
    <3>2. daemon.pc \in {"saved", "exported", "moved"} => rec[daemon.c].alias = daemon.a
      BY DEF IInv, DaemonFits
    <3>3. daemon.pc \in {"idle", "made", "saved", "exported", "moved"}
      BY DEF IInv, Typed, TypeOK
    <3> QED BY <2>1, <3>1, <3>2, <3>3
  <2>3. daemon.pc # "idle" => SameConn(daemon.c)
    BY <1>6, <2>1, <2>2
  <2> QED BY <1>1, <1>7, <2>3, DaemonStays DEF IInv
<1>13. MailAccounted'
  <2>1. ASSUME NEW x \in Aliases, NEW m \in Mail(x) PROVE Held(m)'
    BY <1>1 DEF Held, Mail
  <2>2. ASSUME NEW x \in Conns, NEW m \in Range(unread[x]) PROVE Held(m)'
    BY <1>1 DEF Held
  <2> QED BY <1>1, <1>7, <2>1, <2>2, MailStays DEF IInv
<1> QED BY <1>8, <1>10, <1>11, <1>12, <1>13 DEF IInv, DirsFine

LEMMA ConnectMakesKeeps ==
    ASSUME IInv, NEW s \in Sessions, NEW a \in Aliases, ConnectMakes(s, a)
    PROVE  IInv'
<1>1. /\ op' = op /\ mails' = mails /\ dropped' = dropped /\ rec' = rec /\ unread' = unread
      /\ got' = got
      /\ \/ dir[a].kind = "absent" /\ dir' = [dir EXCEPT ![a] = Bare]
         \/ Placeholder(a) /\ dir' = dir
  BY DEF ConnectMakes, DaemonOnly
<1>2. PICK c \in Conns : rec[c] = NoRec /\ daemon' = [pc |-> "made", c |-> c, a |-> a, s |-> s]
  BY DEF ConnectMakes
<1>3. daemon' \in Daemons
  BY <1>2 DEF Daemons
<1>4. Bare \in Directory /\ Bare.kind = "bare" /\ Bare.conn = 0 /\ Bare.mail = <<>>
  <2>1. Reserved \in Sessions \cup {Reserved}
    OBVIOUS
  <2> QED BY <2>1, Shapes
<1>5. dir \in [Aliases -> Directory] /\ dir' \in [Aliases -> Directory]
  <2>1. dir \in [Aliases -> Directory]
    BY DEF IInv, Typed, TypeOK
  <2> QED BY <1>1, <1>4, <2>1
<1>6. DirFine(a)
  BY DEF IInv, DirsFine
<1>7. /\ \A x \in Aliases : x # a => SameDir(x)
      /\ dir'[a].mail = dir[a].mail /\ DirFine(a)' /\ Unclaimed(a)'
  <2>1. CASE dir[a].kind = "absent" /\ dir' = [dir EXCEPT ![a] = Bare]
    <3>1. dir'[a] = Bare /\ \A x \in Aliases : x # a => SameDir(x)
      BY <1>5, <2>1 DEF SameDir
    <3> QED BY <1>1, <1>4, <1>6, <2>1, <3>1, EmptyIsShort DEF DirFine, Unclaimed
  <2>2. CASE Placeholder(a) /\ dir' = dir
    <3>1. \A x : SameDir(x)
      BY <2>2 DEF SameDir
    <3>2. dir[a].conn = 0 /\ dir[a].kind = "peer"
      BY <2>2 DEF Placeholder, IsPeer
    <3> QED BY <1>1, <1>6, <2>2, <3>1, <3>2 DEF DirFine, Unclaimed, Placeholder, IsPeer
  <2> QED BY <1>1, <2>1, <2>2
<1>8. Grows /\ \A k : SameConn(k)
  BY <1>1 DEF Grows, SameConn
<1>9. Typed'
  BY <1>1, <1>3, <1>5 DEF IInv, Typed, TypeOK, Daemons
<1>10. ASSUME NEW x \in Aliases PROVE DirFine(x)'
  <2>1. CASE x = a
    BY <1>7, <2>1
  <2>2. CASE x # a
    BY <1>7, <1>8, <2>2, DirStays DEF IInv, DirsFine
  <2> QED BY <2>1, <2>2
<1>11. RecordsFine'
  BY <1>1 DEF IInv, RecordsFine
<1>12. DaemonFits'
  BY <1>1, <1>2, <1>7 DEF DaemonFits, NoRec
<1>13. MailAccounted'
  <2>1. ASSUME NEW x \in Aliases, NEW m \in Mail(x) PROVE Held(m)'
    BY <1>7 DEF Held, Mail, SameDir
  <2>2. ASSUME NEW k \in Conns, NEW m \in Range(unread[k]) PROVE Held(m)'
    BY <1>1 DEF Held
  <2> QED BY <1>1, <1>8, <2>1, <2>2, MailStays DEF IInv
<1> QED BY <1>9, <1>10, <1>11, <1>12, <1>13 DEF IInv, DirsFine

LEMMA ConnectSavesKeeps ==
    ASSUME IInv, ConnectSaves
    PROVE  IInv'
<1> SUFFICES ASSUME NEW a, a = daemon.a, NEW c, c = daemon.c, NEW s, s = daemon.s
             PROVE  IInv'
  OBVIOUS
<1> DEFINE r == [state |-> "ready", alias |-> a, sid |-> s, seen |-> 0, consumer |-> TRUE,
                 shown |-> "off", notes |-> "none"]
<1>1. /\ dir' = dir /\ unread' = unread /\ got' = got /\ op' = op /\ mails' = mails
      /\ dropped' = dropped /\ daemon.pc = "made"
      /\ rec' = [rec EXCEPT ![c] = r] /\ daemon' = [daemon EXCEPT !.pc = "saved"]
  BY DEF ConnectSaves, DaemonOnly
<1>2. c \in Conns /\ a \in Aliases /\ Unclaimed(a) /\ rec[c].state = "none" /\ unread[c] = <<>>
  BY <1>1 DEF IInv, DaemonFits, RecordsFine
<1>3. daemon \in Daemons /\ s \in Sessions \cup {Reserved} /\ rec \in [Conns -> Record]
  BY DEF IInv, Typed, TypeOK, Daemons
<1>4. /\ daemon' \in Daemons /\ daemon'.pc = "saved" /\ daemon'.c = c /\ daemon'.a = a
      /\ daemon'.s = s
  BY <1>1, <1>3 DEF Daemons
<1>5. r \in Record /\ r.state # "none" /\ r.alias = a /\ r.sid = s /\ r.seen = 0
  <2>1. 0 \in 0 .. MaxMail
    BY ConstantsFit
  <2> QED BY <1>2, <1>3, <2>1 DEF Record
<1> HIDE DEF r
<1>6. /\ rec' \in [Conns -> Record] /\ rec'[c] = r
      /\ \A k \in Conns : k # c => rec'[k] = rec[k] /\ SameConn(k)
  BY <1>1, <1>2, <1>3, <1>5 DEF SameConn
<1>7. Grows /\ \A x : SameDir(x)
  BY <1>1 DEF Grows, SameDir
<1>8. Typed'
  BY <1>1, <1>4, <1>6 DEF IInv, Typed, TypeOK, Daemons
<1>9. ASSUME NEW x \in Aliases PROVE DirFine(x)'
  <2>1. dir[x].conn # 0 => dir[x].conn \in Conns /\ dir[x].conn # c
    BY <1>2, Fields DEF IInv, DirsFine, DirFine, Manages
  <2> QED BY <1>6, <1>7, <2>1, DirStays DEF IInv, DirsFine
<1>10. RecordsFine'
  BY <1>1, <1>2, <1>5, <1>6 DEF IInv, RecordsFine
<1>11. DaemonFits'
  BY <1>1, <1>2, <1>4, <1>5, <1>6 DEF DaemonFits, Unclaimed, Placeholder, IsPeer
<1>12. MailAccounted'
  BY <1>1 DEF IInv, MailAccounted
<1> QED BY <1>8, <1>9, <1>10, <1>11, <1>12 DEF IInv, DirsFine

LEMMA ConnectPublishesKeeps ==
    ASSUME IInv, ConnectPublishes
    PROVE  IInv'
<1> SUFFICES ASSUME NEW a, a = daemon.a, NEW c, c = daemon.c, NEW s, s = daemon.s,
                    NEW m, m = dir[a].mail
             PROVE  IInv'
  OBVIOUS
<1> DEFINE d == [Peer(s) EXCEPT !.conn = c, !.listener = "alive", !.mail = m]
           M == Seq(1 .. MaxMail)
<1>1. /\ unread' = unread /\ got' = got /\ op' = op /\ mails' = mails
      /\ dropped' = dropped /\ daemon.pc = "saved"
      /\ dir' = [dir EXCEPT ![a] = d] /\ daemon' = Idle
  BY DEF ConnectPublishes, DaemonOnly
<1>2. /\ c \in Conns /\ a \in Aliases /\ Unclaimed(a)
      /\ rec[c].state # "none" /\ rec[c].alias = a /\ rec[c].sid = s
      /\ rec[c].seen = 0 /\ unread[c] = <<>>
  BY <1>1 DEF IInv, DaemonFits
<1>0. PICK r \in Record :
         /\ rec' = [rec EXCEPT ![c] = r]
         /\ r.state = rec[c].state /\ r.alias = rec[c].alias /\ r.sid = rec[c].sid
         /\ r.seen = rec[c].seen
  <2>1. PICK shown \in {"off", "on", "cli"} : rec' = [rec EXCEPT ![c] = Announced(rec[c], shown)]
    BY DEF ConnectPublishes
  <2>2. rec[c] \in Record
    BY <1>2 DEF IInv, Typed, TypeOK
  <2> QED BY <2>1, <2>2, Shows
<1>3. s \in Sessions \cup {Reserved} /\ dir \in [Aliases -> Directory] /\ m \in M
  BY <1>2, Fields DEF IInv, Typed, TypeOK
<1>4. DirFine(a) /\ Len(m) \in Nat
  BY <1>2, <1>3 DEF IInv, DirsFine
<1> HIDE DEF M
<1>5. /\ d \in Directory /\ d.kind = "peer" /\ d.conn = c /\ d.sid = s /\ d.mail = m
  <2>1. Directory = [kind : {"absent", "bare", "peer"}, sid : Sessions \cup {Reserved},
                     conn : 0 .. MaxConns, listener : Listeners, mail : M]
    BY DEF Directory, M
  <2>2. Peer(s) \in Directory /\ Peer(s).kind = "peer" /\ Peer(s).sid = s
    BY <1>3, Shapes
  <2>3. c \in 0 .. MaxConns /\ "alive" \in Listeners
    BY <1>2, ConstantsFit DEF Listeners
  <2> QED BY <1>3, <2>1, <2>2, <2>3
<1> HIDE DEF d
<1>6. /\ dir' \in [Aliases -> Directory] /\ dir'[a] = d
      /\ \A x \in Aliases : x # a => SameDir(x)
  BY <1>1, <1>2, <1>3, <1>5 DEF SameDir
<1>7. Grows /\ rec' \in [Conns -> Record] /\ \A k \in Conns : SameConn(k)
  BY <1>0, <1>1, <1>2, RecordChanges DEF Grows, IInv
<1>8. Typed'
  BY <1>1, <1>6, <1>7, Start DEF IInv, Typed, TypeOK, Daemons
<1>9. ASSUME NEW x \in Aliases PROVE DirFine(x)'
  <2>1. CASE x # a
    <3>1. dir[x].conn # 0 => dir[x].conn \in Conns
      BY Fields DEF IInv
    <3> QED BY <1>6, <1>7, <2>1, <3>1, DirStays DEF IInv, DirsFine
  <2>2. CASE x = a
    <3>1. Manages(a, c)'
      BY <1>1, <1>2, <1>4, <1>5, <1>6, <1>7, NothingIn DEF Manages, SameConn
    <3>2. (Len(dir[a].mail) \in 0 .. mails)'
      BY <1>1, <1>4, <1>5, <1>6 DEF DirFine
    <3> QED BY <1>5, <1>6, <2>2, <3>1, <3>2 DEF DirFine
  <2> QED BY <2>1, <2>2
<1>10. RecordsFine'
  BY <1>7 DEF IInv, RecordsFine, SameConn
<1>11. DaemonFits'
  BY <1>1, AtRest
<1>12. MailAccounted'
  <2>1. ASSUME NEW x \in Aliases, NEW n \in Mail(x) PROVE Held(n)'
    BY <1>5, <1>6 DEF Held, Mail, SameDir
  <2>2. ASSUME NEW k \in Conns, NEW n \in Range(unread[k]) PROVE Held(n)'
    BY <1>1 DEF Held
  <2> QED BY <1>1, <1>7, <2>1, <2>2, MailStays DEF IInv
<1> QED BY <1>8, <1>9, <1>10, <1>11, <1>12 DEF IInv, DirsFine

(* ---------------------------------------------------------------- theorems - *)

LEMMA Starts == Init => IInv
<1> SUFFICES ASSUME Init PROVE IInv
  OBVIOUS
<1>1. /\ dir = [a \in Aliases |-> Absent] /\ rec = [c \in Conns |-> NoRec]
      /\ unread = [c \in Conns |-> <<>>] /\ op = NoOp /\ daemon = Idle /\ mails = 0
  BY DEF Init
<1>2. Absent \in Directory /\ Absent.kind = "absent" /\ Absent.conn = 0 /\ Absent.mail = <<>>
  <2>1. Reserved \in Sessions \cup {Reserved}
    OBVIOUS
  <2> QED BY <2>1, Shapes
<1>3. Typed
  <2>1. <<>> \in Seq(1 .. MaxMail) /\ mails \in 0 .. MaxMail
    BY <1>1, ConstantsFit
  <2>2. unread \in [Conns -> Seq(1 .. MaxMail)]
    BY <1>1, <2>1
  <2> QED BY <1>1, <1>2, <2>1, <2>2, Start DEF Typed, TypeOK, Ops, Daemons
<1>4. DirsFine
  BY <1>1, <1>2 DEF DirsFine, DirFine
<1>5. RecordsFine
  BY <1>1 DEF RecordsFine, NoRec
<1>6. DaemonFits
  BY <1>1 DEF DaemonFits, Idle
<1>7. MailAccounted
  BY <1>1 DEF MailAccounted
<1> QED BY <1>3, <1>4, <1>5, <1>6, <1>7 DEF IInv

LEMMA Stutters == IInv /\ UNCHANGED vars => IInv'
<1> SUFFICES ASSUME IInv, UNCHANGED vars PROVE IInv'
  OBVIOUS
<1>1. CommandOnly /\ op' = op /\ Keep
  BY DEF vars, CommandOnly, Keep
<1> QED BY <1>1, UnderWay, WaitingKeeps

LEMMA Steps == IInv /\ Next => IInv'
<1> SUFFICES ASSUME IInv, Next PROVE IInv'
  OBVIOUS
<1>1. ASSUME NEW s \in Sessions, NEW a \in Aliases \cup {AnyName}, JoinStarts(s, a)
      PROVE  IInv'
  BY <1>1, JoinStartsKeeps
<1>2. ASSUME NEW s \in Sessions, NEW a \in Aliases, Reserve(s, a) \/ ConnectMakes(s, a)
      PROVE  IInv'
  BY <1>2, ReserveKeeps, ConnectMakesKeeps
<1>3. ASSUME NEW s \in Sessions, NEW a \in Aliases, NEW b \in Aliases, Begins(s, a, b)
      PROVE  IInv'
  BY <1>3, BeginsKeeps
<1>4. ASSUME NEW a \in Aliases,
             Unreserve(a) \/ PruneSees(a) \/ Unregister(a) \/ Arm(a) \/ Ages(a) \/ Send(a)
      PROVE  IInv'
  BY <1>4, UnreserveKeeps, PruneSeesKeeps, ListenersKeep, SendKeeps
<1>5. CASE Commands
  BY <1>5, JoinClaimsKeeps, LeaveRemovesKeeps, RenameMovesKeeps, PruneReapsKeeps DEF Commands
<1>6. CASE Connects
  BY <1>6, ConnectSavesKeeps, ConnectPublishesKeeps DEF Connects
<1>7. ASSUME NEW c \in Conns,
             \/ Reconnect(c) \/ Disconnect(c) \/ Deliver(c) \/ Detach(c) \/ ConsumerDies(c)
             \/ Observe(c) \/ TellNotices(c)
             \/ CollectRefuses(c) \/ CollectExports(c) \/ PruneArchive(c)
      PROVE  IInv'
  BY <1>7, ReconnectKeeps, DisconnectKeeps, DetachKeeps, DeliverKeeps, ConsumerDiesKeeps,
     NoticesKeep, CollectExportsKeeps, PruneArchiveKeeps
<1>8. CASE Stops \/ CollectMoves \/ CollectCommits
  BY <1>8, StopsKeeps, CollectMovesKeeps, CollectCommitsKeeps
<1> QED BY <1>1, <1>2, <1>3, <1>4, <1>5, <1>6, <1>7, <1>8 DEF Next

\* The invariant that the rest follows from holds in every reachable state.
THEOREM Inductive == Spec => []IInv
BY Starts, Steps, Stutters, PTL DEF Spec

\* Every variable keeps its type (TypeOK).
THEOREM Types == Spec => []TypeOK
<1>1. IInv => TypeOK
  BY DEF IInv, Typed
<1> QED BY <1>1, Inductive, PTL

\* Mail that a send reported as accepted is somewhere, wherever a connect or a
\* collection stopped, whatever crashed and however many commands raced: in the
\* inbox, handed over, exported, or removed by a command (MailAccounted).
THEOREM MailIsAccounted == Spec => []MailAccounted
<1>1. IInv => MailAccounted
  BY DEF IInv
<1> QED BY <1>1, Inductive, PTL
\* What NobodyIsEvicted says of one alias and one step.
CommandSpares(a) ==
    op' # op /\ IsPeer(a) /\ dir[a].sid # op.s
        /\ (op.pc = "leave" \/ Managed(a) \/ Listening(a)) => dir'[a] = dir[a]
DaemonSpares(a) ==
    daemon' # daemon /\ IsPeer(a) /\ ~Placeholder(a) /\ dir[a].conn # daemon.c
        => dir'[a] = dir[a]

LEMMA Removed ==
    ASSUME NEW a \in Aliases, NEW A, a \notin A, Removes(A)
    PROVE  dir'[a] = dir[a]
BY DEF Removes, Writes

LEMMA PutElsewhere ==
    ASSUME NEW a \in Aliases, NEW b, NEW d, a # b, Puts(b, d)
    PROVE  dir'[a] = dir[a]
BY DEF Puts, Writes

LEMMA CommandsSpare ==
    ASSUME IInv, Next, NEW a \in Aliases
    PROVE  CommandSpares(a)
<1> SUFFICES ASSUME op' # op, IsPeer(a), dir[a].sid # op.s,
                    op.pc = "leave" \/ Managed(a) \/ Listening(a)
             PROVE  dir'[a] = dir[a]
  BY DEF CommandSpares
<1>1. ASSUME NEW s \in Sessions, NEW b \in Aliases \cup {AnyName}, JoinStarts(s, b)
      PROVE  dir'[a] = dir[a]
  <2>1. op = NoOp /\ Removes(Prunable)
    BY <1>1 DEF JoinStarts
  <2>2. a \notin Prunable
    BY <2>1 DEF NoOp, Prunable, Dead, Managed, Listening
  <2> QED BY <2>1, <2>2, Removed
<1>2. CASE JoinClaims
  <2>1. op.pc = "join"
    BY <1>2 DEF JoinClaims
  <2>2. PICK b \in Aliases :
           \/ Reclaimable(b) /\ Puts(b, Peer(op.s))
           \/ Reclaimable(b) /\ Puts(b, Bare)
           \/ ~Reclaimable(b) /\ Keep
    BY <1>2 DEF JoinClaims
  <2>3. CASE Keep
    BY <2>3 DEF Keep
  <2>4. CASE Reclaimable(b) /\ (Puts(b, Peer(op.s)) \/ Puts(b, Bare))
    <3>1. a # b
      BY <2>1, <2>4 DEF Reclaimable
    <3> QED BY <2>4, <3>1, PutElsewhere
  <2> QED BY <2>2, <2>3, <2>4
<1>3. CASE LeaveRemoves
  <2>1. PICK exits \in BOOLEAN :
           Removes({x \in Mine(op.s) \cap {op.a} : ~(exits /\ Managed(x))})
    BY <1>3 DEF LeaveRemoves
  <2> DEFINE A == {x \in Mine(op.s) \cap {op.a} : ~(exits /\ Managed(x))}
  <2>2. a \notin A
    BY DEF Mine
  <2> HIDE DEF A
  <2> QED BY <2>1, <2>2, Removed DEF A
<1>4. CASE PruneReaps
  <2>1. op.pc = "prune" /\ Removes(IF Dead(op.a) THEN {op.a} ELSE {})
    BY <1>4 DEF PruneReaps
  <2>2. ~Dead(a)
    BY <2>1 DEF Dead, Managed, Listening
  <2>3. a \notin IF Dead(op.a) THEN {op.a} ELSE {}
    BY <2>2
  <2> QED BY <2>1, <2>3, Removed
<1>5. CASE RenameMoves
  <2> DEFINE moved == [dir[op.a] EXCEPT !.listener = IF @ = "alive" THEN "gone" ELSE @]
             d == [x \in {op.a, op.b} |-> IF x = op.a THEN Absent ELSE moved]
  <2>1. /\ op.pc = "rename"
        /\ \/ op.a \in Mine(op.s) /\ Reclaimable(op.b) /\ Writes(d)
           \/ Keep
    BY <1>5 DEF RenameMoves
  <2>2. CASE Keep
    BY <2>2 DEF Keep
  <2>3. CASE op.a \in Mine(op.s) /\ Reclaimable(op.b) /\ Writes(d)
    <3>1. a # op.a /\ a # op.b
      BY <2>1, <2>3 DEF Mine, Reclaimable
    <3>2. DOMAIN d = {op.a, op.b}
      OBVIOUS
    <3> HIDE DEF d
    <3> QED BY <2>3, <3>1, <3>2 DEF Writes
  <2> QED BY <2>1, <2>2, <2>3
<1>6. ASSUME NEW s \in Sessions, NEW b \in Aliases, NEW e \in Aliases, Begins(s, b, e)
      PROVE  dir'[a] = dir[a]
  BY <1>6 DEF Begins, Keep
<1>7. ASSUME NEW b \in Aliases, PruneSees(b)
      PROVE  dir'[a] = dir[a]
  BY <1>7 DEF PruneSees, Keep
<1>8. \* Nothing else moves a command.
      /\ \A s \in Sessions, b \in Aliases : ~Reserve(s, b) /\ ~ConnectMakes(s, b)
      /\ \A b \in Aliases :
            ~Unreserve(b) /\ ~Unregister(b) /\ ~Arm(b) /\ ~Ages(b) /\ ~Send(b)
  BY DEF Reserve, ConnectMakes, Unreserve, Unregister, Arm, Ages, Send, DaemonOnly
<1>9. ~Connects /\ ~Stops /\ ~CollectMoves /\ ~CollectCommits
  BY DEF Connects, ConnectSaves, ConnectPublishes, Stops, CollectMoves, CollectCommits, DaemonOnly
<1>10. \A c \in Conns : ~(\/ Reconnect(c) \/ Disconnect(c) \/ Deliver(c) \/ Detach(c)
                          \/ ConsumerDies(c) \/ Observe(c) \/ TellNotices(c)
                          \/ CollectRefuses(c) \/ CollectExports(c) \/ PruneArchive(c))
  BY DEF Reconnect, Disconnect, Deliver, Detach, ConsumerDies, Observe, TellNotices,
         CollectRefuses, CollectExports, PruneArchive, DaemonOnly
<1> QED BY <1>1, <1>2, <1>3, <1>4, <1>5, <1>6, <1>7, <1>8, <1>9, <1>10 DEF Next, Commands

LEMMA TheDaemonSpares ==
    ASSUME IInv, Next, NEW a \in Aliases
    PROVE  DaemonSpares(a)
<1> SUFFICES ASSUME daemon' # daemon, IsPeer(a), ~Placeholder(a), dir[a].conn # daemon.c
             PROVE  dir'[a] = dir[a]
  BY DEF DaemonSpares
<1>1. dir \in [Aliases -> Directory]
  BY DEF IInv, Typed, TypeOK
<1>2. ASSUME NEW s \in Sessions, NEW b \in Aliases, ConnectMakes(s, b)
      PROVE  dir'[a] = dir[a]
  <2>1. \/ dir[b].kind = "absent" /\ dir' = [dir EXCEPT ![b] = Bare]
        \/ dir' = dir
    BY <1>2 DEF ConnectMakes
  <2>2. dir[b].kind = "absent" => a # b
    BY DEF IsPeer
  <2> QED BY <1>1, <2>1, <2>2
<1>3. CASE ConnectSaves \/ Stops \/ CollectCommits
  BY <1>3 DEF ConnectSaves, Stops, CollectCommits
<1>4. CASE ConnectPublishes
  <2>1. Unclaimed(daemon.a)
    BY <1>4 DEF ConnectPublishes, IInv, DaemonFits
  <2>2. a # daemon.a
    BY <2>1 DEF Unclaimed, IsPeer
  <2> QED BY <1>1, <1>4, <2>2 DEF ConnectPublishes
<1>5. CASE CollectMoves
  <2>1. dir[daemon.a].conn = daemon.c
    BY <1>5 DEF CollectMoves, IInv, DaemonFits
  <2> QED BY <1>1, <1>5, <2>1 DEF CollectMoves
<1>6. ASSUME NEW c \in Conns, CollectExports(c)
      PROVE  dir'[a] = dir[a]
  BY <1>6 DEF CollectExports
<1>7. \* Nothing else moves the daemon.
      ~Commands
  BY DEF Commands, JoinClaims, LeaveRemoves, RenameMoves, PruneReaps, CommandOnly
<1>8. \A s \in Sessions :
         /\ \A b \in Aliases \cup {AnyName} : ~JoinStarts(s, b)
         /\ \A b \in Aliases : ~Reserve(s, b) /\ \A e \in Aliases : ~Begins(s, b, e)
  BY DEF JoinStarts, Reserve, Begins, CommandOnly
<1>9. \A b \in Aliases : ~(\/ Unreserve(b) \/ PruneSees(b) \/ Unregister(b) \/ Arm(b)
                           \/ Ages(b) \/ Send(b))
  BY DEF Unreserve, PruneSees, Unregister, Arm, Ages, Send, CommandOnly
<1>10. \A c \in Conns : ~(\/ Reconnect(c) \/ Disconnect(c) \/ Deliver(c) \/ Detach(c)
                          \/ ConsumerDies(c) \/ Observe(c) \/ TellNotices(c)
                          \/ CollectRefuses(c) \/ PruneArchive(c))
  BY DEF Reconnect, Disconnect, Deliver, Detach, ConsumerDies, Observe, TellNotices,
         CollectRefuses, PruneArchive
<1> QED BY <1>2, <1>3, <1>4, <1>5, <1>6, <1>7, <1>8, <1>9, <1>10 DEF Next, Connects

\* No command takes the registration of another session that listens or is
\* managed, and no connect or collection takes anybody's, whatever each had
\* read before it had its lock (NobodyIsEvicted).
THEOREM Spared == Spec => NobodyIsEvicted
<1>1. ASSUME IInv, [Next]_vars, NEW a \in Aliases PROVE CommandSpares(a) /\ DaemonSpares(a)
  <2>1. CASE Next
    BY <2>1, <1>1, CommandsSpare, TheDaemonSpares
  <2>2. CASE UNCHANGED vars
    BY <2>2 DEF vars, CommandSpares, DaemonSpares
  <2> QED BY <1>1, <2>1, <2>2
<1>2. IInv /\ [Next]_vars =>
        [\A a \in Aliases :
            /\ op' # op /\ IsPeer(a) /\ dir[a].sid # op.s
                 /\ (op.pc = "leave" \/ Managed(a) \/ Listening(a)) => dir'[a] = dir[a]
            /\ daemon' # daemon /\ IsPeer(a) /\ ~Placeholder(a) /\ dir[a].conn # daemon.c
                 => dir'[a] = dir[a]]_vars
  BY <1>1 DEF CommandSpares, DaemonSpares
<1> QED BY <1>2, Inductive, PTL DEF Spec, NobodyIsEvicted
=============================================================================
