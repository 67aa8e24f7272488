------------------- MODULE ActiveProfile_switch_proofs -------------------
(* One background switch at a time, and what its generation tells apart: for *)
(* every set of proxies, clusters and threads, and every bound.              *)
EXTENDS ActiveProfile_proofs

USE ConstantsAssumption

\* A live thread either switches the profile or works under it.
Switcher(t) == pc[t] # "idle" /\ job[t].kind = "switch"
Worker(t) == pc[t] # "idle" /\ job[t].kind # "switch"

\* The places in the channel that hold a switch's result.
Answers(q) == {i \in 1 .. Len(q) : q[i].kind = "switched"}

\* A switch that worked and whose generation the workers already see: it is on
\* its way to the UI, in its thread or on the channel.
Done(t) == Switcher(t) /\ pc[t] \in {"unlocking", "sending"} /\ ~job[t].failed
Published == (\E t \in Thread : Done(t)) \/ (\E i \in Answers(chan) : chan[i].ok)
Publishing == \E t \in Thread : pc[t] = "publishing"

\* The profile is on a proxy the UI has not heard of.
Moved == Publishing \/ Published

\* What each kind of thread goes through.
KindInv ==
    \A t \in Thread :
        /\ pc[t] \in {"switching", "publishing"} => job[t].kind = "switch"
        /\ Switcher(t) => pc[t] \in {"waiting", "switching", "publishing", "unlocking", "sending"}
        /\ Switcher(t) /\ pc[t] \notin {"unlocking", "sending"} => ~job[t].failed

\* One switch at a time, from its dispatch to the handler of its result.
OneSwitch ==
    /\ \A t, u \in Thread : Switcher(t) /\ Switcher(u) => t = u
    /\ \A i, j \in Answers(chan) : i = j
    /\ \A t \in Thread : Switcher(t) => Answers(chan) = {}

\* It carries the generation after the UI's.
SwitchTag ==
    /\ \A t \in Thread : Switcher(t) => job[t].gen = profileGen + 1 /\ switching # None
    /\ \A i \in Answers(chan) : chan[i].seq = profileGen + 1 /\ switching # None

GenInv == genProfile = IF Published THEN profileGen + 1 ELSE profileGen

SInv == KindInv /\ OneSwitch /\ SwitchTag /\ GenInv

\* What has been, or will be, read for a profile: its generation, and the
\* cluster it was read from.
Seen(s, c) == [seq |-> s, from |-> c]
Reads(q) ==
    {Seen(job[t].gen, job[t].from) : t \in {u \in Thread : Worker(u)}}
        \cup {Seen(r.seq, r.from) : r \in {r \in reads : ProfileRead(r)}}
        \cup {Seen(q[i].seq, q[i].from) : i \in {i \in 1 .. Len(q) : ProfileRead(q[i])}}

\* Nothing but the switch carries a later generation than the UI's.
TagInv == \A o \in Reads(chan) : o.seq <= profileGen

\* While the UI leaves a profile through a login, nothing is left of it.
LeavingInv ==
    terminal \in {"deferred", "profile"} =>
        /\ switching = None /\ selected = None /\ pendingRestore = None
        /\ \A o \in Reads(chan) : o.seq # profileGen

\* No form login goes to another proxy than the one it was opened on, or none did.
Clean == FormProxy = {} \/ ~foreign

\* What was read, and what is shown, under the UI's generation is of the proxy
\* the profile is on.
Here(c) == c # None => c.proxy = disk.proxy
SeenInv ==
    Clean /\ ~Moved =>
        /\ Here(selected) /\ Here(pendingRestore)
        /\ \A o \in Reads(chan) : o.seq = profileGen => Here(o.from)

VInv == TagInv /\ LeavingInv /\ SeenInv

\* Work that its generation still lets through is of that proxy too.
WorkInv ==
    ~foreign /\ ~Publishing =>
        \A t \in Thread : Worker(t) /\ job[t].gen = genProfile => Here(job[t].root)

\* What a listing was read from.
RowsInv ==
    \A t \in Thread : Worker(t) /\ job[t].kind \in Reader =>
        /\ job[t].todo \subseteq ClustersOf(job[t].root.proxy)
        /\ pc[t] \in {"selecting", "listing"} => job[t].cur \in ClustersOf(job[t].root.proxy)
        /\ pc[t] \in {"waiting", "checking", "listing"} => job[t].from = None
        /\ ~raced /\ ~foreign =>
              /\ pc[t] = "listing" => disk = job[t].cur
              /\ pc[t] \in {"restoring", "unlocking", "sending"} /\ job[t].from # None =>
                    job[t].from = job[t].cur

CInv == WorkKeepsToItsProxy /\ RowsInv /\ LockedRowsAreTheirClusters

\* A form that may only go to the proxy it was opened on still does, unless a
\* switch moved the profile under it.
FormInv == FormProxy = {} /\ ~Moved /\ terminal = "form" => login.proxy = disk.proxy

\* A status under the UI's generation is still to be applied: the pool has its
\* job, the follow-up of a login will make it, or it is on the channel.
StatusDue ==
    \/ \E r \in reads : r.kind = "status" /\ r.seq = profileGen
    \/ \E t \in Thread :
          pc[t] \in {"waiting", "status"} \cup Locked /\ job[t].kind = "after" /\ job[t].gen = profileGen
    \/ \E i \in 1 .. Len(chan) : chan[i].kind = "status" /\ chan[i].seq = profileGen

\* The UI's profile is of the proxy on disk, or about to be read again.
HeaderInv ==
    /\ \A i \in 1 .. Len(chan) : chan[i].kind \in Follow
    /\ "status" \notin Follow => profile = None
    /\ "status" \in Follow /\ Clean /\ ~Moved =>
          Here(profile) \/ StatusDue \/ terminal \in {"deferred", "profile", "returned"}

JInv == IInv /\ SInv /\ VInv /\ WorkInv /\ CInv

HInv == JInv /\ FormInv /\ HeaderInv

-----------------------------------------------------------------------------
(* The switch, its result, and its generation.                             *)

\* The same results of switches are on both channels.
SameAnswers(q, p) ==
    /\ \A i \in Answers(p) : \E k \in Answers(q) : p[i] = q[k]
    /\ \A k \in Answers(q) : \E i \in Answers(p) : p[i] = q[k]
    /\ (\A i, j \in Answers(q) : i = j) => (\A i, j \in Answers(p) : i = j)

LEMMA SameRefl == ASSUME NEW q PROVE SameAnswers(q, q)
  BY DEF SameAnswers

LEMMA SameTrans ==
    ASSUME NEW q, NEW p, NEW r, SameAnswers(q, p), SameAnswers(p, r) PROVE SameAnswers(q, r)
<1>1. \A i \in Answers(r) : \E k \in Answers(q) : r[i] = q[k]
  BY DEF SameAnswers
<1>2. \A k \in Answers(q) : \E i \in Answers(r) : r[i] = q[k]
  BY DEF SameAnswers
<1>3. QED
  BY <1>1, <1>2 DEF SameAnswers

LEMMA PostAnswers ==
    ASSUME NEW q \in Seq(Message), NEW m \in Message, m.kind # "switched"
    PROVE  SameAnswers(q, Post(q, m)) /\ Post(q, m) \in Seq(Message)
<1>1. Append(q, m) \in Seq(Message) /\ Len(Append(q, m)) = Len(q) + 1
  OBVIOUS
<1>2. \A i \in 1 .. Len(q) + 1 : Append(q, m)[i] = IF i = Len(q) + 1 THEN m ELSE q[i]
  OBVIOUS
<1>3. Answers(Append(q, m)) = Answers(q) /\ \A i \in Answers(q) : Append(q, m)[i] = q[i]
  BY <1>1, <1>2 DEF Answers
<1>4. SameAnswers(q, Append(q, m))
  BY <1>3 DEF SameAnswers
<1>5. QED
  BY <1>1, <1>4, SameRefl DEF Post

LEMMA RestoreAnswers ==
    ASSUME NEW q \in Seq(Message), NEW j \in Job
    PROVE  SameAnswers(q, PostRestore(q, j)) /\ PostRestore(q, j) \in Seq(Message)
<1>1. /\ Msg("restore_failed", j.gen, j.root, None, FALSE) \in Message
      /\ Msg("restore_failed", j.gen, j.root, None, FALSE).kind # "switched"
  BY DEF Job, Message, Msg, MessageKind
<1>2. QED
  BY <1>1, PostAnswers, SameRefl DEF PostRestore

LEMMA TailAnswers ==
    ASSUME NEW q \in Seq(Message), q # <<>>
    PROVE  /\ Head(q).kind # "switched" => SameAnswers(q, Tail(q))
           /\ Head(q).kind = "switched" /\ (\A i, j \in Answers(q) : i = j) => Answers(Tail(q)) = {}
           /\ Head(q) = q[1] /\ 1 \in 1 .. Len(q)
<1>1. Len(q) \in Nat /\ Len(q) > 0 /\ Head(q) = q[1]
  OBVIOUS
<1>2. Len(Tail(q)) = Len(q) - 1 /\ \A i \in 1 .. Len(q) - 1 : Tail(q)[i] = q[i + 1]
  OBVIOUS
<1>3. \A i \in Answers(Tail(q)) : i + 1 \in Answers(q) /\ Tail(q)[i] = q[i + 1] /\ i \in Nat
  BY <1>1, <1>2 DEF Answers
<1>4. \A k \in Answers(q) : k = 1 \/ (k - 1 \in Answers(Tail(q)) /\ Tail(q)[k - 1] = q[k])
  <2>1. TAKE k \in Answers(q)
  <2>2. CASE k # 1
    <3>1. k - 1 \in 1 .. Len(q) - 1 /\ q[k].kind = "switched" /\ k = (k - 1) + 1
      BY <1>1, <2>2 DEF Answers
    <3>2. Tail(q)[k - 1] = q[k]
      BY <1>2, <3>1
    <3>3. QED
      BY <1>2, <3>1, <3>2 DEF Answers
  <2>3. QED
    BY <2>2
<1>5. ASSUME Head(q).kind # "switched" PROVE SameAnswers(q, Tail(q))
  <2>1. 1 \notin Answers(q)
    BY <1>1, <1>5 DEF Answers
  <2>2. \A i \in Answers(Tail(q)) : \E k \in Answers(q) : Tail(q)[i] = q[k]
    BY <1>3
  <2>3. \A k \in Answers(q) : \E i \in Answers(Tail(q)) : Tail(q)[i] = q[k]
    BY <1>4, <2>1
  <2>4. ASSUME \A i, j \in Answers(q) : i = j PROVE \A i, j \in Answers(Tail(q)) : i = j
    <3>1. \A i, j \in Answers(Tail(q)) : i + 1 = j + 1 /\ i \in Nat /\ j \in Nat
      BY <1>3, <2>4
    <3>2. QED
      BY <3>1
  <2>5. QED
    BY <2>2, <2>3, <2>4 DEF SameAnswers
<1>6. ASSUME Head(q).kind = "switched", \A i, j \in Answers(q) : i = j PROVE Answers(Tail(q)) = {}
  <2>1. 1 \in Answers(q)
    BY <1>1, <1>6 DEF Answers
  <2>2. \A i \in Answers(Tail(q)) : i + 1 = 1 /\ i \in Nat /\ i >= 1
    BY <1>3, <1>6, <2>1 DEF Answers
  <2>3. QED
    BY <2>2
<1>7. QED
  BY <1>1, <1>5, <1>6

\* A step in which no thread switches, and none begins to.
WorkersOnly ==
    \A u \in Thread :
        \/ pc'[u] = pc[u] /\ job'[u] = job[u]
        \/ ~Switcher(u) /\ pc'[u] = "idle"
        \/ ~Switcher(u) /\ pc'[u] \notin {"switching", "publishing"} /\ job'[u].kind # "switch"

LEMMA WorkersKeep ==
    ASSUME SInv, WorkersOnly, SameAnswers(chan, chan'), UNCHANGED <<genProfile, profileGen, switching>>
    PROVE  SInv' /\ (Published' <=> Published) /\ (Publishing' <=> Publishing)
<1>1. \A u \in Thread : Switcher(u)' <=> Switcher(u)
  BY DEF WorkersOnly, Switcher
<1>2. \A u \in Thread : Switcher(u) => pc'[u] = pc[u] /\ job'[u] = job[u]
  BY DEF WorkersOnly
<1>3. KindInv'
  BY <1>1, <1>2 DEF SInv, KindInv, WorkersOnly, Switcher
<1>4. OneSwitch'
  BY <1>1 DEF SInv, OneSwitch, SameAnswers
<1>5. SwitchTag'
  BY <1>1, <1>2 DEF SInv, SwitchTag, SameAnswers
<1>6. \A u \in Thread : Done(u)' <=> Done(u)
  BY <1>1, <1>2 DEF Done
<1>7. Published' <=> Published
  BY <1>6 DEF Published, SameAnswers
<1>8. \A u \in Thread : pc'[u] = "publishing" <=> pc[u] = "publishing"
  BY DEF WorkersOnly, SInv, KindInv, Switcher
<1>9. QED
  BY <1>3, <1>4, <1>5, <1>7, <1>8 DEF SInv, GenInv, Publishing

\* A step of the thread that switches.
LEMMA SwitcherKeeps ==
    ASSUME SInv, NEW t \in Thread, Switcher(t),
           \A u \in Thread \ {t} : pc'[u] = pc[u] /\ job'[u] = job[u],
           job'[t].kind = "switch", job'[t].gen = job[t].gen,
           pc'[t] \in {"switching", "publishing", "unlocking", "sending"},
           pc'[t] \notin {"unlocking", "sending"} => ~job'[t].failed,
           UNCHANGED <<chan, profileGen, switching>>,
           genProfile' = IF pc'[t] \in {"unlocking", "sending"} /\ ~job'[t].failed
                         THEN profileGen + 1 ELSE profileGen
    PROVE  /\ SInv'
           /\ Published' <=> pc'[t] \in {"unlocking", "sending"} /\ ~job'[t].failed
           /\ Publishing' <=> pc'[t] = "publishing"
<1>1. \A u \in Thread : Switcher(u)' <=> u = t
  BY DEF SInv, OneSwitch, Switcher
<1>2. KindInv'
  BY <1>1 DEF SInv, KindInv, Switcher
<1>3. Answers(chan') = {} /\ Answers(chan) = {}
  BY DEF SInv, OneSwitch
<1>4. OneSwitch'
  BY <1>1, <1>3 DEF OneSwitch
<1>5. SwitchTag'
  BY <1>1, <1>3 DEF SInv, SwitchTag
<1>6. Published' <=> pc'[t] \in {"unlocking", "sending"} /\ ~job'[t].failed
  BY <1>1, <1>3 DEF Published, Done
<1>7. Publishing' <=> pc'[t] = "publishing"
  BY DEF SInv, KindInv, OneSwitch, Switcher, Publishing
<1>8. QED
  BY <1>2, <1>4, <1>5, <1>6, <1>7 DEF SInv, GenInv

\* A step after which no switch is under way.
LEMMA NoneKeeps ==
    ASSUME SInv, \A u \in Thread : ~Switcher(u), UNCHANGED threads, Answers(chan') = {},
           genProfile' = profileGen'
    PROVE  SInv' /\ ~Moved'
<1>1. \A u \in Thread : ~Switcher(u)' /\ pc'[u] = pc[u] /\ job'[u] = job[u]
  BY DEF Switcher, threads
<1>2. ~Published'
  BY <1>1 DEF Published, Done
<1>3. ~Publishing'
  BY <1>1 DEF SInv, KindInv, Publishing, Switcher
<1>4. QED
  BY <1>1, <1>2, <1>3 DEF SInv, KindInv, OneSwitch, SwitchTag, GenInv, Moved

\* The one switch decides what the workers and the UI have yet to hear of.
LEMMA SwitcherKnows ==
    ASSUME SInv, NEW t \in Thread, Switcher(t)
    PROVE  /\ Published <=> Done(t)
           /\ Publishing <=> pc[t] = "publishing"
           /\ Answers(chan) = {} /\ job[t].gen = profileGen + 1
<1>1. Answers(chan) = {} /\ job[t].gen = profileGen + 1
  BY DEF SInv, OneSwitch, SwitchTag
<1>2. \A u \in Thread : Switcher(u) => u = t
  BY DEF SInv, OneSwitch
<1>3. QED
  BY <1>1, <1>2 DEF SInv, KindInv, Published, Publishing, Done, Switcher

LEMMA NoSwitch ==
    ASSUME SInv, switching = None
    PROVE  /\ \A u \in Thread : ~Switcher(u)
           /\ Answers(chan) = {} /\ ~Published /\ ~Publishing /\ genProfile = profileGen
  BY DEF SInv, KindInv, SwitchTag, GenInv, Published, Publishing, Done, Switcher

-----------------------------------------------------------------------------
(* The steps of the UI thread that keep the profile and its generation.    *)

LeavingAt(at) == at \in {"deferred", "profile"}

\* What loading the view does to the threads: it starts a listing under `sel`.
Started(u, sel) ==
    /\ sel # None /\ pc[u] = "idle" /\ pc'[u] = "waiting"
    /\ job'[u].kind \in Reader /\ job'[u].gen = profileGen /\ job'[u].from = None
    /\ job'[u].root = RootOf(sel.proxy) /\ job'[u].todo \subseteq ClustersOf(sel.proxy)
Starts(sel) == \A u \in Thread : (pc'[u] = pc[u] /\ job'[u] = job[u]) \/ Started(u, sel)

\* A topology under the one on screen, or one that was read for this profile.
Known(c) ==
    \/ selected # None /\ c.proxy = selected.proxy
    \/ \E o \in Reads(chan) : o.seq = profileGen /\ o.from = c

Calm ==
    /\ UNCHANGED <<disk, lock, genProfile, profileGen, switching, raced, foreign>>
    /\ Starts(selected')
    /\ SameAnswers(chan, chan')
    /\ \A i \in 1 .. Len(chan') : \E k \in 1 .. Len(chan) : chan'[i] = chan[k]
    /\ \A r \in reads' : ProfileRead(r) =>
          r \in reads \/ (r.seq = profileGen /\ r.from = None /\ ~LeavingAt(terminal'))
    /\ selected' # None => Known(selected')
    /\ pendingRestore' # None =>
          \/ pendingRestore' = pendingRestore
          \/ selected # None /\ pendingRestore'.proxy = selected.proxy
    /\ LeavingAt(terminal') =>
          LeavingAt(terminal) /\ UNCHANGED <<threads, selected, pendingRestore>>

LEMMA ClusterIsSome == \A c \in Cluster : c # None
  BY DEF Cluster

LEMMA NoStart == ASSUME NEW sel, UNCHANGED threads PROVE Starts(sel)
  BY DEF Starts, threads

LEMMA SpawnStarts ==
    ASSUME TypeOK, NEW t \in Thread, NEW k \in Reader, NEW s, NEW sel \in Cluster,
           NEW todo \in SUBSET ClustersOf(sel.proxy),
           Spawn(t, "waiting", Work(k, profileGen, s, RootOf(sel.proxy), todo))
    PROVE  Starts(sel)
<1> DEFINE j == Work(k, profileGen, s, RootOf(sel.proxy), todo)
<1>1. /\ j.kind \in Reader /\ j.gen = profileGen /\ j.from = None
      /\ j.root = RootOf(sel.proxy) /\ j.todo \subseteq ClustersOf(sel.proxy)
  BY DEF Work
<1> HIDE DEF j
<1>a. pc \in [Thread -> PC] /\ job \in [Thread -> Job] /\ Spawn(t, "waiting", j) /\ sel # None
  BY ClusterIsSome DEF TypeOK, j
<1>2. pc[t] = "idle" /\ pc'[t] = "waiting" /\ job'[t] = j /\ sel # None
  BY <1>a DEF Spawn
<1>3. \A u \in Thread \ {t} : pc'[u] = pc[u] /\ job'[u] = job[u]
  BY <1>a DEF Spawn
<1>4. Started(t, sel)
  BY <1>1, <1>2 DEF Started
<1>5. QED
  BY <1>3, <1>4 DEF Starts

LEMMA ReloadStarts ==
    ASSUME TypeOK, NEW t \in Thread, NEW sel \in Cluster \cup {None},
           NEW isAdmin \in BOOLEAN, NEW isAgg \in BOOLEAN, isAgg => sel # None,
           ReloadActive(t, sel, isAdmin, isAgg)
    PROVE  Starts(sel)
<1>1. CASE UNCHANGED threads
  BY <1>1, NoStart
<1>2. CASE sel # None /\ AdminStream(t, sel.proxy)
  <2>1. CASE UNCHANGED threads
    BY <2>1, NoStart
  <2>2. ASSUME NEW missing \in SUBSET ClustersOf(sel.proxy),
               Spawn(t, "waiting", Work("stream", profileGen, 0, RootOf(sel.proxy), missing))
        PROVE  Starts(sel)
    <3>1. "stream" \in Reader /\ sel \in Cluster
      BY <1>2 DEF Reader
    <3>2. QED
      BY <2>2, <3>1, SpawnStarts
  <2>3. QED
    BY <1>2, <2>1, <2>2 DEF AdminStream
<1>3. CASE sel # None /\ AdminScoped(t, sel)
  <2>1. CASE genProfile # profileGen
    BY <1>3, <2>1, NoStart DEF AdminScoped
  <2>2. CASE genProfile = profileGen
    <3>1. Spawn(t, "waiting", Work("scoped", profileGen, tabReq + 1, RootOf(sel.proxy), {sel}))
      BY <1>3, <2>2 DEF AdminScoped
    <3>2. "scoped" \in Reader /\ sel \in Cluster /\ {sel} \in SUBSET ClustersOf(sel.proxy)
      BY <1>3 DEF Reader, ClustersOf
    <3>3. QED
      BY <3>1, <3>2, SpawnStarts
  <2>3. QED
    BY <2>1, <2>2
<1>4. QED
  BY <1>1, <1>2, <1>3 DEF ReloadActive

\* PrefetchAll asks for no profile read.
LEMMA PrefetchReads ==
    ASSUME NEW sel, NEW isAgg \in BOOLEAN, PrefetchAll(sel, isAgg, {}), NEW r \in reads', ProfileRead(r)
    PROVE  r \in reads
  BY DEF PrefetchAll, ProfileRead

LEMMA AuxReads ==
    ASSUME NEW kinds, NEW g, NEW r \in Aux(kinds, g)
    PROVE  r.seq = g /\ r.from = None /\ r.kind \in kinds
  BY DEF Aux

LEMMA TailIn ==
    ASSUME NEW q \in Seq(Message), q # <<>>
    PROVE  \A i \in 1 .. Len(Tail(q)) : \E k \in 1 .. Len(q) : Tail(q)[i] = q[k]
<1>1. \A i \in 1 .. Len(Tail(q)) : Tail(q)[i] = q[i + 1] /\ i + 1 \in 1 .. Len(q)
  OBVIOUS
<1>2. QED
  BY <1>1

LEMMA TailKeeps ==
    ASSUME NEW q \in Seq(Message), q # <<>>, NEW i \in 1 .. Len(q), q[i] # Head(q)
    PROVE  \E k \in 1 .. Len(Tail(q)) : Tail(q)[k] = q[i]
<1>1. i # 1
  OBVIOUS
<1>2. i - 1 \in 1 .. Len(Tail(q)) /\ Tail(q)[i - 1] = q[i]
  BY <1>1
<1>3. QED
  BY <1>2

LEMMA UserCalm ==
    ASSUME IInv, User
    PROVE  \/ Calm
           \/ \E t \in Thread, p \in Proxy : SwitchProfile(t, p)
           \/ \E p \in Proxy : ProfileLogin(p)
<1>1. /\ TypeOK /\ (agg => selected # None) /\ SameAnswers(chan, chan)
      /\ selected \in Cluster \cup {None} /\ adminTab \in BOOLEAN /\ agg \in BOOLEAN
  BY SameRefl DEF IInv, TypeOK, ViewInv
<1>2. UNCHANGED chan => SameAnswers(chan, chan') /\ \A i \in 1 .. Len(chan') : \E k \in 1 .. Len(chan) : chan'[i] = chan[k]
  BY <1>1
<1>3. ASSUME NEW t \in Thread, NEW isAdmin \in BOOLEAN, ShowTab(t, isAdmin) PROVE Calm
  <2>1. Starts(selected)
    <3>1. CASE ReloadActive(t, selected, isAdmin, agg)
      BY <1>1, <3>1, ReloadStarts
    <3>2. QED
      BY <1>3, <3>1, NoStart DEF ShowTab, threads
  <2>2. QED
    BY <1>2, <1>3, <2>1 DEF Calm, Known, ShowTab, UserActs, session, history, hand, LeavingAt
<1>4. ASSUME NEW t \in Thread, ShowAllClusters(t) PROVE Calm
  <2>1. selected \in Cluster \cup {None} /\ selected # None /\ TRUE \in BOOLEAN /\ adminTab \in BOOLEAN
    BY <1>1, <1>4 DEF ShowAllClusters
  <2>2. ReloadActive(t, selected, adminTab, TRUE)
    BY <1>4 DEF ShowAllClusters
  <2>3. Starts(selected)
    BY <1>1, <2>1, <2>2, ReloadStarts, Zenon
  <2>4. QED
    BY <1>2, <1>4, <2>3 DEF Calm, Known, ShowAllClusters, UserActs, session, history, hand, LeavingAt
<1>5. ASSUME NEW t \in Thread, NEW c \in Cluster, SelectScopedCluster(t, c) PROVE Calm
  <2>1. Starts(c)
    <3>1. c \in Cluster \cup {None} /\ FALSE \in BOOLEAN /\ adminTab \in BOOLEAN /\ (FALSE => c # None)
      BY <1>1
    <3>2. ReloadActive(t, c, adminTab, FALSE)
      BY <1>5 DEF SelectScopedCluster
    <3>3. QED
      BY <1>1, <3>1, <3>2, ReloadStarts, Zenon
  <2>2. \A r \in reads' : ProfileRead(r) => r \in reads
    <3>1. PrefetchAll(c, FALSE, {}) /\ FALSE \in BOOLEAN
      BY <1>5 DEF SelectScopedCluster
    <3>2. QED
      BY <3>1, PrefetchReads
  <2>3. QED
    BY <1>2, <1>5, <2>1, <2>2 DEF Calm, Known, SelectScopedCluster, UserActs, session, history, hand, LeavingAt
<1>6. CASE RetryClusters
  <2>1. Starts(selected)
    BY <1>6, NoStart DEF RetryClusters
  <2>2. \A r \in reads' : r \in reads \/ (r.seq = profileGen /\ r.from = None)
    BY <1>6, AuxReads DEF RetryClusters
  <2>3. QED
    BY <1>2, <1>6, <2>1, <2>2 DEF Calm, Known, RetryClusters, UserActs, session, history, hand, view, LeavingAt
<1>7. ASSUME NEW p \in Proxy, FormLogin(p) PROVE Calm
  <2>1. Starts(selected)
    BY <1>7, NoStart DEF FormLogin
  <2>2. QED
    BY <1>2, <1>7, <2>1 DEF Calm, Known, FormLogin, shared, session, history, view, LeavingAt
<1>8. ASSUME NEW c \in Cluster, LeafLogin(c) PROVE Calm
  <2>1. Starts(selected)
    BY <1>8, NoStart DEF LeafLogin
  <2>2. QED
    BY <1>2, <1>8, <2>1 DEF Calm, Known, LeafLogin, RootOf, shared, history, view, LeavingAt
<1>9. QED
  BY <1>3, <1>4, <1>5, <1>6, <1>7, <1>8 DEF User

LEMMA HeadRead ==
    ASSUME TypeOK, chan # <<>>, ProfileRead(Head(chan))
    PROVE  Seen(Head(chan).seq, Head(chan).from) \in Reads(chan)
<1>1. Head(chan) = chan[1] /\ 1 \in 1 .. Len(chan)
  BY TailAnswers DEF TypeOK
<1>2. QED
  BY <1>1 DEF Reads

LEMMA ApplyCalm ==
    ASSUME IInv, VInv, NEW t \in Thread, Apply(t)
    PROVE  Calm \/ (Head(chan).kind = "switched" /\ ApplySwitched(Head(chan)))
<1> DEFINE m == Head(chan)
<1>1. /\ TypeOK /\ (agg => selected # None) /\ chan \in Seq(Message) /\ chan # <<>>
      /\ selected \in Cluster \cup {None} /\ adminTab \in BOOLEAN /\ agg \in BOOLEAN
  BY DEF IInv, TypeOK, ViewInv, Apply
<1>2. chan' = Tail(chan) /\ \A i \in 1 .. Len(chan') : \E k \in 1 .. Len(chan) : chan'[i] = chan[k]
  BY <1>1, TailIn DEF Apply
<1>3. m.kind # "switched" => SameAnswers(chan, chan')
  BY <1>1, <1>2, TailAnswers
<1>4. ProfileRead(m) /\ Current(m) =>
        ~LeavingAt(terminal) /\ Seen(m.seq, m.from) \in Reads(chan) /\ m.seq = profileGen
  BY <1>1, HeadRead DEF VInv, LeavingInv, LeavingAt, Seen, Current
<1>5. m.kind = "clusters" => m.from \in Cluster
  BY <1>1, ChannelHead DEF IInv, ChanInv
<1> HIDE DEF m
<1>6. CASE m.kind = "clusters" /\ Current(m) /\ ApplyClusters(t, m)
  <2>1. ~LeavingAt(terminal) /\ Seen(m.seq, m.from) \in Reads(chan) /\ m.seq = profileGen
    BY <1>4, <1>6 DEF ProfileRead
  <2>2. Known(m.from)
    BY <2>1 DEF Known, Seen
  <2>3. Starts(m.from)
    <3>0. m.from \in Cluster
      BY <1>5, <1>6
    <3>1. m.from \in Cluster \cup {None} /\ (agg => m.from # None)
      BY <3>0, ClusterIsSome
    <3>2. ReloadActive(t, m.from, adminTab, agg)
      BY <1>6 DEF ApplyClusters
    <3>3. QED
      BY <1>1, <3>1, <3>2, ReloadStarts, Zenon
  <2>4. \A r \in reads' : ProfileRead(r) => r \in reads
    <3>1. PrefetchAll(m.from, agg, {})
      BY <1>6 DEF ApplyClusters
    <3>2. QED
      BY <1>1, <3>1, PrefetchReads
  <2>5. QED
    BY <1>2, <1>3, <1>6, <2>1, <2>2, <2>3, <2>4 DEF Calm, ApplyClusters, session, hand, history
<1>7. CASE m.kind = "status" /\ Current(m) /\ ApplyStatus(m)
  <2>1. Starts(selected')
    BY <1>7, NoStart DEF ApplyStatus
  <2>2. QED
    BY <1>2, <1>3, <1>7, <2>1 DEF Calm, Known, ApplyStatus, session, hand, history
<1>8. CASE m.kind = "probe" /\ Current(m) /\ ApplyProbe(t, m)
  <2>1. ~LeavingAt(terminal)
    BY <1>4, <1>8 DEF ProfileRead
  <2>2. Starts(selected)
    <3>1. CASE ReloadActive(t, selected, FALSE, agg)
      <4>1. FALSE \in BOOLEAN
        OBVIOUS
      <4>2. QED
        BY <1>1, <3>1, <4>1, ReloadStarts, Zenon
    <3>2. CASE UNCHANGED threads
      BY <3>2, NoStart
    <3>3. QED
      BY <1>8, <3>1, <3>2 DEF ApplyProbe
  <2>3. QED
    BY <1>2, <1>3, <1>8, <2>1, <2>2 DEF Calm, Known, ApplyProbe, session, hand
<1>9. CASE m.kind = "prefetch" /\ ApplyPrefetch(m)
  <2>1. Starts(selected')
    BY <1>9, NoStart DEF ApplyPrefetch
  <2>2. QED
    BY <1>2, <1>3, <1>9, <2>1 DEF Calm, Known, ApplyPrefetch, threads, session, hand, history
<1>10. CASE /\ m.kind \in Reader \cup {"restore_failed"} \/ ~Current(m)
            /\ UNCHANGED <<disk, lock, genProfile, tabReq, prefetchSeq, reads, threads, view,
                           session, hand, history>>
  <2>1. Starts(selected')
    BY <1>10, NoStart
  <2>2. m.kind # "switched"
    BY <1>10 DEF Current, ProfileRead, Reader
  <2>3. QED
    BY <1>2, <1>3, <1>10, <2>1, <2>2 DEF Calm, Known, threads, view, session, hand, history
<1>11. QED
  BY <1>6, <1>7, <1>8, <1>9, <1>10 DEF Apply, m

LEMMA StutterCalm == ASSUME IInv, UNCHANGED vars PROVE Calm
<1>1. SameAnswers(chan, chan) /\ Starts(selected')
  BY SameRefl, NoStart DEF vars
<1>2. QED
  BY <1>1 DEF Calm, Known, vars, shared, threads, view, session, hand, history

LEMMA DeferredCalm == ASSUME IInv, TakeDeferred PROVE Calm
<1>1. SameAnswers(chan, chan) /\ Starts(selected')
  BY SameRefl, NoStart DEF TakeDeferred
<1>2. QED
  BY <1>1 DEF Calm, Known, TakeDeferred, LeavingAt, shared, threads, view, session, history

-----------------------------------------------------------------------------
(* The threads.                                                            *)

\* What `p` has that `q` has not is no profile read, or this one.
NewOnly(q, p, s, c) ==
    \A i \in 1 .. Len(p) : ProfileRead(p[i]) =>
        (\E k \in 1 .. Len(q) : p[i] = q[k]) \/ (p[i].seq = s /\ p[i].from = c)

LEMMA PostNew ==
    ASSUME NEW q \in Seq(Message), NEW m \in Message, NEW s, NEW c,
           ProfileRead(m) => m.seq = s /\ m.from = c
    PROVE  NewOnly(q, Post(q, m), s, c)
<1>1. Len(Append(q, m)) = Len(q) + 1
  OBVIOUS
<1>2. \A i \in 1 .. Len(q) + 1 : Append(q, m)[i] = m \/ (i \in 1 .. Len(q) /\ Append(q, m)[i] = q[i])
  OBVIOUS
<1>3. NewOnly(q, Append(q, m), s, c)
  BY <1>1, <1>2 DEF NewOnly
<1>4. QED
  BY <1>3 DEF NewOnly, Post

NoneNew(q, p) ==
    \A i \in 1 .. Len(p) : ProfileRead(p[i]) => \E k \in 1 .. Len(q) : p[i] = q[k]

LEMMA PostNone ==
    ASSUME NEW q \in Seq(Message), NEW m \in Message, ~ProfileRead(m)
    PROVE  NoneNew(q, Append(q, m))
<1>1. Len(Append(q, m)) = Len(q) + 1
  OBVIOUS
<1>2. \A i \in 1 .. Len(q) + 1 : Append(q, m)[i] = m \/ (i \in 1 .. Len(q) /\ Append(q, m)[i] = q[i])
  OBVIOUS
<1>3. QED
  BY <1>1, <1>2 DEF NoneNew

LEMMA RestoreNew ==
    ASSUME NEW q \in Seq(Message), NEW j \in Job, NEW s, NEW c
    PROVE  NewOnly(q, PostRestore(q, j), s, c)
<1> DEFINE m == Msg("restore_failed", j.gen, j.root, None, FALSE)
<1>1. m \in Message /\ ~ProfileRead(m)
  BY DEF Job, Message, Msg, MessageKind, ProfileRead
<1>2. NewOnly(q, Post(q, m), s, c)
  BY <1>1, PostNew
<1>3. QED
  BY <1>2 DEF PostRestore, NewOnly

LEMMA NewTrans ==
    ASSUME NEW q, NEW p, NEW r, NEW s, NEW c, NewOnly(q, p, s, c), NewOnly(p, r, s, c)
    PROVE  NewOnly(q, r, s, c)
<1>1. ASSUME NEW i \in 1 .. Len(r), ProfileRead(r[i])
      PROVE  (\E k \in 1 .. Len(q) : r[i] = q[k]) \/ (r[i].seq = s /\ r[i].from = c)
  <2>1. CASE r[i].seq = s /\ r[i].from = c
    BY <2>1
  <2>2. ASSUME NEW k \in 1 .. Len(p), r[i] = p[k]
        PROVE  (\E n \in 1 .. Len(q) : r[i] = q[n]) \/ (r[i].seq = s /\ r[i].from = c)
    BY <1>1, <2>2 DEF NewOnly
  <2>3. QED
    BY <1>1, <2>1, <2>2 DEF NewOnly
<1>2. QED
  BY <1>1 DEF NewOnly

\* A thread's step is its own, and is not the UI's.
LEMMA ThreadFrame ==
    ASSUME TypeOK, NEW t \in Thread, ThreadStep(t)
    PROVE  /\ \A u \in Thread \ {t} : pc'[u] = pc[u] /\ job'[u] = job[u]
           /\ UNCHANGED <<reads, selected, profileGen, switching, pendingRestore, terminal, foreign, raced>>
<1>1. UNCHANGED <<reads, selected, profileGen, switching, pendingRestore, terminal, foreign, raced>>
  BY DEF ThreadStep, Acquire, Check, Select, List, Restore, Switch, Publish, Unlock, Send, Refresh,
         RestUnchanged, view, session, hand
<1>2. pc \in [Thread -> PC] /\ job \in [Thread -> Job]
  BY DEF TypeOK
<1>3. ASSUME NEW u \in Thread \ {t} PROVE pc'[u] = pc[u] /\ job'[u] = job[u]
  <2>1. Acquire(t) \/ Check(t) \/ Select(t) => pc'[u] = pc[u] /\ job'[u] = job[u]
    BY <1>2 DEF Acquire, Check, Select, Goto
  <2>2. List(t) \/ Restore(t) \/ Switch(t) => pc'[u] = pc[u] /\ job'[u] = job[u]
    BY <1>2 DEF List, Restore, Switch, Goto
  <2>3. Publish(t) \/ Unlock(t) => pc'[u] = pc[u] /\ job'[u] = job[u]
    BY <1>2 DEF Publish, Unlock, Goto
  <2>4. Send(t) => pc'[u] = pc[u] /\ job'[u] = job[u]
    BY <1>2 DEF Send, Finish, Goto
  <2>5. Refresh(t) => pc'[u] = pc[u] /\ job'[u] = job[u]
    BY <1>2 DEF Refresh, Finish, Goto
  <2>6. QED
    BY <2>1, <2>2, <2>3, <2>4, <2>5 DEF ThreadStep
<1>4. QED
  BY <1>1, <1>3

\* What a working thread keeps: its kind, its generation and its root.
Keeps(t) ==
    /\ job'[t].kind = job[t].kind /\ job'[t].gen = job[t].gen /\ job'[t].root = job[t].root
    /\ job'[t].from \in {job[t].from, None, disk}
Moves(t) ==
    \/ pc'[t] = "idle"
    \/ pc'[t] \notin {"idle", "switching", "publishing"} /\ Keeps(t)

LEMMA WorkerMoves ==
    ASSUME IInv, KindInv, NEW t \in Thread, Worker(t), ThreadStep(t)
    PROVE  /\ Moves(t) /\ genProfile' = genProfile /\ disk'.proxy = disk.proxy
           /\ SameAnswers(chan, chan') /\ NewOnly(chan, chan', job[t].gen, job[t].from)
<1>1. /\ TypeOK /\ pc \in [Thread -> PC] /\ job \in [Thread -> Job] /\ chan \in Seq(Message)
      /\ disk \in Cluster /\ job[t] \in Job
  BY DEF IInv, TypeOK
<1>2. pc[t] \notin {"switching", "publishing"} /\ job[t].kind # "switch" /\ pc[t] # "idle"
  BY DEF KindInv, Worker
<1>3. UNCHANGED chan => SameAnswers(chan, chan') /\ NewOnly(chan, chan', job[t].gen, job[t].from)
  BY SameRefl DEF NewOnly
<1>4. CASE Acquire(t)
  BY <1>1, <1>2, <1>3, <1>4 DEF Acquire, Goto, Moves, Keeps
<1>5. CASE Check(t)
  <2>1. Moves(t)
    <3>1. CASE ~StillWanted(job[t])
      BY <1>1, <1>5, <3>1 DEF Check, Goto, Moves, Keeps, Job
    <3>2. CASE StillWanted(job[t]) /\ job[t].kind = "after"
      BY <1>1, <1>5, <3>2 DEF Check, Goto, Moves, Keeps
    <3>3. CASE StillWanted(job[t]) /\ job[t].kind # "after"
      <4>1. PICK c \in job[t].todo :
               Goto(t, "selecting") /\ job' = [job EXCEPT ![t].cur = c, ![t].restore = TRUE]
        BY <1>5, <3>3 DEF Check
      <4>2. QED
        BY <1>1, <4>1 DEF Goto, Moves, Keeps, Job
    <3>4. QED
      BY <3>1, <3>2, <3>3
  <2>2. QED
    BY <1>3, <1>5, <2>1 DEF Check
<1>6. CASE Select(t)
  <2>1. Moves(t)
    BY <1>1, <1>6 DEF Select, Goto, Moves, Keeps, Job
  <2>2. disk'.proxy = disk.proxy
    BY <1>1, <1>6 DEF Select, Selected, Cluster
  <2>3. QED
    BY <1>3, <1>6, <2>1, <2>2 DEF Select
<1>7. CASE List(t)
  <2>1. Moves(t)
    BY <1>1, <1>7 DEF List, Goto, Moves, Keeps, Job
  <2>2. QED
    BY <1>3, <1>7, <2>1 DEF List
<1>8. CASE Restore(t)
  <2>1. Moves(t)
    BY <1>1, <1>8 DEF Restore, Goto, Moves, Keeps, Job
  <2>2. disk'.proxy = disk.proxy
    BY <1>1, <1>8 DEF Restore, Selected, Cluster
  <2>3. QED
    BY <1>3, <1>8, <2>1, <2>2 DEF Restore
<1>9. CASE Unlock(t)
  BY <1>1, <1>2, <1>3, <1>9 DEF Unlock, Goto, Moves, Keeps
<1>10. CASE Send(t)
  <2> DEFINE j == job[t]
             m == Msg(j.kind, j.seq, j.cur, j.from, j.from # None)
  <2>1. UNCHANGED <<disk, genProfile>>
    BY <1>10 DEF Send
  <2>2. CASE j.kind \in Reader /\ j.restore
    <3>1. m \in Message /\ m.kind \in Reader
      BY <1>1, <2>2 DEF Job, Message, Msg, MessageKind
    <3>2. m.kind # "switched" /\ ~ProfileRead(m)
      BY <3>1 DEF Reader, ProfileRead
    <3> DEFINE q == Post(chan, m)
    <3>3. q \in Seq(Message) /\ SameAnswers(chan, q) /\ NewOnly(chan, q, j.gen, j.from)
      BY <1>1, <3>1, <3>2, PostAnswers, PostNew
    <3>4. chan' = PostRestore(q, j)
      BY <1>2, <1>10, <2>2 DEF Send
    <3> HIDE DEF q, m
    <3>5. SameAnswers(q, chan') /\ NewOnly(q, chan', j.gen, j.from)
      BY <1>1, <3>3, <3>4, RestoreAnswers, RestoreNew
    <3>6. SameAnswers(chan, chan') /\ NewOnly(chan, chan', j.gen, j.from)
      BY <3>3, <3>5, SameTrans, NewTrans
    <3>7. Moves(t)
      <4>1. CASE Finish(t)
        BY <1>1, <4>1 DEF Finish, Goto, Moves
      <4>2. CASE /\ Goto(t, "waiting")
                 /\ job' = [job EXCEPT ![t] = [j EXCEPT !.todo = j.todo \ {j.cur}, !.cur = j.root,
                                                        !.restore = FALSE, !.from = None]]
        BY <1>1, <4>2 DEF Goto, Moves, Keeps, Job
      <4>3. QED
        BY <1>10, <2>2, <4>1, <4>2 DEF Send
    <3>8. QED
      BY <2>1, <3>6, <3>7
  <2>3. CASE j.kind \in Reader /\ ~j.restore
    BY <1>1, <1>2, <1>3, <1>10, <2>1, <2>3 DEF Send, Finish, Goto, Moves
  <2>4. QED
    BY <1>2, <1>10, <2>2, <2>3 DEF Send
<1>11. CASE Refresh(t)
  <2> DEFINE j == job[t]
  <2>1. UNCHANGED <<disk, genProfile>>
    BY <1>11 DEF Refresh
  <2>2. CASE j.from = None
    <3>1. Moves(t) /\ UNCHANGED chan
      BY <1>1, <1>2, <1>11, <2>2 DEF Refresh, Moves, Keeps, Job
    <3>2. QED
      BY <1>3, <2>1, <3>1
  <2>3. CASE j.from # None /\ pc[t] = "probing"
    <3>1. PICK ok \in BOOLEAN :
             chan' = PostRestore(Post(chan, Msg("probe", j.gen, None, j.from, ok)), j)
      BY <1>11, <2>3 DEF Refresh, ProbeAnswers
    <3> DEFINE m == Msg("probe", j.gen, None, j.from, ok)
               q == Post(chan, m)
    <3>2. m \in Message /\ m.kind # "switched" /\ m.seq = j.gen /\ m.from = j.from
      BY <1>1 DEF Job, Message, Msg, MessageKind
    <3>3. q \in Seq(Message) /\ SameAnswers(chan, q) /\ NewOnly(chan, q, j.gen, j.from)
      BY <1>1, <3>2, PostAnswers, PostNew
    <3> HIDE DEF m
    <3>4. SameAnswers(q, chan') /\ NewOnly(q, chan', j.gen, j.from)
      BY <1>1, <3>1, <3>3, RestoreAnswers, RestoreNew DEF m
    <3>5. Moves(t)
      BY <1>1, <1>11, <2>3 DEF Refresh, Finish, Goto, Moves
    <3> HIDE DEF q
    <3>6. QED
      BY <2>1, <3>3, <3>4, <3>5, SameTrans, NewTrans
  <2>4. CASE j.from # None /\ pc[t] # "probing"
    <3> DEFINE m == Msg(pc[t], j.gen, None, j.from, TRUE)
    <3>1. chan' = Post(chan, m) /\ pc[t] \in {"status", "clusters"}
      BY <1>11, <2>4 DEF Refresh
    <3>2. m \in Message /\ m.kind # "switched" /\ m.seq = j.gen /\ m.from = j.from
      BY <1>1, <3>1 DEF Job, Message, Msg, MessageKind
    <3> HIDE DEF m
    <3>3. SameAnswers(chan, chan') /\ NewOnly(chan, chan', j.gen, j.from)
      BY <1>1, <3>1, <3>2, PostAnswers, PostNew
    <3>4. Moves(t)
      BY <1>1, <1>11, <2>4, <3>1 DEF Refresh, Goto, Moves, Keeps, Job, AfterRead
    <3>5. QED
      BY <2>1, <3>3, <3>4
  <2>5. QED
    BY <2>2, <2>3, <2>4
<1>12. QED
  BY <1>2, <1>4, <1>5, <1>6, <1>7, <1>8, <1>9, <1>10, <1>11 DEF ThreadStep, Switch, Publish

\* A step of the thread that switches moves the profile only on the way to a new
\* generation, and only its own result is new on the channel.
SwitcherMoves(t) ==
    /\ pc'[t] = "idle" \/ job'[t].kind = "switch"
    /\ NoneNew(chan, chan')
    /\ disk' = disk \/ Publishing'
    /\ ~Publishing' => genProfile' = profileGen + 1 \/ (genProfile' = genProfile /\ ~Publishing)

LEMMA SwitcherSteps ==
    ASSUME IInv, SInv, NEW t \in Thread, Switcher(t), ThreadStep(t)
    PROVE  SInv' /\ (Moved => Moved') /\ SwitcherMoves(t)
<1>1. /\ TypeOK /\ pc \in [Thread -> PC] /\ job \in [Thread -> Job] /\ chan \in Seq(Message)
      /\ job[t] \in Job /\ profileGen \in Nat
  BY DEF IInv, TypeOK
<1>2. /\ pc[t] \in {"waiting", "switching", "publishing", "unlocking", "sending"}
      /\ pc[t] \notin {"unlocking", "sending"} => ~job[t].failed
      /\ job[t].kind = "switch"
  BY DEF SInv, KindInv, Switcher
<1>3. /\ \A u \in Thread \ {t} : pc'[u] = pc[u] /\ job'[u] = job[u]
      /\ UNCHANGED <<profileGen, switching>>
  BY <1>1, ThreadFrame
<1>4. /\ Published <=> Done(t)
      /\ Publishing <=> pc[t] = "publishing"
      /\ Answers(chan) = {} /\ job[t].gen = profileGen + 1
  BY SwitcherKnows
<1>5. genProfile = IF Published THEN profileGen + 1 ELSE profileGen
  BY DEF SInv, GenInv
<1>6. UNCHANGED chan => NoneNew(chan, chan')
  BY DEF NoneNew
<1>7. ASSUME job'[t].kind = "switch", job'[t].gen = job[t].gen,
             pc'[t] \in {"switching", "publishing", "unlocking", "sending"},
             pc'[t] \notin {"unlocking", "sending"} => ~job'[t].failed,
             UNCHANGED chan,
             genProfile' = IF pc'[t] \in {"unlocking", "sending"} /\ ~job'[t].failed
                           THEN profileGen + 1 ELSE profileGen
      PROVE  /\ SInv'
             /\ Published' <=> pc'[t] \in {"unlocking", "sending"} /\ ~job'[t].failed
             /\ Publishing' <=> pc'[t] = "publishing"
  BY <1>3, <1>7, SwitcherKeeps
<1>8. CASE Acquire(t)
  <2>1. /\ pc'[t] = "switching" /\ job'[t] = job[t] /\ UNCHANGED <<chan, genProfile, disk>>
        /\ pc[t] = "waiting"
    BY <1>1, <1>2, <1>8 DEF Acquire, Goto
  <2>2. SInv' /\ ~Published' /\ ~Publishing' /\ ~Published /\ ~Publishing
    BY <1>2, <1>4, <1>5, <1>7, <2>1 DEF Done
  <2>3. QED
    BY <1>2, <1>6, <2>1, <2>2 DEF SwitcherMoves, Moved
<1>9. CASE Switch(t)
  <2>1. CASE pc'[t] = "publishing" /\ job'[t] = job[t]
    <3>1. UNCHANGED <<chan, genProfile>> /\ pc[t] = "switching"
      BY <1>9 DEF Switch
    <3>2. SInv' /\ Publishing'
      BY <1>2, <1>4, <1>5, <1>7, <2>1, <3>1 DEF Done
    <3>3. QED
      BY <1>2, <1>6, <2>1, <3>1, <3>2 DEF SwitcherMoves, Moved
  <2>2. CASE pc'[t] = "unlocking" /\ job' = [job EXCEPT ![t].failed = TRUE] /\ UNCHANGED disk
    <3>1. /\ job'[t].kind = "switch" /\ job'[t].gen = job[t].gen /\ job'[t].failed
          /\ UNCHANGED <<chan, genProfile>> /\ pc[t] = "switching"
      BY <1>1, <1>2, <1>9, <2>2 DEF Switch, Job
    <3>2. SInv' /\ ~Published' /\ ~Publishing' /\ ~Published /\ ~Publishing
      BY <1>2, <1>4, <1>5, <1>7, <2>2, <3>1 DEF Done
    <3>3. QED
      BY <1>6, <2>2, <3>1, <3>2 DEF SwitcherMoves, Moved
  <2>3. QED
    BY <1>1, <1>9, <2>1, <2>2 DEF Switch, Goto
<1>10. CASE Publish(t)
  <2>1. /\ pc'[t] = "unlocking" /\ job'[t] = job[t] /\ pc[t] = "publishing"
        /\ UNCHANGED <<chan, disk>> /\ genProfile' = job[t].gen
    BY <1>1, <1>10 DEF Publish, Goto
  <2>2. SInv' /\ Published' /\ ~Publishing'
    BY <1>2, <1>4, <1>7, <2>1
  <2>3. QED
    BY <1>2, <1>4, <1>6, <2>1, <2>2 DEF SwitcherMoves, Moved
<1>11. CASE Unlock(t)
  <2>1. /\ pc'[t] = "sending" /\ job'[t] = job[t] /\ pc[t] = "unlocking"
        /\ UNCHANGED <<chan, disk, genProfile>>
    BY <1>1, <1>2, <1>11 DEF Unlock, Goto
  <2>2. SInv' /\ (Published' <=> Published) /\ ~Publishing' /\ ~Publishing
    BY <1>2, <1>4, <1>5, <1>7, <2>1 DEF Done, Switcher
  <2>3. QED
    BY <1>2, <1>6, <2>1, <2>2 DEF SwitcherMoves, Moved
<1>12. CASE Send(t)
  <2> DEFINE m == Msg("switched", job[t].gen, job[t].root, None, ~job[t].failed)
  <2>1. /\ chan' = Append(chan, m) /\ pc'[t] = "idle" /\ pc[t] = "sending"
        /\ UNCHANGED <<disk, genProfile>>
    BY <1>1, <1>2, <1>12 DEF Send, Reader, Finish, Goto, Post, Msg
  <2>2. /\ m \in Message /\ m.kind = "switched" /\ m.seq = job[t].gen /\ ~ProfileRead(m)
        /\ m.ok <=> ~job[t].failed
    BY <1>1 DEF Job, Message, Msg, MessageKind, ProfileRead
  <2>3. NoneNew(chan, chan')
    BY <1>1, <2>1, <2>2, PostNone
  <2> HIDE DEF m
  <2>4. Answers(chan') = {Len(chan) + 1} /\ chan'[Len(chan) + 1] = m
    <3>1. Len(chan') = Len(chan) + 1 /\ chan'[Len(chan) + 1] = m /\ Len(chan) \in Nat
      BY <1>1, <2>1, <2>2
    <3>2. \A i \in 1 .. Len(chan) : chan'[i] = chan[i]
      BY <1>1, <2>1, <2>2
    <3>3. \A i \in 1 .. Len(chan) : chan[i].kind # "switched"
      BY <1>4 DEF Answers
    <3>4. QED
      BY <2>2, <3>1, <3>2, <3>3 DEF Answers
  <2>5. \A u \in Thread : ~Switcher(u)'
    BY <1>3, <2>1 DEF SInv, OneSwitch, Switcher
  <2>6. switching # None
    BY DEF SInv, SwitchTag
  <2>7. KindInv' /\ ~Publishing' /\ \A u \in Thread : ~Done(u)'
    BY <1>3, <2>1, <2>5 DEF SInv, KindInv, Publishing, Done, Switcher
  <2>8. Published' <=> Published
    BY <1>4, <2>1, <2>2, <2>4, <2>7 DEF Published, Done
  <2>9. SInv'
    BY <1>3, <1>4, <1>5, <2>1, <2>2, <2>4, <2>5, <2>6, <2>7, <2>8 DEF SInv, OneSwitch, SwitchTag, GenInv
  <2>10. QED
    BY <1>4, <2>1, <2>3, <2>7, <2>8, <2>9 DEF SwitcherMoves, Moved
<1>13. QED
  BY <1>2, <1>8, <1>9, <1>10, <1>11, <1>12 DEF ThreadStep, Check, Select, List, Restore, Refresh

LEMMA WorkerSteps ==
    ASSUME IInv, SInv, NEW t \in Thread, Worker(t), ThreadStep(t)
    PROVE  SInv' /\ (Moved' <=> Moved) /\ (Publishing' <=> Publishing)
<1>1. /\ \A u \in Thread \ {t} : pc'[u] = pc[u] /\ job'[u] = job[u]
      /\ UNCHANGED <<profileGen, switching>>
  BY ThreadFrame DEF IInv
<1>2. Moves(t) /\ genProfile' = genProfile /\ SameAnswers(chan, chan')
  BY WorkerMoves DEF SInv
<1>3. WorkersOnly
  BY <1>1, <1>2 DEF WorkersOnly, Moves, Keeps, Worker, Switcher
<1>4. QED
  BY <1>1, <1>2, <1>3, WorkersKeep DEF Moved

LEMMA CalmSwitch == ASSUME SInv, Calm PROVE SInv' /\ (Moved' <=> Moved) /\ (Publishing' <=> Publishing)
<1>1. WorkersOnly
  BY DEF Calm, Starts, Started, WorkersOnly, Switcher, Reader
<1>2. QED
  BY <1>1, WorkersKeep DEF Calm, Moved

\* A live thread takes its steps as a switch or as work.
LEMMA StepsAlive == ASSUME NEW t \in Thread, ThreadStep(t) PROVE Switcher(t) \/ Worker(t)
  BY DEF ThreadStep, Acquire, Check, Select, List, Restore, Switch, Publish, Unlock, Send, Refresh,
         Switcher, Worker

-----------------------------------------------------------------------------
(* The UI's part of a switch, and of a login.                              *)

LEMMA EntersProfile ==
    ASSUME NEW g, NEW more, EnterProfile(g, more)
    PROVE  /\ profileGen' = g /\ genProfile' = g /\ selected' = None /\ pendingRestore' = None
           /\ reads' = reads \cup more
  BY DEF EnterProfile

\* The UI asks for a switch: there was none.
LEMMA SwitchBegins ==
    ASSUME IInv, SInv, NEW t \in Thread, NEW p \in Proxy, SwitchProfile(t, p)
    PROVE  /\ SInv' /\ ~Moved' /\ ~Moved /\ ~Publishing' /\ Switcher(t)'
           /\ pc[t] = "idle" /\ \A u \in Thread \ {t} : pc'[u] = pc[u] /\ job'[u] = job[u]
<1> DEFINE j == Work("switch", profileGen + 1, 0, RootOf(p), {})
<1>1. pc \in [Thread -> PC] /\ job \in [Thread -> Job]
  BY DEF IInv, TypeOK
<1>2. j.kind = "switch" /\ j.gen = profileGen + 1 /\ ~j.failed
  BY DEF Work
<1>3. /\ Spawn(t, "waiting", j) /\ switching = None /\ switching' = p /\ UNCHANGED <<chan, genProfile, profileGen>>
  BY DEF SwitchProfile, shared
<1> HIDE DEF j
<1>4. /\ pc[t] = "idle" /\ pc'[t] = "waiting" /\ job'[t] = j
      /\ \A u \in Thread \ {t} : pc'[u] = pc[u] /\ job'[u] = job[u]
  BY <1>1, <1>3 DEF Spawn
<1>5. /\ \A u \in Thread : ~Switcher(u)
      /\ Answers(chan) = {} /\ ~Published /\ ~Publishing /\ genProfile = profileGen
  BY <1>3, NoSwitch
<1>6. \A u \in Thread : Switcher(u)' <=> u = t
  BY <1>2, <1>4, <1>5 DEF Switcher
<1>7. ~Published' /\ ~Publishing'
  BY <1>3, <1>4, <1>5, <1>6 DEF Published, Publishing, Done
<1>8. KindInv' /\ OneSwitch'
  BY <1>2, <1>3, <1>4, <1>5, <1>6 DEF SInv, KindInv, OneSwitch, Switcher
<1>9. SwitchTag' /\ GenInv'
  BY <1>2, <1>3, <1>4, <1>5, <1>6, <1>7 DEF SwitchTag, GenInv
<1>10. QED
  BY <1>4, <1>5, <1>6, <1>7, <1>8, <1>9 DEF SInv, Moved

LEMMA LoginBegins ==
    ASSUME IInv, SInv, NEW p \in Proxy, ProfileLogin(p)
    PROVE  /\ SInv' /\ ~Moved' /\ ~Publishing' /\ UNCHANGED threads /\ genProfile' = profileGen + 1
           /\ switching' = None
<1>1. switching = None /\ UNCHANGED <<threads, chan, switching>> /\ EnterProfile(profileGen + 1, {})
  BY DEF ProfileLogin
<1>2. SInv' /\ ~Moved'
  BY <1>1, NoSwitch, NoneKeeps, EntersProfile
<1>3. QED
  BY <1>1, <1>2, EntersProfile DEF Moved

\* The UI learns how the switch ended.
LEMMA SwitchEnds ==
    ASSUME IInv, SInv, NEW t \in Thread, Apply(t), Head(chan).kind = "switched", ApplySwitched(Head(chan))
    PROVE  /\ SInv' /\ ~Moved' /\ ~Publishing /\ ~Publishing' /\ UNCHANGED threads
           /\ Head(chan).seq = profileGen + 1 /\ switching # None
           /\ ~Head(chan).ok => ~Moved
<1> DEFINE m == Head(chan)
<1>1. chan \in Seq(Message) /\ chan # <<>> /\ chan' = Tail(chan) /\ UNCHANGED threads /\ profileGen \in Nat
  BY DEF IInv, TypeOK, Apply, ApplySwitched
<1>2. m = chan[1] /\ 1 \in Answers(chan) /\ Answers(chan') = {}
  BY <1>1, TailAnswers DEF SInv, OneSwitch, Answers
<1>3. \A u \in Thread : ~Switcher(u)
  BY <1>2 DEF SInv, OneSwitch
<1>4. m.seq = profileGen + 1 /\ switching # None
  BY <1>2 DEF SInv, SwitchTag
<1>5. (Published <=> m.ok) /\ ~Publishing
  BY <1>2, <1>3 DEF SInv, OneSwitch, KindInv, Published, Publishing, Done, Switcher
<1>6. genProfile' = profileGen'
  <2>1. ~m.ok => genProfile = profileGen
    BY <1>5 DEF SInv, GenInv
  <2>2. QED
    BY <2>1, EntersProfile DEF ApplySwitched
<1>7. SInv' /\ ~Moved'
  BY <1>1, <1>2, <1>3, <1>6, NoneKeeps
<1>8. QED
  BY <1>1, <1>4, <1>5, <1>7 DEF Moved

\* What the follow-up of an interactive command carries.
AfterStarts(t) ==
    /\ \A u \in Thread \ {t} : pc'[u] = pc[u] /\ job'[u] = job[u]
    /\ pc[t] = "idle" /\ pc'[t] \in {"waiting", "status"}
    /\ job'[t].kind = "after" /\ job'[t].gen = profileGen /\ job'[t].from = None
    /\ job'[t].root = IF pendingRestore = None THEN disk ELSE pendingRestore

LEMMA AfterBegins ==
    ASSUME IInv, SInv, NEW t \in Thread, AfterAction(t)
    PROVE  AfterStarts(t) /\ SInv' /\ (Moved' <=> Moved) /\ (Publishing' <=> Publishing)
<1> DEFINE root == IF pendingRestore = None THEN disk ELSE pendingRestore
           at == IF pendingRestore = None THEN "status" ELSE "waiting"
           w == Work("after", profileGen, 0, root, {})
           j == [w EXCEPT !.restore = pendingRestore # None]
<1>1. Spawn(t, at, j)
  BY DEF AfterAction
<1>2. j.kind = "after" /\ j.gen = profileGen /\ j.from = None /\ j.root = root
  BY DEF Work
<1>3. at \in {"waiting", "status"} /\ at # "idle"
  OBVIOUS
<1>4. pc \in [Thread -> PC] /\ job \in [Thread -> Job]
  BY DEF IInv, TypeOK
<1> HIDE DEF j, at
<1>5. /\ pc[t] = "idle" /\ pc'[t] = at /\ job'[t] = j
      /\ \A u \in Thread \ {t} : pc'[u] = pc[u] /\ job'[u] = job[u]
  BY <1>1, <1>4 DEF Spawn
<1>6. AfterStarts(t)
  BY <1>2, <1>3, <1>5 DEF AfterStarts
<1>7. WorkersOnly /\ SameAnswers(chan, chan') /\ UNCHANGED <<genProfile, profileGen, switching>>
  BY <1>6, SameRefl DEF AfterStarts, WorkersOnly, Switcher, AfterAction, shared
<1>8. QED
  BY <1>6, <1>7, WorkersKeep DEF Moved

LEMMA LoginOver ==
    ASSUME IInv, SInv, LoginEnds
    PROVE  SInv' /\ (Moved' <=> Moved) /\ (Publishing' <=> Publishing)
<1>1. WorkersOnly /\ SameAnswers(chan, chan') /\ UNCHANGED <<genProfile, profileGen, switching>>
  BY SameRefl DEF WorkersOnly, LoginEnds, threads, session
<1>2. QED
  BY <1>1, WorkersKeep DEF Moved

LEMMA PoolKeeps ==
    ASSUME IInv, SInv, NEW r \in reads, PoolStep(r)
    PROVE  /\ SInv' /\ (Moved' <=> Moved) /\ (Publishing' <=> Publishing)
           /\ chan' # chan => NewOnly(chan, chan', r.seq, r.from)
<1>1. chan \in Seq(Message) /\ r \in Read
  BY DEF IInv, TypeOK
<1>2. WorkersOnly /\ UNCHANGED <<genProfile, profileGen, switching>>
  BY DEF WorkersOnly, PoolStep, threads, session
<1>3. SameAnswers(chan, chan') /\ (chan' # chan => NewOnly(chan, chan', r.seq, r.from))
  <2>1. CASE UNCHANGED chan
    BY <2>1, SameRefl
  <2>2. CASE PoolSend(r)
    <3>1. PICK ok \in BOOLEAN : chan' = Post(chan, Msg(r.kind, r.seq, r.label, r.from, ok))
      BY <2>2 DEF PoolSend, ProbeAnswers
    <3> DEFINE m == Msg(r.kind, r.seq, r.label, r.from, ok)
    <3>2. m \in Message /\ m.kind # "switched" /\ m.seq = r.seq /\ m.from = r.from
      BY <1>1 DEF Read, Message, MessageKind, Msg
    <3> HIDE DEF m
    <3>3. QED
      BY <1>1, <3>1, <3>2, PostAnswers, PostNew DEF m
  <2>3. QED
    BY <2>1, <2>2 DEF PoolStep, PoolRead
<1>4. QED
  BY <1>2, <1>3, WorkersKeep DEF Moved

-----------------------------------------------------------------------------
(* What was read under a generation.                                       *)

LEMMA ReadsOf ==
    ASSUME NEW q, NEW o \in Reads(q)
    PROVE  \/ \E t \in Thread : Worker(t) /\ o = Seen(job[t].gen, job[t].from)
           \/ \E r \in reads : ProfileRead(r) /\ o = Seen(r.seq, r.from)
           \/ \E i \in 1 .. Len(q) : ProfileRead(q[i]) /\ o = Seen(q[i].seq, q[i].from)
  BY DEF Reads

LEMMA ReadsTyped == ASSUME TypeOK, NEW o \in Reads(chan) PROVE o.seq \in Nat
<1>1. \A t \in Thread : job[t].gen \in Nat
  BY DEF TypeOK, Job
<1>2. \A r \in reads : r.seq \in Nat
  BY DEF TypeOK, Read
<1>3. \A i \in 1 .. Len(chan) : chan[i].seq \in Nat
  <2>1. chan \in Seq(Message)
    BY DEF TypeOK
  <2>2. \A i \in 1 .. Len(chan) : chan[i] \in Message
    BY <2>1
  <2>3. QED
    BY <2>2 DEF Message
<1>4. QED
  BY <1>1, <1>2, <1>3, ReadsOf DEF Seen

\* Read for the same profile, before the step or in it; or yet to be read.
Follows(o) ==
    \/ \E p \in Reads(chan) : p.seq = o.seq /\ o.from \in {p.from, None, disk}
    \/ o.seq = profileGen /\ o.from = None /\ ~LeavingAt(terminal')

\* A step that keeps the generation.
LEMMA SameGeneration ==
    ASSUME IInv, VInv, UNCHANGED profileGen,
           \A o \in Reads(chan)' : Follows(o),
           LeavingAt(terminal') =>
               LeavingAt(terminal) /\ UNCHANGED <<switching, selected, pendingRestore>>,
           Clean' /\ ~Moved' =>
               Clean /\ ~Moved /\ disk'.proxy = disk.proxy /\ Here(selected') /\ Here(pendingRestore')
    PROVE  VInv'
<1>1. profileGen \in Nat /\ TypeOK
  BY DEF IInv, TypeOK
<1>2. TagInv'
  BY <1>1, ReadsTyped DEF VInv, TagInv, Follows
<1>3. LeavingInv'
  BY DEF VInv, LeavingInv, LeavingAt, Follows
<1>4. SeenInv'
  <2> SUFFICES ASSUME Clean', ~Moved' PROVE SeenInv'
    BY DEF SeenInv
  <2>1. Clean /\ ~Moved /\ disk'.proxy = disk.proxy
    OBVIOUS
  <2>2. Here(selected)' /\ Here(pendingRestore)'
    BY DEF Here
  <2>3. ASSUME NEW o \in Reads(chan)', o.seq = profileGen PROVE Here(o.from)'
    BY <2>1, <2>3 DEF VInv, SeenInv, Follows, Here
  <2>4. QED
    BY <2>2, <2>3 DEF SeenInv
<1>5. QED
  BY <1>2, <1>3, <1>4 DEF VInv

\* A step to the next generation: nothing of the old one is on screen.
LEMMA NextGeneration ==
    ASSUME IInv, VInv, profileGen' = profileGen + 1, selected' = None, pendingRestore' = None,
           LeavingAt(terminal') => switching' = None,
           \A o \in Reads(chan)' :
               o \in Reads(chan) \/ (o.seq = profileGen + 1 /\ o.from = None /\ ~LeavingAt(terminal'))
    PROVE  VInv'
<1>1. profileGen \in Nat /\ TypeOK
  BY DEF IInv, TypeOK
<1>2. \A o \in Reads(chan) : o.seq <= profileGen /\ o.seq \in Nat
  BY <1>1, ReadsTyped DEF VInv, TagInv
<1>3. \A o \in Reads(chan) : o.seq <= profileGen + 1 /\ o.seq # profileGen + 1
  BY <1>1, <1>2
<1>4. profileGen + 1 <= profileGen + 1
  BY <1>1
<1>5. TagInv'
  BY <1>3, <1>4 DEF TagInv
<1>6. LeavingInv'
  BY <1>3 DEF LeavingInv, LeavingAt
<1>7. SeenInv'
  BY <1>3 DEF SeenInv, Here
<1>8. QED
  BY <1>5, <1>6, <1>7 DEF VInv

\* What reads there are after a step.
LEMMA ReadsAfter ==
    ASSUME NEW o \in Reads(chan)'
    PROVE  \/ \E t \in Thread : Worker(t)' /\ o = Seen(job'[t].gen, job'[t].from)
           \/ \E r \in reads' : ProfileRead(r) /\ o = Seen(r.seq, r.from)
           \/ \E i \in 1 .. Len(chan') : ProfileRead(chan'[i]) /\ o = Seen(chan'[i].seq, chan'[i].from)
  BY DEF Reads

LEMMA OldReads ==
    /\ \A t \in Thread : Worker(t) => Seen(job[t].gen, job[t].from) \in Reads(chan)
    /\ \A r \in reads : ProfileRead(r) => Seen(r.seq, r.from) \in Reads(chan)
    /\ \A i \in 1 .. Len(chan) : ProfileRead(chan[i]) => Seen(chan[i].seq, chan[i].from) \in Reads(chan)
  BY DEF Reads

LEMMA OldFollows == ASSUME NEW o \in Reads(chan) PROVE Follows(o)
  BY DEF Follows

\* The steps that touch neither the generation nor what is on screen.
LEMMA CalmSeen == ASSUME IInv, SInv, VInv, Calm PROVE VInv'
<1>1. Moved' <=> Moved
  BY CalmSwitch
<1>2. ASSUME NEW o \in Reads(chan)' PROVE Follows(o)
  <2>1. ASSUME NEW t \in Thread, Worker(t)', o = Seen(job'[t].gen, job'[t].from) PROVE Follows(o)
    <3>1. CASE pc'[t] = pc[t] /\ job'[t] = job[t]
      BY <2>1, <3>1, OldReads, OldFollows DEF Worker
    <3>2. CASE Started(t, selected')
      <4>1. ~LeavingAt(terminal')
        BY <3>2 DEF Calm, Started, threads
      <4>2. QED
        BY <2>1, <3>2, <4>1 DEF Started, Follows, Seen
    <3>3. QED
      BY <3>1, <3>2 DEF Calm, Starts
  <2>2. ASSUME NEW r \in reads', ProfileRead(r), o = Seen(r.seq, r.from) PROVE Follows(o)
    <3>1. CASE r \in reads
      BY <2>2, <3>1, OldReads, OldFollows
    <3>2. CASE r.seq = profileGen /\ r.from = None /\ ~LeavingAt(terminal')
      BY <2>2, <3>2 DEF Follows, Seen
    <3>3. QED
      BY <2>2, <3>1, <3>2 DEF Calm
  <2>3. ASSUME NEW i \in 1 .. Len(chan'), ProfileRead(chan'[i]), o = Seen(chan'[i].seq, chan'[i].from)
        PROVE  Follows(o)
    <3>1. PICK k \in 1 .. Len(chan) : chan'[i] = chan[k]
      BY DEF Calm
    <3>2. QED
      BY <2>3, <3>1, OldReads, OldFollows
  <2>4. QED
    BY <2>1, <2>2, <2>3, ReadsAfter
<1>3. ASSUME Clean', ~Moved'
      PROVE  Clean /\ ~Moved /\ disk'.proxy = disk.proxy /\ Here(selected') /\ Here(pendingRestore')
  <2>1. Clean /\ ~Moved /\ disk' = disk
    BY <1>1, <1>3 DEF Calm, Clean
  <2>2. Here(selected) /\ Here(pendingRestore) /\ \A o \in Reads(chan) : o.seq = profileGen => Here(o.from)
    BY <2>1 DEF VInv, SeenInv
  <2>3. Here(selected')
    BY <2>2 DEF Calm, Known, Here
  <2>4. Here(pendingRestore')
    BY <2>2 DEF Calm, Here
  <2>5. QED
    BY <2>1, <2>3, <2>4
<1>4. /\ UNCHANGED profileGen
      /\ LeavingAt(terminal') =>
            LeavingAt(terminal) /\ UNCHANGED <<switching, selected, pendingRestore>>
  BY DEF Calm
<1>5. QED
  BY <1>2, <1>3, <1>4, SameGeneration

\* What a thread's step tells: the profile moves for a switch only, and what is
\* new on the channel is the thread's own.
LEMMA ThreadTells ==
    ASSUME IInv, SInv, NEW t \in Thread, ThreadStep(t)
    PROVE  /\ Moved => Moved'
           /\ Moved' \/ disk'.proxy = disk.proxy
           /\ Worker(t)' => Worker(t) /\ Keeps(t)
           /\ NoneNew(chan, chan') \/ (Worker(t) /\ NewOnly(chan, chan', job[t].gen, job[t].from))
<1>1. CASE Switcher(t)
  <2>1. (Moved => Moved') /\ SwitcherMoves(t)
    BY <1>1, SwitcherSteps
  <2>2. QED
    BY <2>1 DEF SwitcherMoves, Moved, Worker
<1>2. CASE Worker(t)
  <2>1. /\ (Moved' <=> Moved) /\ Moves(t) /\ disk'.proxy = disk.proxy
        /\ NewOnly(chan, chan', job[t].gen, job[t].from)
    BY <1>2, WorkerSteps, WorkerMoves DEF SInv
  <2>2. QED
    BY <1>2, <2>1 DEF Moves, Worker
<1>3. QED
  BY <1>1, <1>2, StepsAlive

LEMMA ThreadSeen == ASSUME IInv, SInv, VInv, NEW t \in Thread, ThreadStep(t) PROVE VInv'
<1>1. /\ \A u \in Thread \ {t} : pc'[u] = pc[u] /\ job'[u] = job[u]
      /\ UNCHANGED <<reads, selected, profileGen, switching, pendingRestore, terminal, foreign, raced>>
  BY ThreadFrame DEF IInv
<1>3. /\ Moved => Moved'
      /\ Moved' \/ disk'.proxy = disk.proxy
      /\ Worker(t)' => Worker(t) /\ Keeps(t)
      /\ NoneNew(chan, chan') \/ (Worker(t) /\ NewOnly(chan, chan', job[t].gen, job[t].from))
  BY ThreadTells
<1>4. ASSUME NEW o \in Reads(chan)' PROVE Follows(o)
  <2>1. ASSUME NEW u \in Thread, Worker(u)', o = Seen(job'[u].gen, job'[u].from) PROVE Follows(o)
    <3>1. CASE u # t
      BY <1>1, <2>1, <3>1, OldReads, OldFollows DEF Worker
    <3>2. CASE u = t
      <4>1. Seen(job[t].gen, job[t].from) \in Reads(chan) /\ Keeps(t)
        BY <1>3, <2>1, <3>2, OldReads
      <4>2. QED
        BY <2>1, <3>2, <4>1 DEF Keeps, Follows, Seen
    <3>3. QED
      BY <3>1, <3>2
  <2>2. ASSUME NEW r \in reads', ProfileRead(r), o = Seen(r.seq, r.from) PROVE Follows(o)
    BY <1>1, <2>2, OldReads, OldFollows
  <2>3. ASSUME NEW i \in 1 .. Len(chan'), ProfileRead(chan'[i]), o = Seen(chan'[i].seq, chan'[i].from)
        PROVE  Follows(o)
    <3>1. CASE \E k \in 1 .. Len(chan) : chan'[i] = chan[k]
      BY <2>3, <3>1, OldReads, OldFollows
    <3>2. CASE Worker(t) /\ chan'[i].seq = job[t].gen /\ chan'[i].from = job[t].from
      BY <2>3, <3>2, OldReads, OldFollows
    <3>3. QED
      BY <1>3, <2>3, <3>1, <3>2 DEF NoneNew, NewOnly
  <2>4. QED
    BY <2>1, <2>2, <2>3, ReadsAfter
<1>5. ASSUME Clean', ~Moved'
      PROVE  Clean /\ ~Moved /\ disk'.proxy = disk.proxy /\ Here(selected') /\ Here(pendingRestore')
  BY <1>1, <1>3, <1>5 DEF VInv, SeenInv, Clean
<1>6. QED
  BY <1>1, <1>4, <1>5, SameGeneration

\* A pool job that is no profile read posts none.
LEMMA PoolKind ==
    ASSUME IInv, NEW r \in reads, PoolStep(r), ~ProfileRead(r),
           NEW i \in 1 .. Len(chan'), ProfileRead(chan'[i])
    PROVE  \E k \in 1 .. Len(chan) : chan'[i] = chan[k]
<1>1. chan \in Seq(Message) /\ r \in Read
  BY DEF IInv, TypeOK
<1>2. CASE UNCHANGED chan
  BY <1>2
<1>3. CASE PoolSend(r)
  <2>1. PICK ok \in BOOLEAN : chan' = Post(chan, Msg(r.kind, r.seq, r.label, r.from, ok))
    BY <1>3 DEF PoolSend, ProbeAnswers
  <2> DEFINE m == Msg(r.kind, r.seq, r.label, r.from, ok)
  <2>2. m \in Message /\ ~ProfileRead(m)
    BY <1>1 DEF Read, Message, MessageKind, Msg, ProfileRead
  <2> HIDE DEF m
  <2>3. NoneNew(chan, Append(chan, m))
    BY <1>1, <2>2, PostNone
  <2>4. QED
    BY <2>1, <2>3 DEF NoneNew, Post, m
<1>4. QED
  BY <1>2, <1>3 DEF PoolStep, PoolRead

LEMMA PoolSeen == ASSUME IInv, SInv, VInv, NEW r \in reads, PoolStep(r) PROVE VInv'
<1>1. /\ Moved' <=> Moved
      /\ chan' # chan => NewOnly(chan, chan', r.seq, r.from)
  BY PoolKeeps
<1>2. UNCHANGED <<disk, profileGen, threads, selected, switching, pendingRestore, terminal, foreign>>
  BY DEF PoolStep, view, session, hand, history
<1>3. r \in Read
  BY DEF IInv, TypeOK
<1>4. ASSUME NEW o \in Reads(chan)' PROVE Follows(o)
  <2>1. ASSUME NEW t \in Thread, Worker(t)', o = Seen(job'[t].gen, job'[t].from) PROVE Follows(o)
    BY <1>2, <2>1, OldReads, OldFollows DEF Worker, threads
  <2>2. ASSUME NEW s \in reads', ProfileRead(s), o = Seen(s.seq, s.from) PROVE Follows(o)
    <3>1. CASE s \in reads
      BY <2>2, <3>1, OldReads, OldFollows
    <3>2. CASE s = [r EXCEPT !.from = disk]
      <4>1. s.kind = r.kind /\ s.seq = r.seq /\ s.from = disk
        BY <1>3, <3>2 DEF Read
      <4>2. Seen(r.seq, r.from) \in Reads(chan)
        BY <2>2, <4>1, OldReads DEF ProfileRead
      <4>3. QED
        BY <2>2, <4>1, <4>2 DEF Follows, Seen
    <3>3. QED
      BY <3>1, <3>2 DEF PoolStep, PoolRead, PoolSend
  <2>3. ASSUME NEW i \in 1 .. Len(chan'), ProfileRead(chan'[i]), o = Seen(chan'[i].seq, chan'[i].from)
        PROVE  Follows(o)
    <3>1. CASE \E k \in 1 .. Len(chan) : chan'[i] = chan[k]
      BY <2>3, <3>1, OldReads, OldFollows
    <3>2. CASE chan' # chan /\ ~\E k \in 1 .. Len(chan) : chan'[i] = chan[k]
      <4>1. chan'[i].seq = r.seq /\ chan'[i].from = r.from
        BY <1>1, <2>3, <3>2 DEF NewOnly
      <4>2. CASE ProfileRead(r)
        BY <2>3, <4>1, <4>2, OldReads, OldFollows
      <4>3. CASE ~ProfileRead(r)
        BY <2>3, <3>2, <4>3, PoolKind
      <4>4. QED
        BY <4>2, <4>3
    <3>3. QED
      BY <3>1, <3>2
  <2>4. QED
    BY <2>1, <2>2, <2>3, ReadsAfter
<1>5. ASSUME Clean', ~Moved'
      PROVE  Clean /\ ~Moved /\ disk'.proxy = disk.proxy /\ Here(selected') /\ Here(pendingRestore')
  BY <1>1, <1>2, <1>5 DEF VInv, SeenInv, Clean
<1>6. QED
  BY <1>2, <1>4, <1>5, SameGeneration

LEMMA AfterSeen == ASSUME IInv, SInv, VInv, NEW t \in Thread, AfterAction(t) PROVE VInv'
<1>1. AfterStarts(t) /\ (Moved' <=> Moved)
  BY AfterBegins
<1>2. /\ UNCHANGED <<disk, reads, chan, profileGen, selected, switching, foreign>>
      /\ terminal' = "ui" /\ pendingRestore' = None
  BY DEF AfterAction, shared, view, history
<1>3. ASSUME NEW o \in Reads(chan)' PROVE Follows(o)
  <2>1. ASSUME NEW u \in Thread, Worker(u)', o = Seen(job'[u].gen, job'[u].from) PROVE Follows(o)
    <3>1. CASE u # t
      BY <1>1, <2>1, <3>1, OldReads, OldFollows DEF Worker, AfterStarts
    <3>2. CASE u = t
      BY <1>1, <1>2, <2>1, <3>2 DEF AfterStarts, Follows, LeavingAt, Seen
    <3>3. QED
      BY <3>1, <3>2
  <2>2. QED
    BY <1>2, <2>1, ReadsAfter, OldReads, OldFollows
<1>4. ASSUME Clean', ~Moved'
      PROVE  Clean /\ ~Moved /\ disk'.proxy = disk.proxy /\ Here(selected') /\ Here(pendingRestore')
  BY <1>1, <1>2, <1>4 DEF VInv, SeenInv, Here, Clean
<1>5. QED
  BY <1>2, <1>3, <1>4, SameGeneration DEF LeavingAt

\* A login of a form that goes elsewhere is marked; a profile's login finds
\* nothing left of the old one.
LEMMA LoginSeen == ASSUME IInv, SInv, VInv, FormInv, LoginEnds PROVE VInv'
<1>1. (Moved' <=> Moved)
  BY LoginOver
<1>2. /\ UNCHANGED <<reads, chan, threads, profileGen, selected, switching, pendingRestore>>
      /\ terminal \in {"profile", "form"} /\ terminal' = "returned"
  BY DEF LoginEnds, threads, view, session
<1>a. foreign => foreign'
  BY Zenon DEF LoginEnds
<1>3. Reads(chan)' = Reads(chan)
  BY <1>2 DEF Reads, Worker, threads
<1>4. CASE terminal = "form"
  <2>1. \A o \in Reads(chan)' : Follows(o)
    BY <1>3, OldFollows
  <2>2. Clean' /\ ~Moved' => disk'.proxy = disk.proxy
    BY <1>1, <1>4 DEF LoginEnds, FormInv, Clean
  <2>3. ASSUME Clean', ~Moved'
        PROVE  Clean /\ ~Moved /\ disk'.proxy = disk.proxy /\ Here(selected') /\ Here(pendingRestore')
    BY <1>1, <1>2, <1>a, <2>2, <2>3 DEF VInv, SeenInv, Clean
  <2>4. QED
    BY <1>2, <2>1, <2>3, SameGeneration DEF LeavingAt
<1>5. CASE terminal = "profile"
  <2>1. selected = None /\ pendingRestore = None /\ \A o \in Reads(chan) : o.seq # profileGen
    BY <1>5 DEF VInv, LeavingInv
  <2>2. TagInv'
    BY <1>2, <1>3 DEF VInv, TagInv
  <2>3. LeavingInv'
    BY <1>2 DEF LeavingInv
  <2>4. SeenInv'
    BY <1>2, <1>3, <2>1 DEF SeenInv, Here
  <2>5. QED
    BY <2>2, <2>3, <2>4 DEF VInv
<1>6. QED
  BY <1>2, <1>4, <1>5

LEMMA SwitchBeginsSeen ==
    ASSUME IInv, SInv, VInv, NEW t \in Thread, NEW p \in Proxy, SwitchProfile(t, p) PROVE VInv'
<1>1. /\ ~Moved' /\ ~Moved /\ Switcher(t)'
      /\ \A u \in Thread \ {t} : pc'[u] = pc[u] /\ job'[u] = job[u]
  BY SwitchBegins
<1>2. /\ UNCHANGED <<disk, reads, chan, profileGen, selected, pendingRestore, terminal, foreign>>
      /\ terminal = "ui"
  BY DEF SwitchProfile, UserActs, shared, view, hand, history
<1>3. ASSUME NEW o \in Reads(chan)' PROVE Follows(o)
  <2>1. ASSUME NEW u \in Thread, Worker(u)', o = Seen(job'[u].gen, job'[u].from) PROVE Follows(o)
    BY <1>1, <2>1, OldReads, OldFollows DEF Worker, Switcher
  <2>2. QED
    BY <1>2, <2>1, ReadsAfter, OldReads, OldFollows
<1>4. ASSUME Clean', ~Moved'
      PROVE  Clean /\ ~Moved /\ disk'.proxy = disk.proxy /\ Here(selected') /\ Here(pendingRestore')
  BY <1>1, <1>2, <1>4 DEF VInv, SeenInv, Clean
<1>5. QED
  BY <1>2, <1>3, <1>4, SameGeneration DEF LeavingAt

LEMMA LoginBeginsSeen ==
    ASSUME IInv, SInv, VInv, NEW p \in Proxy, ProfileLogin(p) PROVE VInv'
<1>1. UNCHANGED threads /\ switching' = None
  BY LoginBegins
<1>2. EnterProfile(profileGen + 1, {}) /\ UNCHANGED chan
  BY DEF ProfileLogin
<1>3. profileGen' = profileGen + 1 /\ selected' = None /\ pendingRestore' = None /\ UNCHANGED reads
  <2>1. /\ profileGen' = profileGen + 1 /\ selected' = None /\ pendingRestore' = None
        /\ reads' = reads \cup {}
    BY <1>2, EntersProfile, Zenon
  <2>2. QED
    BY <2>1
<1>4. Reads(chan)' = Reads(chan)
  BY <1>1, <1>2, <1>3 DEF Reads, Worker, threads
<1>5. QED
  BY <1>1, <1>3, <1>4, NextGeneration

LEMMA SwitchEndsSeen ==
    ASSUME IInv, SInv, VInv, NEW t \in Thread, Apply(t), Head(chan).kind = "switched",
           ApplySwitched(Head(chan))
    PROVE  VInv'
<1> DEFINE m == Head(chan)
<1>1. /\ ~Moved' /\ UNCHANGED threads /\ m.seq = profileGen + 1 /\ switching # None
      /\ ~m.ok => ~Moved
  BY SwitchEnds
<1>2. /\ chan \in Seq(Message) /\ chan # <<>> /\ chan' = Tail(chan) /\ switching' = None
      /\ UNCHANGED <<disk, foreign>>
  BY DEF IInv, TypeOK, Apply, ApplySwitched, history
<1>3. \A i \in 1 .. Len(chan') : \E k \in 1 .. Len(chan) : chan'[i] = chan[k]
  BY <1>2, TailIn
<1>4. \A o \in Reads(chan)' :
         o \in Reads(chan) \/ \E r \in reads' \ reads : ProfileRead(r) /\ o = Seen(r.seq, r.from)
  <2>1. ASSUME NEW o \in Reads(chan)'
        PROVE  o \in Reads(chan) \/ \E r \in reads' \ reads : ProfileRead(r) /\ o = Seen(r.seq, r.from)
    <3>1. ASSUME NEW u \in Thread, Worker(u)', o = Seen(job'[u].gen, job'[u].from) PROVE o \in Reads(chan)
      BY <1>1, <3>1, OldReads DEF Worker, threads
    <3>2. ASSUME NEW i \in 1 .. Len(chan'), ProfileRead(chan'[i]), o = Seen(chan'[i].seq, chan'[i].from)
          PROVE  o \in Reads(chan)
      BY <1>3, <3>2, OldReads
    <3>3. ASSUME NEW r \in reads', ProfileRead(r), o = Seen(r.seq, r.from)
          PROVE  o \in Reads(chan) \/ \E s \in reads' \ reads : ProfileRead(s) /\ o = Seen(s.seq, s.from)
      BY <3>3, OldReads
    <3>4. QED
      BY <3>1, <3>2, <3>3, ReadsAfter
  <2>2. QED
    BY <2>1
<1>5. ~LeavingAt(terminal)
  BY <1>1 DEF VInv, LeavingInv, LeavingAt
<1>6. CASE m.ok /\ EnterProfile(m.seq, Aux({"status", "clusters", "probe"}, m.seq)) /\ UNCHANGED hand
  <2>1. /\ profileGen' = profileGen + 1 /\ selected' = None /\ pendingRestore' = None
        /\ reads' = reads \cup Aux({"status", "clusters", "probe"}, m.seq) /\ terminal' = terminal
    BY <1>1, <1>6, EntersProfile DEF hand
  <2>2. \A o \in Reads(chan)' : o \in Reads(chan) \/ (o.seq = profileGen + 1 /\ o.from = None)
    BY <1>1, <1>4, <2>1, AuxReads DEF Seen
  <2>3. QED
    BY <1>2, <1>5, <2>1, <2>2, NextGeneration
<1>7. CASE EnterProfile(profileGen + 1, {})
  <2>1. /\ profileGen' = profileGen + 1 /\ selected' = None /\ pendingRestore' = None
        /\ reads' = reads
    <3>1. /\ profileGen' = profileGen + 1 /\ selected' = None /\ pendingRestore' = None
          /\ reads' = reads \cup {}
      BY <1>7, EntersProfile, Zenon
    <3>2. QED
      BY <3>1
  <2>2. \A o \in Reads(chan)' : o \in Reads(chan)
    BY <1>4, <2>1
  <2>3. QED
    BY <1>2, <2>1, <2>2, NextGeneration
<1>8. CASE ~m.ok /\ UNCHANGED <<genProfile, tabReq, prefetchSeq, reads, view, profileGen,
                                pendingRestore, hand>>
  <2>1. UNCHANGED <<reads, profileGen, selected, pendingRestore, terminal>>
    BY <1>8 DEF view, hand
  <2>2. \A o \in Reads(chan)' : Follows(o)
    BY <1>4, <2>1, OldFollows
  <2>3. ASSUME Clean', ~Moved'
        PROVE  Clean /\ ~Moved /\ disk'.proxy = disk.proxy /\ Here(selected') /\ Here(pendingRestore')
    BY <1>1, <1>2, <1>8, <2>1, <2>3 DEF VInv, SeenInv, Clean
  <2>4. QED
    BY <1>5, <2>1, <2>2, <2>3, SameGeneration
<1>9. QED
  BY <1>6, <1>7, <1>8 DEF ApplySwitched

-----------------------------------------------------------------------------
(* The work that a generation lets through.                                *)

LEMMA WorkSeen == ASSUME NEW t \in Thread, Worker(t), VInv PROVE job[t].gen <= profileGen
<1>1. Seen(job[t].gen, job[t].from) \in Reads(chan)
  BY OldReads
<1>2. QED
  BY <1>1 DEF VInv, TagInv, Seen

\* Each live piece of work is an old one, or of the proxy the profile is on.
StaysHere(u) ==
    \/ Worker(u) /\ job'[u].gen = job[u].gen /\ job'[u].root = job[u].root
       /\ genProfile' = genProfile /\ ~Publishing
    \/ Here(job[u].root)'

LEMMA WorkStays ==
    ASSUME WorkInv,
           ~foreign' /\ ~Publishing' =>
               /\ ~foreign /\ disk'.proxy = disk.proxy
               /\ \A u \in Thread : Worker(u)' /\ job'[u].gen = genProfile' => StaysHere(u)
    PROVE  WorkInv'
<1>1. ASSUME ~foreign', ~Publishing', NEW u \in Thread, Worker(u)', job'[u].gen = genProfile'
      PROVE  Here(job[u].root)'
  BY <1>1 DEF WorkInv, StaysHere, Here
<1>2. QED
  BY <1>1 DEF WorkInv

\* Where the workers' generation is the UI's, a switch has not moved the profile.
LEMMA NotMoved == ASSUME SInv, profileGen \in Nat, genProfile = profileGen, ~Publishing PROVE ~Moved
<1>1. profileGen + 1 # profileGen
  OBVIOUS
<1>2. QED
  BY <1>1 DEF SInv, GenInv, Moved

LEMMA CalmWork == ASSUME IInv, SInv, VInv, WorkInv, Calm PROVE WorkInv'
<1>1. SInv' /\ VInv' /\ (Publishing' <=> Publishing) /\ (Moved' <=> Moved)
  BY CalmSwitch, CalmSeen
<1>2. UNCHANGED <<disk, genProfile, profileGen, foreign>> /\ profileGen \in Nat /\ Starts(selected')
  BY DEF Calm, IInv, TypeOK
<1>3. ASSUME ~foreign', ~Publishing', NEW u \in Thread, Worker(u)', job'[u].gen = genProfile'
      PROVE  StaysHere(u)
  <2>1. CASE pc'[u] = pc[u] /\ job'[u] = job[u]
    BY <1>1, <1>2, <1>3, <2>1 DEF StaysHere, Worker
  <2>2. CASE Started(u, selected')
    <3>1. ~Moved
      BY <1>1, <1>2, <1>3, <2>2, NotMoved DEF Started
    <3>2. selected' # None /\ selected'.proxy = disk'.proxy
      BY <1>1, <1>3, <2>2, <3>1 DEF VInv, SeenInv, Here, Started, Clean
    <3>3. job'[u].root.proxy = disk'.proxy
      BY <2>2, <3>2 DEF Started, RootOf
    <3>4. QED
      BY <3>3 DEF StaysHere, Here
  <2>3. QED
    BY <1>2, <2>1, <2>2 DEF Starts
<1>4. QED
  BY <1>2, <1>3, WorkStays

LEMMA AfterWork == ASSUME IInv, SInv, VInv, WorkInv, NEW t \in Thread, AfterAction(t) PROVE WorkInv'
<1>1. AfterStarts(t) /\ (Publishing' <=> Publishing)
  BY AfterBegins
<1>2. UNCHANGED <<disk, genProfile, profileGen, foreign>> /\ profileGen \in Nat
  BY DEF AfterAction, shared, history, IInv, TypeOK
<1>3. ASSUME ~foreign', ~Publishing', NEW u \in Thread, Worker(u)', job'[u].gen = genProfile'
      PROVE  StaysHere(u)
  <2>1. CASE u # t
    BY <1>1, <1>2, <1>3, <2>1 DEF StaysHere, Worker, AfterStarts
  <2>2. CASE u = t
    <3>1. ~Moved
      BY <1>1, <1>2, <1>3, <2>2, NotMoved DEF AfterStarts
    <3>2. Here(pendingRestore)
      BY <1>2, <1>3, <3>1 DEF VInv, SeenInv, Clean
    <3>3. job'[u].root.proxy = disk.proxy
      BY <1>1, <2>2, <3>2 DEF AfterStarts, Here
    <3>4. QED
      BY <1>2, <3>3 DEF StaysHere, Here
  <2>3. QED
    BY <2>1, <2>2
<1>4. QED
  BY <1>2, <1>3, WorkStays

LEMMA ThreadWork == ASSUME IInv, SInv, VInv, WorkInv, NEW t \in Thread, ThreadStep(t) PROVE WorkInv'
<1>1. /\ \A u \in Thread \ {t} : pc'[u] = pc[u] /\ job'[u] = job[u]
      /\ UNCHANGED <<profileGen, foreign>> /\ profileGen \in Nat
  BY ThreadFrame DEF IInv, TypeOK
<1>2. CASE Worker(t)
  <2>1. /\ Publishing' <=> Publishing
        /\ Moves(t) /\ genProfile' = genProfile /\ disk'.proxy = disk.proxy
    BY <1>2, WorkerSteps, WorkerMoves DEF SInv
  <2>2. ASSUME ~foreign', ~Publishing', NEW u \in Thread, Worker(u)', job'[u].gen = genProfile'
        PROVE  StaysHere(u)
    BY <1>1, <1>2, <2>1, <2>2 DEF StaysHere, Worker, Moves, Keeps
  <2>3. QED
    BY <1>1, <2>1, <2>2, WorkStays
<1>3. CASE Switcher(t)
  <2>1. SwitcherMoves(t)
    BY <1>3, SwitcherSteps
  <2>2. ASSUME ~foreign', ~Publishing', NEW u \in Thread, Worker(u)', job'[u].gen = genProfile'
        PROVE  StaysHere(u)
    <3>1. u # t /\ Worker(u) /\ job'[u] = job[u]
      BY <1>1, <1>3, <2>1, <2>2 DEF SwitcherMoves, Worker
    <3>2. job[u].gen <= profileGen /\ job[u].gen \in Nat
      BY <3>1, WorkSeen DEF IInv, TypeOK, Job
    <3>3. job[u].gen # profileGen + 1
      BY <1>1, <3>2
    <3>4. QED
      BY <2>1, <2>2, <3>1, <3>3 DEF SwitcherMoves, StaysHere
  <2>3. QED
    BY <1>1, <2>1, <2>2, WorkStays DEF SwitcherMoves
<1>4. QED
  BY <1>2, <1>3, StepsAlive

\* No work has the generation after the UI's.
LEMMA EnterWork ==
    ASSUME IInv, VInv, genProfile' = profileGen + 1, UNCHANGED threads PROVE WorkInv'
<1>1. ASSUME NEW u \in Thread, Worker(u)' PROVE job'[u].gen # genProfile'
  <2>1. Worker(u) /\ job'[u] = job[u]
    BY <1>1 DEF Worker, threads
  <2>2. job[u].gen <= profileGen /\ job[u].gen \in Nat /\ profileGen \in Nat
    BY <2>1, WorkSeen DEF IInv, TypeOK, Job
  <2>3. job[u].gen # profileGen + 1
    BY <2>2
  <2>4. QED
    BY <2>1, <2>3
<1>2. QED
  BY <1>1 DEF WorkInv

LEMMA LoginWork == ASSUME IInv, SInv, VInv, WorkInv, LoginEnds PROVE WorkInv'
<1>1. Publishing' <=> Publishing
  BY LoginOver
<1>2. UNCHANGED <<threads, genProfile>> /\ terminal \in {"profile", "form"}
  BY DEF LoginEnds
<1>3. foreign => foreign'
  BY Zenon DEF LoginEnds
<1>4. \A u \in Thread : (Worker(u)' <=> Worker(u)) /\ job'[u] = job[u]
  BY <1>2 DEF Worker, threads
<1>5. CASE terminal = "form"
  <2>1. ~foreign' => disk'.proxy = disk.proxy
    BY <1>5 DEF LoginEnds
  <2>2. QED
    BY <1>1, <1>2, <1>3, <1>4, <2>1, WorkStays DEF StaysHere
<1>6. CASE terminal = "profile"
  <2>1. switching = None /\ \A o \in Reads(chan) : o.seq # profileGen
    BY <1>6 DEF VInv, LeavingInv
  <2>2. genProfile = profileGen
    BY <2>1, NoSwitch
  <2>3. \A u \in Thread : Worker(u) => job[u].gen # profileGen
    BY <2>1, OldReads DEF Seen
  <2>4. QED
    BY <1>2, <1>4, <2>2, <2>3 DEF WorkInv
<1>7. QED
  BY <1>2, <1>5, <1>6

LEMMA SwitchWork ==
    ASSUME IInv, SInv, VInv, WorkInv, NEW t \in Thread, NEW p \in Proxy, SwitchProfile(t, p)
    PROVE  WorkInv'
<1>1. /\ ~Moved' /\ ~Moved /\ Switcher(t)'
      /\ \A u \in Thread \ {t} : pc'[u] = pc[u] /\ job'[u] = job[u]
  BY SwitchBegins
<1>2. UNCHANGED <<disk, genProfile, foreign>>
  BY DEF SwitchProfile, shared, history
<1>3. ASSUME NEW u \in Thread, Worker(u)' PROVE StaysHere(u)
  BY <1>1, <1>2, <1>3 DEF StaysHere, Worker, Switcher, Moved
<1>4. QED
  BY <1>2, <1>3, WorkStays

LEMMA SwitchEndsWork ==
    ASSUME IInv, SInv, VInv, WorkInv, NEW t \in Thread, Apply(t), Head(chan).kind = "switched",
           ApplySwitched(Head(chan))
    PROVE  WorkInv'
<1>1. ~Publishing /\ UNCHANGED <<threads, disk, foreign>> /\ Head(chan).seq = profileGen + 1
  BY SwitchEnds DEF ApplySwitched, history
<1>2. CASE genProfile' = profileGen + 1
  BY <1>1, <1>2, EnterWork
<1>3. CASE genProfile' = genProfile
  <2>1. ASSUME NEW u \in Thread, Worker(u)' PROVE StaysHere(u)
    BY <1>1, <1>3, <2>1 DEF StaysHere, Worker, threads
  <2>2. QED
    BY <1>1, <2>1, WorkStays
<1>4. QED
  <2>1. genProfile' = profileGen + 1 \/ genProfile' = genProfile
    BY <1>1, EntersProfile DEF ApplySwitched
  <2>2. QED
    BY <1>2, <1>3, <2>1

LEMMA PoolWork == ASSUME IInv, SInv, WorkInv, NEW r \in reads, PoolStep(r) PROVE WorkInv'
<1>1. Publishing' <=> Publishing
  BY PoolKeeps
<1>2. UNCHANGED <<threads, genProfile, disk, foreign>>
  BY DEF PoolStep, history
<1>3. ASSUME ~Publishing', NEW u \in Thread, Worker(u)' PROVE StaysHere(u)
  BY <1>1, <1>2, <1>3 DEF StaysHere, Worker, threads
<1>4. QED
  BY <1>2, <1>3, WorkStays

-----------------------------------------------------------------------------
(* Inside the critical section.                                            *)

Critical == {"selecting", "listing", "restoring"}

\* No listing is new on the channel.
NoRows(q, p) ==
    \A i \in 1 .. Len(p) : p[i].kind \in Reader => \E k \in 1 .. Len(q) : p[i] = q[k]

LEMMA PostRows ==
    ASSUME NEW q \in Seq(Message), NEW m \in Message, m.kind \notin Reader
    PROVE  NoRows(q, Post(q, m)) /\ Post(q, m) \in Seq(Message)
<1>1. Append(q, m) \in Seq(Message) /\ Len(Append(q, m)) = Len(q) + 1
  OBVIOUS
<1>2. \A i \in 1 .. Len(q) + 1 : Append(q, m)[i] = m \/ (i \in 1 .. Len(q) /\ Append(q, m)[i] = q[i])
  OBVIOUS
<1>3. NoRows(q, Append(q, m))
  BY <1>1, <1>2 DEF NoRows
<1>4. QED
  BY <1>1, <1>3 DEF NoRows, Post

LEMMA RestoreRows ==
    ASSUME NEW q \in Seq(Message), NEW j \in Job
    PROVE  NoRows(q, PostRestore(q, j))
<1> DEFINE m == Msg("restore_failed", j.gen, j.root, None, FALSE)
<1>1. m \in Message /\ m.kind \notin Reader
  BY DEF Job, Message, Msg, MessageKind, Reader
<1>2. NoRows(q, Post(q, m))
  BY <1>1, PostRows
<1>3. QED
  BY <1>2 DEF PostRestore, NoRows

\* A listing on the channel is an old one, or what this thread read.
LEMMA ShownRows ==
    ASSUME LockedRowsAreTheirClusters, raced => raced', foreign => foreign',
           \A i \in 1 .. Len(chan') : chan'[i].kind \in Reader =>
               \/ \E k \in 1 .. Len(chan) : chan'[i] = chan[k]
               \/ ~raced' /\ ~foreign' /\ chan'[i].ok => chan'[i].from = chan'[i].label
    PROVE  LockedRowsAreTheirClusters'
<1>1. ASSUME ~raced', ~foreign', NEW i \in 1 .. Len(chan'), chan'[i].kind \in Reader, chan'[i].ok
      PROVE  chan'[i].from = chan'[i].label
  BY <1>1 DEF LockedRowsAreTheirClusters, Elements
<1>2. QED
  BY <1>1 DEF LockedRowsAreTheirClusters, Elements

\* What the UI and the pool do to the critical section: nothing, but for a login
\* that moves the profile under it, which is marked.
Outside ==
    /\ \A u \in Thread :
          \/ pc'[u] = pc[u] /\ job'[u] = job[u]
          \/ Started(u, selected')
          \/ pc'[u] \in {"waiting", "status"} /\ job'[u].kind \notin Reader
    /\ disk' = disk \/ raced' \/ lock = None
    /\ raced => raced'
    /\ foreign => foreign'
    /\ NoRows(chan, chan')

LEMMA OutsideKeeps == ASSUME IInv, CInv, Outside PROVE CInv'
<1>1. \A u \in Thread : lock = None => pc[u] \notin Critical
  BY DEF IInv, LockInv, Locked, Critical
<1>2. WorkKeepsToItsProxy'
  <2> SUFFICES ASSUME ~raced', ~foreign', NEW u \in Thread, pc'[u] \in Critical
               PROVE  job'[u].root.proxy = disk'.proxy
    BY DEF WorkKeepsToItsProxy, Critical
  <2>1. pc'[u] = pc[u] /\ job'[u] = job[u]
    BY DEF Outside, Started, Critical
  <2>2. disk' = disk
    BY <1>1, <2>1 DEF Outside
  <2>3. ~raced /\ ~foreign /\ pc[u] \in Critical
    BY <2>1 DEF Outside
  <2>4. job[u].root.proxy = disk.proxy
    BY <2>3 DEF CInv, WorkKeepsToItsProxy, Critical
  <2>5. QED
    BY <2>1, <2>2, <2>4
<1>3. RowsInv'
  <2> SUFFICES ASSUME NEW u \in Thread, Worker(u)', job'[u].kind \in Reader
               PROVE  /\ job'[u].todo \subseteq ClustersOf(job'[u].root.proxy)
                      /\ pc'[u] \in {"selecting", "listing"} => job'[u].cur \in ClustersOf(job'[u].root.proxy)
                      /\ pc'[u] \in {"waiting", "checking", "listing"} => job'[u].from = None
                      /\ ~raced' /\ ~foreign' =>
                            /\ pc'[u] = "listing" => disk' = job'[u].cur
                            /\ pc'[u] \in {"restoring", "unlocking", "sending"} /\ job'[u].from # None =>
                                  job'[u].from = job'[u].cur
    BY DEF RowsInv
  <2>1. CASE pc'[u] = pc[u] /\ job'[u] = job[u]
    <3>1. ~raced' /\ ~foreign' /\ pc[u] = "listing" => disk' = disk /\ ~raced /\ ~foreign
      BY <1>1 DEF Outside, Critical
    <3>2. QED
      BY <2>1, <3>1 DEF CInv, RowsInv, Worker, Outside
  <2>2. CASE Started(u, selected')
    BY <2>2 DEF Started, RootOf
  <2>3. QED
    BY <2>1, <2>2 DEF Outside
<1>4. LockedRowsAreTheirClusters'
  BY ShownRows DEF CInv, Outside, NoRows
<1>5. QED
  BY <1>2, <1>3, <1>4 DEF CInv

LEMMA CalmOutside == ASSUME Calm PROVE Outside
<1>1. NoRows(chan, chan')
  BY DEF Calm, NoRows
<1>2. QED
  BY <1>1 DEF Calm, Starts, Outside

LEMMA SameOutside ==
    ASSUME UNCHANGED <<threads, disk, raced, foreign>>, NoRows(chan, chan') PROVE Outside
  BY DEF Outside, threads

LEMMA SameRows == ASSUME NEW q PROVE NoRows(q, q)
  BY DEF NoRows

LEMMA AfterOutside == ASSUME IInv, SInv, NEW t \in Thread, AfterAction(t) PROVE Outside
<1>1. AfterStarts(t)
  BY AfterBegins
<1>2. UNCHANGED <<disk, raced, foreign, chan>>
  BY DEF AfterAction, shared, history
<1>3. QED
  BY <1>1, <1>2, SameRows DEF AfterStarts, Outside, Reader

LEMMA SwitchOutside ==
    ASSUME IInv, SInv, NEW t \in Thread, NEW p \in Proxy, SwitchProfile(t, p) PROVE Outside
<1>1. UNCHANGED <<disk, raced, foreign, chan>>
  BY DEF SwitchProfile, shared, history
<1>2. /\ pc \in [Thread -> PC] /\ job \in [Thread -> Job]
      /\ Spawn(t, "waiting", Work("switch", profileGen + 1, 0, RootOf(p), {}))
  BY DEF IInv, TypeOK, SwitchProfile
<1>3. \A u \in Thread :
         \/ pc'[u] = pc[u] /\ job'[u] = job[u]
         \/ pc'[u] \in {"waiting", "status"} /\ job'[u].kind \notin Reader
  BY <1>2 DEF Spawn, Work, Reader
<1>4. QED
  BY <1>1, <1>3, SameRows DEF Outside

LEMMA LoginOutside == ASSUME IInv, LoginEnds PROVE Outside
<1>1. UNCHANGED <<threads, chan>>
  BY DEF LoginEnds
<1>2. (raced => raced') /\ (foreign => foreign')
  <2>1. raced => raced'
    BY Zenon DEF LoginEnds
  <2>2. foreign => foreign'
    BY Zenon DEF LoginEnds
  <2>3. QED
    BY <2>1, <2>2
<1>3. disk' = disk \/ raced' \/ lock = None
  BY Zenon DEF LoginEnds
<1>4. QED
  BY <1>1, <1>2, <1>3, SameRows DEF Outside, threads

LEMMA PoolOutside == ASSUME IInv, NEW r \in reads, PoolStep(r) PROVE Outside
<1>1. chan \in Seq(Message) /\ r \in Read
  BY DEF IInv, TypeOK
<1>2. NoRows(chan, chan')
  <2>1. CASE UNCHANGED chan
    BY <2>1, SameRows
  <2>2. CASE PoolSend(r)
    <3>1. PICK ok \in BOOLEAN : chan' = Post(chan, Msg(r.kind, r.seq, r.label, r.from, ok))
      BY <2>2 DEF PoolSend, ProbeAnswers
    <3> DEFINE m == Msg(r.kind, r.seq, r.label, r.from, ok)
    <3>2. m \in Message /\ m.kind \notin Reader
      BY <1>1 DEF Read, Message, MessageKind, Msg, Reader
    <3> HIDE DEF m
    <3>3. QED
      BY <1>1, <3>1, <3>2, PostRows DEF m
  <2>3. QED
    BY <2>1, <2>2 DEF PoolStep, PoolRead
<1>3. QED
  BY <1>2, SameOutside DEF PoolStep, history

LEMMA SwitchEndsOutside ==
    ASSUME IInv, NEW t \in Thread, Apply(t), ApplySwitched(Head(chan)) PROVE Outside
<1>1. chan \in Seq(Message) /\ chan # <<>> /\ chan' = Tail(chan)
  BY DEF IInv, TypeOK, Apply
<1>2. NoRows(chan, chan')
  BY <1>1, TailIn DEF NoRows
<1>3. QED
  BY <1>2, SameOutside DEF ApplySwitched, history

\* What a listing's thread holds.
RowOK(u) ==
    Worker(u) /\ job[u].kind \in Reader =>
        /\ job[u].todo \subseteq ClustersOf(job[u].root.proxy)
        /\ pc[u] \in {"selecting", "listing"} => job[u].cur \in ClustersOf(job[u].root.proxy)
        /\ pc[u] \in {"waiting", "checking", "listing"} => job[u].from = None
        /\ ~raced /\ ~foreign =>
              /\ pc[u] = "listing" => disk = job[u].cur
              /\ pc[u] \in {"restoring", "unlocking", "sending"} /\ job[u].from # None =>
                    job[u].from = job[u].cur

\* The profile only moves under the lock, so one thread's step leaves the
\* others' critical sections alone.
LEMMA OwnStep ==
    ASSUME IInv, CInv, NEW t \in Thread, ThreadStep(t),
           pc'[t] \in Critical /\ ~raced /\ ~foreign => job'[t].root.proxy = disk'.proxy,
           RowOK(t)',
           \A i \in 1 .. Len(chan') : chan'[i].kind \in Reader =>
               \/ \E k \in 1 .. Len(chan) : chan'[i] = chan[k]
               \/ ~raced /\ ~foreign /\ chan'[i].ok => chan'[i].from = chan'[i].label
    PROVE  CInv'
<1>1. /\ \A u \in Thread \ {t} : pc'[u] = pc[u] /\ job'[u] = job[u]
      /\ UNCHANGED <<raced, foreign>>
  BY ThreadFrame DEF IInv
<1>2. ASSUME NEW u \in Thread \ {t}, pc[u] \in Critical PROVE disk' = disk
  <2>1. pc[t] \notin Locked
    BY <1>2 DEF IInv, LockInv, Locked, Critical
  <2>2. QED
    BY <2>1 DEF ThreadStep, Acquire, Check, Select, List, Restore, Switch, Publish, Unlock, Send,
                Refresh, Locked
<1>3. WorkKeepsToItsProxy'
  <2> SUFFICES ASSUME ~raced', ~foreign', NEW u \in Thread, pc'[u] \in Critical
               PROVE  job'[u].root.proxy = disk'.proxy
    BY DEF WorkKeepsToItsProxy, Critical
  <2>1. CASE u = t
    BY <1>1, <2>1
  <2>2. CASE u # t
    BY <1>1, <1>2, <2>2 DEF CInv, WorkKeepsToItsProxy, Critical
  <2>3. QED
    BY <2>1, <2>2
<1>4. RowsInv'
  <2>1. ASSUME NEW u \in Thread PROVE RowOK(u)'
    <3>1. CASE u = t
      BY <3>1
    <3>2. CASE u # t
      <4>1. RowOK(u) /\ (pc[u] = "listing" => disk' = disk) /\ pc'[u] = pc[u] /\ job'[u] = job[u]
        BY <1>1, <1>2, <3>2 DEF CInv, RowsInv, RowOK, Critical
      <4>2. QED
        BY <1>1, <4>1 DEF RowOK, Worker
    <3>3. QED
      BY <3>1, <3>2
  <2>2. QED
    BY <2>1 DEF RowsInv, RowOK
<1>5. LockedRowsAreTheirClusters'
  BY <1>1, ShownRows DEF CInv
<1>6. QED
  BY <1>3, <1>4, <1>5 DEF CInv

\* tsh's login puts the profile on the cluster asked for, under the same proxy.
LEMMA SelectedIs ==
    ASSUME NEW c \in Cluster, disk \in Cluster, c.proxy = disk.proxy PROVE Selected(c) = c
  BY DEF Selected, Cluster

LEMMA ThreadCritical == ASSUME IInv, SInv, VInv, WorkInv, CInv, NEW t \in Thread, ThreadStep(t) PROVE CInv'
<1>1. /\ pc \in [Thread -> PC] /\ job \in [Thread -> Job] /\ chan \in Seq(Message)
      /\ disk \in Cluster /\ job[t] \in Job
  BY DEF IInv, TypeOK
<1>2. UNCHANGED <<raced, foreign>>
  BY ThreadFrame DEF IInv
<1>3. /\ RowOK(t)
      /\ pc[t] \in Critical /\ ~raced /\ ~foreign => job[t].root.proxy = disk.proxy
  BY DEF CInv, RowsInv, RowOK, WorkKeepsToItsProxy, Critical
<1>4. /\ pc[t] \in {"switching", "publishing"} => job[t].kind = "switch"
      /\ job[t].kind = "switch" =>
           pc[t] \in {"idle", "waiting", "switching", "publishing", "unlocking", "sending"}
  BY DEF SInv, KindInv, Switcher
<1>5. UNCHANGED chan => \A i \in 1 .. Len(chan') : \E k \in 1 .. Len(chan) : chan'[i] = chan[k]
  OBVIOUS
<1>6. CASE Acquire(t)
  <2>1. /\ pc[t] = "waiting" /\ pc'[t] \in {"switching", "checking"} /\ job' = job
        /\ UNCHANGED <<disk, chan>>
    BY <1>1, <1>6 DEF Acquire, Goto
  <2>2. RowOK(t)'
    BY <1>2, <1>3, <2>1 DEF RowOK, Worker
  <2>3. QED
    BY <1>5, <2>1, <2>2, OwnStep DEF Critical
<1>7. CASE Check(t)
  <2>1. pc[t] = "checking" /\ lock = t /\ UNCHANGED <<disk, chan>> /\ job[t].kind # "switch"
    BY <1>4, <1>7 DEF Check, IInv, LockInv, Locked
  <2>2. ~Publishing
    BY <2>1 DEF Publishing, IInv, LockInv, Locked
  <2>3. StillWanted(job[t]) /\ ~foreign => job[t].root.proxy = disk.proxy
    <3>1. job[t].root # None
      BY <2>1, RootsAreClusters, ClusterIsSome DEF IInv, RootInv, ThreadRoots, Locked, Roots
    <3>2. QED
      BY <2>1, <2>2, <3>1 DEF WorkInv, StillWanted, Worker, Here
  <2>4. CASE ~StillWanted(job[t])
    <3>1. /\ pc'[t] = "unlocking" /\ job'[t].kind = job[t].kind /\ job'[t].root = job[t].root
          /\ job'[t].todo = {} /\ job'[t].from = job[t].from
      BY <1>1, <1>7, <2>4 DEF Check, Goto, Job
    <3>2. RowOK(t)'
      BY <1>2, <1>3, <2>1, <3>1 DEF RowOK, Worker
    <3>3. QED
      BY <1>5, <2>1, <3>1, <3>2, OwnStep DEF Critical
  <2>5. CASE StillWanted(job[t]) /\ job[t].kind = "after"
    <3>1. pc'[t] = "restoring" /\ job' = job
      BY <1>1, <1>7, <2>5 DEF Check, Goto
    <3>2. RowOK(t)'
      BY <2>5, <3>1 DEF RowOK, Reader
    <3>3. QED
      BY <1>5, <2>1, <2>3, <2>5, <3>1, <3>2, OwnStep
  <2>6. CASE StillWanted(job[t]) /\ job[t].kind # "after"
    <3>1. PICK c \in job[t].todo :
             Goto(t, "selecting") /\ job' = [job EXCEPT ![t].cur = c, ![t].restore = TRUE]
      BY <1>7, <2>6 DEF Check
    <3>2. /\ pc'[t] = "selecting" /\ job'[t].kind = job[t].kind /\ job'[t].root = job[t].root
          /\ job'[t].todo = job[t].todo /\ job'[t].cur = c
      BY <1>1, <3>1 DEF Goto, Job
    <3>3. RowOK(t)'
      BY <1>2, <1>3, <2>1, <3>2 DEF RowOK, Worker
    <3>4. QED
      BY <1>5, <2>1, <2>3, <2>6, <3>2, <3>3, OwnStep
  <2>7. QED
    BY <2>4, <2>5, <2>6
<1>8. CASE Select(t)
  <2>1. /\ pc[t] = "selecting" /\ UNCHANGED chan /\ pc'[t] \in {"listing", "restoring"}
        /\ job'[t].kind = job[t].kind /\ job'[t].root = job[t].root /\ job'[t].from = None
        /\ job'[t].todo = job[t].todo /\ job'[t].cur = job[t].cur
        /\ pc'[t] = "listing" => disk' = Selected(job[t].cur)
    BY <1>1, <1>8 DEF Select, Goto, Job
  <2>2. disk'.proxy = disk.proxy
    BY <1>1, <1>8 DEF Select, Selected, Cluster
  <2>3. RowOK(t)'
    <3>1. CASE job[t].kind \in Reader /\ ~raced /\ ~foreign
      <4>1. job[t].cur \in Cluster /\ job[t].cur.proxy = disk.proxy
        BY <1>3, <2>1, <3>1 DEF RowOK, Worker, ClustersOf, Critical, Reader
      <4>2. Selected(job[t].cur) = job[t].cur
        BY <1>1, <4>1, SelectedIs
      <4>3. QED
        BY <1>2, <1>3, <2>1, <3>1, <4>2 DEF RowOK, Worker
    <3>2. CASE ~(job[t].kind \in Reader /\ ~raced /\ ~foreign)
      BY <1>2, <1>3, <2>1, <3>2 DEF RowOK, Worker
    <3>3. QED
      BY <3>1, <3>2
  <2>4. QED
    BY <1>3, <1>5, <2>1, <2>2, <2>3, OwnStep DEF Critical
<1>9. CASE List(t)
  <2>1. /\ pc[t] = "listing" /\ UNCHANGED <<disk, chan>> /\ pc'[t] = "restoring"
        /\ job'[t].kind = job[t].kind /\ job'[t].root = job[t].root
        /\ job'[t].from \in {job[t].from, disk}
        /\ job'[t].todo = job[t].todo /\ job'[t].cur = job[t].cur
    BY <1>1, <1>9 DEF List, Goto, Job
  <2>2. RowOK(t)'
    BY <1>2, <1>3, <2>1 DEF RowOK, Worker
  <2>3. QED
    BY <1>3, <1>5, <2>1, <2>2, OwnStep DEF Critical
<1>10. CASE Restore(t)
  <2>1. /\ pc[t] = "restoring" /\ UNCHANGED chan /\ pc'[t] = "unlocking"
        /\ job'[t].kind = job[t].kind /\ job'[t].root = job[t].root /\ job'[t].from = job[t].from
        /\ job'[t].todo = job[t].todo /\ job'[t].cur = job[t].cur
    BY <1>1, <1>10 DEF Restore, Goto, Job
  <2>2. RowOK(t)'
    BY <1>2, <1>3, <2>1 DEF RowOK, Worker
  <2>3. QED
    BY <1>5, <2>1, <2>2, OwnStep DEF Critical
<1>11. CASE Switch(t) \/ Publish(t)
  <2>1. /\ pc[t] \in {"switching", "publishing"} /\ UNCHANGED chan
        /\ pc'[t] \in {"publishing", "unlocking"} /\ job'[t].kind = job[t].kind
    BY <1>1, <1>11 DEF Switch, Publish, Goto, Job
  <2>2. RowOK(t)'
    BY <1>4, <2>1 DEF RowOK, Reader
  <2>3. QED
    BY <1>5, <2>1, <2>2, OwnStep DEF Critical
<1>12. CASE Unlock(t)
  <2>1. /\ pc[t] = "unlocking" /\ UNCHANGED <<disk, chan>> /\ pc'[t] \in {"status", "sending"}
        /\ job' = job
    BY <1>1, <1>12 DEF Unlock, Goto
  <2>2. RowOK(t)'
    BY <1>2, <1>3, <2>1 DEF RowOK, Worker
  <2>3. QED
    BY <1>5, <2>1, <2>2, OwnStep DEF Critical
<1>13. CASE Send(t)
  <2> DEFINE j == job[t]
             m == Msg(j.kind, j.seq, j.cur, j.from, j.from # None)
             w == Msg("switched", j.gen, j.root, None, ~j.failed)
  <2>1. pc[t] = "sending" /\ UNCHANGED disk
    BY <1>13 DEF Send
  <2>2. pc'[t] = "idle" \/ (pc'[t] = "waiting" /\ j.kind \in Reader /\ job'[t].kind = j.kind
                            /\ job'[t].root = j.root /\ job'[t].from = None /\ job'[t].todo \subseteq j.todo)
    <3>1. CASE Finish(t)
      BY <1>1, <3>1 DEF Finish, Goto
    <3>2. CASE /\ j.kind \in Reader /\ Goto(t, "waiting")
               /\ job' = [job EXCEPT ![t] = [j EXCEPT !.todo = j.todo \ {j.cur}, !.cur = j.root,
                                                      !.restore = FALSE, !.from = None]]
      BY <1>1, <3>2 DEF Goto, Job
    <3>3. QED
      BY <1>13, <3>1, <3>2 DEF Send
  <2>3. RowOK(t)'
    BY <1>3, <2>1, <2>2 DEF RowOK, Worker
  <2>4. \A i \in 1 .. Len(chan') : chan'[i].kind \in Reader =>
            \/ \E k \in 1 .. Len(chan) : chan'[i] = chan[k]
            \/ ~raced /\ ~foreign /\ chan'[i].ok => chan'[i].from = chan'[i].label
    <3>1. CASE j.kind = "switch"
      <4>1. w \in Message /\ w.kind \notin Reader
        BY <1>1 DEF Job, Message, Msg, MessageKind, Reader
      <4>2. chan' = Post(chan, w)
        BY <1>13, <3>1 DEF Send, Reader
      <4> HIDE DEF w
      <4>3. NoRows(chan, chan')
        BY <1>1, <4>1, <4>2, PostRows
      <4>4. QED
        BY <4>3 DEF NoRows
    <3>2. CASE j.kind \in Reader /\ j.restore
      <4>1. m \in Message /\ m.label = j.cur /\ m.from = j.from /\ m.ok = (j.from # None)
        BY <1>1, <3>2 DEF Job, Message, Msg, MessageKind
      <4>2. chan' = PostRestore(Post(chan, m), j)
        BY <1>13, <3>2 DEF Send, Reader
      <4>3. ~raced /\ ~foreign /\ j.from # None => j.from = j.cur
        BY <1>3, <2>1, <3>2 DEF RowOK, Worker, Reader
      <4> HIDE DEF m
      <4>4. /\ Len(Append(chan, m)) = Len(chan) + 1
            /\ \A i \in 1 .. Len(chan) + 1 :
                  Append(chan, m)[i] = m \/ (i \in 1 .. Len(chan) /\ Append(chan, m)[i] = chan[i])
        BY <1>1, <4>1
      <4>5. NoRows(Post(chan, m), chan')
        <5>1. Post(chan, m) \in Seq(Message)
          BY <1>1, <4>1 DEF Post
        <5>2. QED
          BY <1>1, <4>2, <5>1, RestoreRows
      <4>6. \A i \in 1 .. Len(Post(chan, m)) :
               Post(chan, m)[i] = m \/ \E k \in 1 .. Len(chan) : Post(chan, m)[i] = chan[k]
        BY <4>4 DEF Post
      <4>7. ~raced /\ ~foreign /\ m.ok => m.from = m.label
        BY <4>1, <4>3
      <4>8. ASSUME NEW i \in 1 .. Len(chan'), chan'[i].kind \in Reader
            PROVE  chan'[i] = m \/ \E k \in 1 .. Len(chan) : chan'[i] = chan[k]
        BY <4>5, <4>6, <4>8 DEF NoRows
      <4>9. QED
        BY <4>7, <4>8
    <3>3. CASE j.kind \in Reader /\ ~j.restore
      BY <1>13, <3>3 DEF Send, Reader
    <3>4. QED
      BY <1>13, <3>1, <3>2, <3>3 DEF Send
  <2> HIDE DEF j, m, w
  <2>5. QED
    BY <2>2, <2>3, <2>4, OwnStep DEF Critical
<1>14. CASE Refresh(t)
  <2> DEFINE j == job[t]
  <2>1. pc[t] \in {"status", "clusters", "probing"} /\ UNCHANGED disk
    BY <1>14 DEF Refresh
  <2>2. /\ pc'[t] \in {"idle", "status", "clusters", "probing"}
        /\ pc'[t] = "idle" \/ (job'[t].kind = j.kind /\ job'[t].root = j.root
                               /\ job'[t].todo = j.todo)
    <3>1. CASE j.from = None
      BY <1>1, <1>14, <2>1, <3>1 DEF Refresh, Job
    <3>2. CASE j.from # None /\ pc[t] = "probing"
      BY <1>1, <1>14, <3>2 DEF Refresh, Finish, Goto
    <3>3. CASE j.from # None /\ pc[t] # "probing"
      BY <1>1, <1>14, <2>1, <3>3 DEF Refresh, Goto, Job, AfterRead
    <3>4. QED
      BY <3>1, <3>2, <3>3
  <2>3. RowOK(t)'
    BY <1>3, <2>1, <2>2 DEF RowOK, Worker
  <2>4. NoRows(chan, chan')
    <3>1. CASE j.from = None
      BY <1>14, <3>1, SameRows DEF Refresh
    <3>2. CASE j.from # None /\ pc[t] = "probing"
      <4>1. PICK ok \in BOOLEAN :
               chan' = PostRestore(Post(chan, Msg("probe", j.gen, None, j.from, ok)), j)
        BY <1>14, <3>2 DEF Refresh, ProbeAnswers
      <4> DEFINE m == Msg("probe", j.gen, None, j.from, ok)
      <4>2. m \in Message /\ m.kind \notin Reader
        BY <1>1 DEF Job, Message, Msg, MessageKind, Reader
      <4> HIDE DEF m
      <4>3. NoRows(chan, Post(chan, m)) /\ Post(chan, m) \in Seq(Message)
        BY <1>1, <4>2, PostRows
      <4>4. NoRows(Post(chan, m), chan')
        BY <1>1, <4>1, <4>3, RestoreRows DEF m
      <4>5. QED
        BY <4>3, <4>4 DEF NoRows
    <3>3. CASE j.from # None /\ pc[t] # "probing"
      <4> DEFINE m == Msg(pc[t], j.gen, None, j.from, TRUE)
      <4>1. chan' = Post(chan, m)
        BY <1>14, <3>3 DEF Refresh
      <4>2. m \in Message /\ m.kind \notin Reader
        BY <1>1, <2>1, <3>3 DEF Job, Message, Msg, MessageKind, Reader
      <4> HIDE DEF m
      <4>3. QED
        BY <1>1, <4>1, <4>2, PostRows
    <3>4. QED
      BY <3>1, <3>2, <3>3
  <2>5. QED
    BY <2>2, <2>3, <2>4, OwnStep DEF Critical, NoRows
<1>15. QED
  BY <1>6, <1>7, <1>8, <1>9, <1>10, <1>11, <1>12, <1>13, <1>14 DEF ThreadStep

-----------------------------------------------------------------------------
(* The header: the profile of the last status, and the status still to come. *)

\* A step that moves the profile does so for a switch, or for a login that is
\* no longer clean.
Stays == Clean' /\ ~Moved' => Clean /\ ~Moved /\ disk'.proxy = disk.proxy

LEMMA CalmStays == ASSUME SInv, Calm PROVE Stays
  BY CalmSwitch DEF Calm, Stays, Clean

LEMMA ThreadStays == ASSUME IInv, SInv, NEW t \in Thread, ThreadStep(t) PROVE Stays
  BY ThreadFrame, ThreadTells DEF IInv, Stays, Clean

LEMMA PoolStays == ASSUME IInv, SInv, NEW r \in reads, PoolStep(r) PROVE Stays
  BY PoolKeeps DEF PoolStep, history, Stays, Clean

LEMMA FormStays ==
    ASSUME FormInv, Stays, terminal' = "form" => terminal = "form" /\ login' = login PROVE FormInv'
  BY DEF FormInv, Stays, Clean

\* Every result of `q` is still in `p`, and what is new is followed.
Grows(q, p) ==
    /\ \A i \in 1 .. Len(q) : \E k \in 1 .. Len(p) : p[k] = q[i]
    /\ \A k \in 1 .. Len(p) : p[k].kind \in Follow \/ \E i \in 1 .. Len(q) : p[k] = q[i]

LEMMA GrowsRefl == ASSUME NEW q PROVE Grows(q, q)
  BY DEF Grows

LEMMA GrowsTrans == ASSUME NEW q, NEW p, NEW r, Grows(q, p), Grows(p, r) PROVE Grows(q, r)
<1>1. \A i \in 1 .. Len(q) : \E k \in 1 .. Len(r) : r[k] = q[i]
  BY DEF Grows
<1>2. \A k \in 1 .. Len(r) : r[k].kind \in Follow \/ \E i \in 1 .. Len(q) : r[k] = q[i]
  <2>1. TAKE k \in 1 .. Len(r)
  <2>2. CASE \E i \in 1 .. Len(p) : r[k] = p[i]
    BY <2>2 DEF Grows
  <2>3. QED
    BY <2>2 DEF Grows
<1>3. QED
  BY <1>1, <1>2 DEF Grows

LEMMA PostGrows ==
    ASSUME NEW q \in Seq(Message), NEW m \in Message
    PROVE  /\ Grows(q, Post(q, m)) /\ Post(q, m) \in Seq(Message)
           /\ m.kind \in Follow => \E k \in 1 .. Len(Post(q, m)) : Post(q, m)[k] = m
<1> DEFINE p == Append(q, m)
<1>1. p \in Seq(Message) /\ Len(p) = Len(q) + 1 /\ p[Len(q) + 1] = m
  OBVIOUS
<1>2. \A i \in 1 .. Len(q) : p[i] = q[i]
  OBVIOUS
<1>3. Len(q) \in Nat
  OBVIOUS
<1> HIDE DEF p
<1>4. m.kind \in Follow => Grows(q, p)
  BY <1>1, <1>2, <1>3 DEF Grows
<1>5. m.kind \in Follow => Post(q, m) = p
  BY DEF Post, p
<1>6. m.kind \notin Follow => Post(q, m) = q
  BY DEF Post
<1>7. QED
  BY <1>1, <1>3, <1>4, <1>5, <1>6, GrowsRefl

LEMMA RestoreGrows ==
    ASSUME NEW q \in Seq(Message), NEW j \in Job
    PROVE  Grows(q, PostRestore(q, j)) /\ PostRestore(q, j) \in Seq(Message)
<1>1. Msg("restore_failed", j.gen, j.root, None, FALSE) \in Message
  BY DEF Job, Message, Msg, MessageKind
<1>2. QED
  BY <1>1, PostGrows, GrowsRefl DEF PostRestore

\* A thread takes no result from the channel.
LEMMA ThreadGrows == ASSUME TypeOK, NEW t \in Thread, ThreadStep(t) PROVE Grows(chan, chan')
<1> DEFINE j == job[t]
<1>1. chan \in Seq(Message) /\ j \in Job
  BY DEF TypeOK
<1>2. CASE UNCHANGED chan
  BY <1>2, GrowsRefl
<1>3. CASE Send(t)
  <2>1. CASE j.kind = "switch"
    <3>1. Msg("switched", j.gen, j.root, None, ~j.failed) \in Message
      BY <1>1 DEF Job, Message, Msg, MessageKind
    <3>2. chan' = Post(chan, Msg("switched", j.gen, j.root, None, ~j.failed))
      BY <1>3, <2>1 DEF Send, Reader
    <3>3. QED
      BY <1>1, <3>1, <3>2, PostGrows
  <2>2. CASE j.kind \in Reader /\ j.restore
    <3> DEFINE m == Msg(j.kind, j.seq, j.cur, j.from, j.from # None)
    <3>1. m \in Message
      BY <1>1, <2>2 DEF Job, Message, Msg, MessageKind
    <3>2. chan' = PostRestore(Post(chan, m), j)
      BY <1>3, <2>2 DEF Send, Reader
    <3> HIDE DEF m
    <3>3. QED
      BY <1>1, <3>1, <3>2, PostGrows, RestoreGrows, GrowsTrans
  <2>3. QED
    BY <1>2, <1>3, <2>1, <2>2 DEF Send, Reader
<1>4. CASE Refresh(t)
  <2>1. CASE j.from # None /\ pc[t] = "probing"
    <3>1. PICK ok \in BOOLEAN :
             chan' = PostRestore(Post(chan, Msg("probe", j.gen, None, j.from, ok)), j)
      BY <1>4, <2>1 DEF Refresh, ProbeAnswers
    <3> DEFINE m == Msg("probe", j.gen, None, j.from, ok)
    <3>2. m \in Message
      BY <1>1 DEF Job, Message, Msg, MessageKind
    <3> HIDE DEF m
    <3>3. QED
      BY <1>1, <3>1, <3>2, PostGrows, RestoreGrows, GrowsTrans DEF m
  <2>2. CASE j.from # None /\ pc[t] # "probing"
    <3>1. chan' = Post(chan, Msg(pc[t], j.gen, None, j.from, TRUE)) /\ pc[t] \in {"status", "clusters"}
      BY <1>4, <2>2 DEF Refresh
    <3>2. Msg(pc[t], j.gen, None, j.from, TRUE) \in Message
      BY <1>1, <3>1 DEF Job, Message, Msg, MessageKind
    <3>3. QED
      BY <1>1, <3>1, <3>2, PostGrows
  <2>3. QED
    BY <1>2, <1>4, <2>1, <2>2 DEF Refresh
<1>5. QED
  BY <1>2, <1>3, <1>4 DEF ThreadStep, Acquire, Check, Select, List, Restore, Switch, Publish, Unlock

\* The follow-up of a login goes on to its status, and then sends it.
Following(t) == pc[t] \in {"waiting", "status"} \cup Locked /\ job[t].kind = "after"
Sent(q, g) == \E i \in 1 .. Len(q) : q[i].kind = "status" /\ q[i].seq = g

LEMMA AfterGoesOn ==
    ASSUME IInv, SInv, "status" \in Follow, NEW t \in Thread, ThreadStep(t), Following(t)
    PROVE  (Following(t)' /\ job'[t].gen = job[t].gen) \/ Sent(chan', job[t].gen)
<1> DEFINE j == job[t]
<1>1. chan \in Seq(Message) /\ j \in Job /\ pc \in [Thread -> PC] /\ job \in [Thread -> Job]
  BY DEF IInv, TypeOK
<1>a. Moves(t) /\ job[t].kind = "after"
  BY WorkerMoves DEF SInv, Worker, Following, Locked
<1>2. CASE Acquire(t) \/ Check(t) \/ Select(t)
  <2>1. pc'[t] \in Locked
    BY <1>1, <1>2 DEF Acquire, Check, Select, Goto, Locked
  <2>2. QED
    BY <1>a, <2>1 DEF Moves, Keeps, Following, Locked
<1>3. CASE List(t) \/ Restore(t) \/ Switch(t) \/ Publish(t)
  <2>1. pc'[t] \in Locked
    BY <1>1, <1>3 DEF List, Restore, Switch, Publish, Goto, Locked
  <2>2. QED
    BY <1>a, <2>1 DEF Moves, Keeps, Following, Locked
<1>4. CASE Unlock(t)
  BY <1>1, <1>4 DEF Unlock, Goto, Following
<1>5. CASE Send(t)
  BY <1>5 DEF Send, Following, Locked
<1>6. CASE Refresh(t)
  <2>1. pc[t] = "status"
    BY <1>6 DEF Refresh, Following, Locked
  <2>2. CASE j.from = None
    BY <1>1, <1>6, <2>1, <2>2 DEF Refresh, Following, Job
  <2>3. CASE j.from # None
    <3> DEFINE m == Msg("status", j.gen, None, j.from, TRUE)
    <3>1. chan' = Post(chan, m)
      BY <1>6, <2>1, <2>3 DEF Refresh
    <3>2. m \in Message /\ m.kind = "status" /\ m.seq = j.gen
      BY <1>1 DEF Job, Message, Msg, MessageKind
    <3> HIDE DEF m
    <3>3. \E k \in 1 .. Len(Post(chan, m)) : Post(chan, m)[k] = m
      <4>1. chan \in Seq(Message) /\ m \in Message /\ m.kind \in Follow
        BY <1>1, <3>2
      <4>2. QED
        BY <4>1, PostGrows
    <3>4. QED
      BY <3>1, <3>2, <3>3 DEF Sent
  <2>4. QED
    BY <2>2, <2>3
<1>7. QED
  BY <1>2, <1>3, <1>4, <1>5, <1>6 DEF ThreadStep

\* A status that is due is still due after a step that leaves its job, its thread
\* or its result alone.
LEMMA DueStays ==
    ASSUME UNCHANGED profileGen, StatusDue,
           \A r \in reads : r.kind = "status" => r \in reads',
           \A t \in Thread : pc[t] # "idle" => pc'[t] = pc[t] /\ job'[t] = job[t],
           \A i \in 1 .. Len(chan) : chan[i].kind = "status" /\ chan[i].seq = profileGen =>
               \E k \in 1 .. Len(chan') : chan'[k] = chan[i]
    PROVE  StatusDue'
<1>1. CASE \E r \in reads : r.kind = "status" /\ r.seq = profileGen
  BY <1>1 DEF StatusDue
<1>2. ASSUME NEW t \in Thread, pc[t] \in {"waiting", "status"} \cup Locked, job[t].kind = "after",
             job[t].gen = profileGen
      PROVE  StatusDue'
  <2>1. pc'[t] = pc[t] /\ job'[t] = job[t]
    BY <1>2 DEF Locked
  <2>2. QED
    BY <1>2, <2>1 DEF StatusDue
<1>3. CASE \E i \in 1 .. Len(chan) : chan[i].kind = "status" /\ chan[i].seq = profileGen
  BY <1>3 DEF StatusDue
<1>4. QED
  BY <1>1, <1>2, <1>3 DEF StatusDue

\* Loading a view starts threads, and stops none.
LEMMA StartsIdle ==
    ASSUME NEW sel, Starts(sel)
    PROVE  \A t \in Thread : pc[t] # "idle" => pc'[t] = pc[t] /\ job'[t] = job[t]
  BY DEF Starts, Started

Excused(at) == at \in {"deferred", "profile", "returned"}

\* A step that leaves the header alone.
LEMMA HeaderStays ==
    ASSUME HeaderInv, Stays, UNCHANGED profile,
           \A k \in 1 .. Len(chan') : chan'[k].kind \in Follow \/ \E i \in 1 .. Len(chan) : chan'[k] = chan[i],
           "status" \in Follow /\ StatusDue => StatusDue',
           Excused(terminal) => Excused(terminal') \/ StatusDue'
    PROVE  HeaderInv'
<1>1. \A k \in 1 .. Len(chan') : chan'[k].kind \in Follow
  BY DEF HeaderInv
<1>2. ASSUME Clean', ~Moved', Here(profile) PROVE Here(profile)'
  BY <1>2 DEF Stays, Here
<1>3. QED
  BY <1>1, <1>2 DEF HeaderInv, Stays, Excused

\* A step after which the status is due, or the login under way will ask for it.
LEMMA HeaderDue ==
    ASSUME HeaderInv, UNCHANGED profile,
           \A k \in 1 .. Len(chan') : \E i \in 1 .. Len(chan) : chan'[k] = chan[i],
           "status" \in Follow => StatusDue' \/ Excused(terminal')
    PROVE  HeaderInv'
<1>1. \A k \in 1 .. Len(chan') : chan'[k].kind \in Follow
  BY DEF HeaderInv
<1>2. QED
  BY <1>1 DEF HeaderInv, Excused

LEMMA UserFrame ==
    ASSUME User
    PROVE  /\ UNCHANGED <<chan, profile>> /\ reads \subseteq reads' /\ terminal = "ui"
           /\ terminal' = "form" =>
                 \/ \E p \in Proxy : FormLogin(p)
                 \/ \E c \in Cluster : LeafLogin(c)
<1>1. ASSUME NEW t \in Thread, NEW isAdmin \in BOOLEAN, ShowTab(t, isAdmin)
      PROVE  UNCHANGED <<chan, profile, reads, terminal>> /\ terminal = "ui"
  BY <1>1 DEF ShowTab, UserActs, hand
<1>2. ASSUME NEW t \in Thread, ShowAllClusters(t)
      PROVE  UNCHANGED <<chan, profile, reads, terminal>> /\ terminal = "ui"
  BY <1>2 DEF ShowAllClusters, UserActs, hand
<1>3. ASSUME NEW t \in Thread, NEW c \in Cluster, SelectScopedCluster(t, c)
      PROVE  UNCHANGED <<chan, profile, terminal>> /\ reads \subseteq reads' /\ terminal = "ui"
  <2>1. PrefetchAll(c, FALSE, {})
    BY <1>3 DEF SelectScopedCluster
  <2>2. reads \subseteq reads'
    BY <2>1 DEF PrefetchAll
  <2>3. QED
    BY <1>3, <2>2 DEF SelectScopedCluster, UserActs, hand
<1>4. ASSUME NEW t \in Thread, NEW p \in Proxy, SwitchProfile(t, p)
      PROVE  UNCHANGED <<chan, profile, reads, terminal>> /\ terminal = "ui"
  BY <1>4 DEF SwitchProfile, UserActs, shared, view, hand
<1>5. CASE RetryClusters
  BY <1>5 DEF RetryClusters, UserActs, view, hand
<1>6. ASSUME NEW p \in Proxy, ProfileLogin(p)
      PROVE  UNCHANGED <<chan, profile>> /\ reads \subseteq reads' /\ terminal = "ui" /\ terminal' = "profile"
  BY <1>6 DEF ProfileLogin, UserActs, EnterProfile
<1>7. ASSUME NEW p \in Proxy, FormLogin(p)
      PROVE  UNCHANGED <<chan, profile, reads>> /\ terminal = "ui"
  BY <1>7 DEF FormLogin, UserActs, shared, view
<1>8. ASSUME NEW c \in Cluster, LeafLogin(c)
      PROVE  UNCHANGED <<chan, profile, reads>> /\ terminal = "ui"
  BY <1>8 DEF LeafLogin, UserActs, shared, view
<1>9. QED
  BY <1>1, <1>2, <1>3, <1>4, <1>5, <1>6, <1>7, <1>8 DEF User

LEMMA UserHeader ==
    ASSUME IInv, SInv, VInv, FormInv, HeaderInv, User PROVE FormInv' /\ HeaderInv'
<1>1. /\ UNCHANGED <<chan, profile>> /\ reads \subseteq reads' /\ terminal = "ui"
      /\ terminal' = "form" =>
            \/ \E p \in Proxy : FormLogin(p)
            \/ \E c \in Cluster : LeafLogin(c)
  BY UserFrame
<1>2. CASE Calm
  <2>1. Stays /\ UNCHANGED <<profileGen, disk>>
    BY <1>2, CalmStays DEF Calm
  <2>2. StatusDue => StatusDue'
    BY <1>1, <1>2, <2>1, DueStays, StartsIdle DEF Calm
  <2>3. HeaderInv'
    BY <1>1, <2>1, <2>2, HeaderStays DEF Excused
  <2>4. ASSUME FormProxy = {}, ~Moved', terminal' = "form" PROVE login'.proxy = disk'.proxy
    <3>1. ASSUME NEW p \in Proxy, FormLogin(p) PROVE login'.proxy = disk.proxy
      BY <2>4, <3>1 DEF FormLogin, RootOf
    <3>2. ASSUME NEW c \in Cluster, LeafLogin(c) PROVE login'.proxy = disk.proxy
      <4>1. Clean /\ ~Moved
        BY <2>1, <2>4 DEF Stays, Clean
      <4>2. selected # None /\ selected.proxy = disk.proxy
        BY <3>2, <4>1 DEF VInv, SeenInv, Here, LeafLogin
      <4>3. QED
        BY <3>2, <4>2 DEF LeafLogin
    <3>3. QED
      BY <1>1, <2>1, <2>4, <3>1, <3>2
  <2>5. QED
    BY <2>3, <2>4 DEF FormInv
<1>3. ASSUME NEW t \in Thread, NEW p \in Proxy, SwitchProfile(t, p) PROVE FormInv' /\ HeaderInv'
  <2>1. /\ ~Moved /\ pc[t] = "idle" /\ \A u \in Thread \ {t} : pc'[u] = pc[u] /\ job'[u] = job[u]
    BY <1>3, SwitchBegins
  <2>2. UNCHANGED <<disk, profileGen, terminal, foreign>>
    BY <1>3 DEF SwitchProfile, shared, hand, history
  <2>3. Stays
    BY <2>1, <2>2 DEF Stays, Clean
  <2>4. StatusDue => StatusDue'
    BY <1>1, <2>1, <2>2, DueStays
  <2>5. HeaderInv'
    BY <1>1, <2>2, <2>3, <2>4, HeaderStays
  <2>6. QED
    BY <1>1, <2>2, <2>5 DEF FormInv
<1>4. ASSUME NEW p \in Proxy, ProfileLogin(p) PROVE FormInv' /\ HeaderInv'
  <2>1. terminal' = "profile"
    BY <1>4 DEF ProfileLogin
  <2>2. HeaderInv'
    BY <1>1, <2>1, HeaderDue DEF Excused
  <2>3. QED
    BY <2>1, <2>2 DEF FormInv
<1>5. QED
  BY <1>2, <1>3, <1>4, UserCalm

\* A current status is applied, and is of the proxy on disk; any other result
\* leaves the header and the status that is due.
LEMMA ApplyHeader ==
    ASSUME IInv, SInv, VInv, FormInv, HeaderInv, NEW t \in Thread, Apply(t)
    PROVE  FormInv' /\ HeaderInv'
<1> DEFINE m == Head(chan)
<1>1. /\ TypeOK /\ chan \in Seq(Message) /\ chan # <<>> /\ chan' = Tail(chan)
      /\ terminal \in {"ui", "deferred"}
  BY DEF IInv, TypeOK, Apply
<1>2. \A k \in 1 .. Len(chan') : \E i \in 1 .. Len(chan) : chan'[k] = chan[i]
  BY <1>1, TailIn
<1>3. m.kind \in Follow
  BY <1>1, TailAnswers DEF HeaderInv
<1>4. \A i \in 1 .. Len(chan) : chan[i] # m => \E k \in 1 .. Len(chan') : chan'[k] = chan[i]
  BY <1>1, TailKeeps
<1>5. ProfileRead(m) => Seen(m.seq, m.from) \in Reads(chan)
  BY <1>1, HeadRead
<1> HIDE DEF m
<1>6. CASE m.kind = "switched" /\ ApplySwitched(m)
  <2>1. /\ UNCHANGED <<threads, disk, foreign>> /\ m.seq = profileGen + 1
        /\ ~m.ok => ~Moved
    BY <1>6, SwitchEnds DEF m, ApplySwitched, history
  <2>2. CASE m.ok /\ EnterProfile(m.seq, Aux({"status", "clusters", "probe"}, m.seq)) /\ UNCHANGED hand
    <3>1. /\ UNCHANGED <<profile, terminal>> /\ profileGen' = m.seq
          /\ reads' = reads \cup Aux({"status", "clusters", "probe"}, m.seq)
      BY <2>2 DEF EnterProfile, hand
    <3>2. "status" \in Follow => \E r \in reads' : r.kind = "status" /\ r.seq = profileGen'
      <4> DEFINE o == [kind |-> "status", seq |-> m.seq, label |-> None, from |-> None]
      <4>1. "status" \in Follow => o \in Aux({"status", "clusters", "probe"}, m.seq)
        BY DEF Aux
      <4>2. QED
        BY <3>1, <4>1
    <3>3. HeaderInv'
      BY <1>2, <3>1, <3>2, HeaderDue DEF StatusDue
    <3>4. QED
      BY <1>1, <3>1, <3>3 DEF FormInv
  <2>3. CASE EnterProfile(profileGen + 1, {}) /\ terminal' = "deferred"
    <3>1. UNCHANGED profile
      BY <2>3 DEF EnterProfile
    <3>2. HeaderInv'
      BY <1>2, <2>3, <3>1, HeaderDue DEF Excused
    <3>3. QED
      BY <2>3, <3>2 DEF FormInv
  <2>4. CASE ~m.ok /\ UNCHANGED <<reads, view, profileGen, hand>>
    <3>1. Stays /\ UNCHANGED <<profile, terminal>>
      BY <2>1, <2>4 DEF Stays, Clean, view, hand
    <3>2. StatusDue => StatusDue'
      BY <1>4, <1>6, <2>1, <2>4, DueStays DEF threads
    <3>3. HeaderInv'
      BY <1>2, <3>1, <3>2, HeaderStays
    <3>4. QED
      BY <1>1, <3>1, <3>3 DEF FormInv
  <2>5. QED
    BY <1>6, <2>2, <2>3, <2>4 DEF ApplySwitched
<1>7. CASE Calm /\ m.kind # "switched"
  <2>1. Stays /\ UNCHANGED profileGen
    BY <1>7, CalmStays DEF Calm
  <2>2. UNCHANGED terminal /\ reads \subseteq reads'
    <3>1. ApplyClusters(t, m) => UNCHANGED terminal /\ reads \subseteq reads'
      BY DEF ApplyClusters, PrefetchAll, hand
    <3>2. ApplyStatus(m) \/ ApplyProbe(t, m) \/ ApplyPrefetch(m) => UNCHANGED terminal /\ reads \subseteq reads'
      BY DEF ApplyStatus, ApplyProbe, ApplyPrefetch, hand
    <3>3. QED
      BY <1>7, <3>1, <3>2 DEF Apply, hand, m
  <2>3. FormInv'
    BY <1>1, <2>2 DEF FormInv
  <2>4. CASE m.kind = "status" /\ m.seq = profileGen
    <3>1. profile' = m.from
      BY <2>4 DEF Apply, ApplyStatus, Current, ProfileRead, Reader, m
    <3>2. ASSUME Clean', ~Moved' PROVE Here(profile)'
      <4>1. Here(m.from) /\ disk'.proxy = disk.proxy
        BY <1>5, <2>1, <2>4, <3>2 DEF Stays, VInv, SeenInv, ProfileRead, Seen
      <4>2. QED
        BY <3>1, <4>1 DEF Here
    <3>3. \A k \in 1 .. Len(chan') : chan'[k].kind \in Follow
      BY <1>2 DEF HeaderInv
    <3>4. HeaderInv'
      BY <1>3, <2>4, <3>2, <3>3 DEF HeaderInv
    <3>5. QED
      BY <2>3, <3>4
  <2>5. CASE ~(m.kind = "status" /\ m.seq = profileGen)
    <3>1. UNCHANGED profile
      BY <1>7, <2>5 DEF Apply, ApplyClusters, ApplyStatus, ApplyProbe, ApplyPrefetch, Current, ProfileRead,
                        view, m
    <3>2. StatusDue => StatusDue'
      BY <1>4, <1>7, <2>1, <2>2, <2>5, DueStays, StartsIdle DEF Calm
    <3>3. HeaderInv'
      BY <1>2, <2>1, <2>2, <3>1, <3>2, HeaderStays
    <3>4. QED
      BY <2>3, <3>3
  <2>6. QED
    BY <2>4, <2>5
<1>8. QED
  BY <1>6, <1>7, ApplyCalm DEF Apply, m, Reader, Current, ProfileRead

LEMMA UIHeader ==
    ASSUME IInv, SInv, VInv, FormInv, HeaderInv, UIStep PROVE FormInv' /\ HeaderInv'
<1>1. CASE TakeDeferred \/ LoginEnds
  <2>1. /\ UNCHANGED <<profile, chan>> /\ Excused(terminal') /\ terminal' # "form"
    BY <1>1 DEF TakeDeferred, LoginEnds, shared, view, Excused
  <2>2. HeaderInv'
    BY <2>1, HeaderDue
  <2>3. QED
    BY <2>1, <2>2 DEF FormInv
<1>2. ASSUME NEW t \in Thread, AfterAction(t) PROVE FormInv' /\ HeaderInv'
  <2>1. AfterStarts(t)
    BY <1>2, AfterBegins
  <2>2. UNCHANGED <<profile, chan, profileGen>> /\ terminal' = "ui"
    BY <1>2 DEF AfterAction, shared, view
  <2>3. StatusDue'
    BY <2>1, <2>2 DEF AfterStarts, StatusDue
  <2>4. HeaderInv'
    BY <2>2, <2>3, HeaderDue
  <2>5. QED
    BY <2>2, <2>4 DEF FormInv
<1>3. QED
  BY <1>1, <1>2, ApplyHeader DEF UIStep

LEMMA ThreadHeader ==
    ASSUME IInv, SInv, FormInv, HeaderInv, NEW t \in Thread, ThreadStep(t) PROVE FormInv' /\ HeaderInv'
<1>1. /\ \A u \in Thread \ {t} : pc'[u] = pc[u] /\ job'[u] = job[u]
      /\ UNCHANGED <<reads, profileGen, terminal>>
  BY ThreadFrame DEF IInv
<1>2. UNCHANGED <<profile, login>>
  BY DEF ThreadStep, Acquire, Check, Select, List, Restore, Switch, Publish, Unlock, Send, Refresh,
         RestUnchanged, view, hand
<1>3. Grows(chan, chan') /\ Stays
  BY ThreadGrows, ThreadStays DEF IInv
<1>4. ASSUME "status" \in Follow, StatusDue PROVE StatusDue'
  <2>1. CASE \E r \in reads : r.kind = "status" /\ r.seq = profileGen
    BY <1>1, <2>1 DEF StatusDue
  <2>2. ASSUME NEW u \in Thread, Following(u), job[u].gen = profileGen PROVE StatusDue'
    <3>1. CASE u = t
      BY <1>1, <1>4, <2>2, <3>1, AfterGoesOn DEF StatusDue, Following, Sent
    <3>2. CASE u # t
      BY <1>1, <2>2, <3>2 DEF StatusDue, Following
    <3>3. QED
      BY <3>1, <3>2
  <2>3. CASE \E i \in 1 .. Len(chan) : chan[i].kind = "status" /\ chan[i].seq = profileGen
    BY <1>1, <1>3, <2>3 DEF StatusDue, Grows
  <2>4. QED
    BY <1>4, <2>1, <2>2, <2>3 DEF StatusDue, Following
<1>5. HeaderInv'
  BY <1>1, <1>2, <1>3, <1>4, HeaderStays DEF Grows
<1>6. QED
  BY <1>1, <1>2, <1>3, <1>5, FormStays

LEMMA PoolHeader ==
    ASSUME IInv, SInv, FormInv, HeaderInv, NEW r \in reads, PoolStep(r) PROVE FormInv' /\ HeaderInv'
<1>1. UNCHANGED <<threads, profileGen, terminal, profile, login>> /\ Stays
  BY PoolStays DEF PoolStep, view, session, hand
<1>2. chan \in Seq(Message) /\ r \in Read
  BY DEF IInv, TypeOK
<1>3. CASE PoolRead(r)
  <2>1. UNCHANGED chan
    BY <1>3 DEF PoolRead
  <2>2. ASSUME StatusDue PROVE StatusDue'
    <3>1. CASE r.kind = "status" /\ r.seq = profileGen
      <4>1. [r EXCEPT !.from = disk] \in reads'
        BY <1>3, <3>1 DEF PoolRead
      <4>2. [r EXCEPT !.from = disk].kind = "status" /\ [r EXCEPT !.from = disk].seq = profileGen
        BY <1>2, <3>1 DEF Read
      <4>3. QED
        BY <1>1, <4>1, <4>2 DEF StatusDue
    <3>2. CASE ~(r.kind = "status" /\ r.seq = profileGen)
      BY <1>1, <1>3, <2>1, <2>2, <3>2 DEF StatusDue, PoolRead, threads
    <3>3. QED
      BY <3>1, <3>2
  <2>3. HeaderInv'
    BY <1>1, <2>1, <2>2, HeaderStays
  <2>4. QED
    BY <1>1, <2>3, FormStays
<1>4. CASE PoolSend(r)
  <2>1. PICK ok \in BOOLEAN : chan' = Post(chan, Msg(r.kind, r.seq, r.label, r.from, ok))
    BY <1>4 DEF PoolSend, ProbeAnswers
  <2> DEFINE m == Msg(r.kind, r.seq, r.label, r.from, ok)
  <2>2. m \in Message /\ m.kind = r.kind /\ m.seq = r.seq /\ chan' = Post(chan, m)
    BY <1>2, <2>1 DEF Read, Message, MessageKind, Msg
  <2> HIDE DEF m
  <2>3. Grows(chan, chan') /\ (m.kind \in Follow => \E k \in 1 .. Len(chan') : chan'[k] = m)
    BY <1>2, <2>2, PostGrows
  <2>4. reads' = reads \ {r}
    BY <1>4 DEF PoolSend
  <2>5. ASSUME "status" \in Follow, StatusDue PROVE StatusDue'
    <3>1. CASE r.kind = "status" /\ r.seq = profileGen
      BY <1>1, <2>2, <2>3, <2>5, <3>1 DEF StatusDue
    <3>2. CASE ~(r.kind = "status" /\ r.seq = profileGen)
      BY <1>1, <2>3, <2>4, <2>5, <3>2 DEF StatusDue, threads, Grows
    <3>3. QED
      BY <3>1, <3>2
  <2>6. HeaderInv'
    BY <1>1, <2>3, <2>5, HeaderStays DEF Grows
  <2>7. QED
    BY <1>1, <2>6, FormStays
<1>5. QED
  BY <1>3, <1>4 DEF PoolStep

LEMMA StutterHeader == ASSUME FormInv, HeaderInv, UNCHANGED vars PROVE FormInv' /\ HeaderInv'
<1>1. UNCHANGED <<disk, reads, chan, pc, job, profileGen, profile, terminal, login, foreign>>
  BY DEF vars, shared, threads, view, session, hand, history
<1>2. (Moved' <=> Moved) /\ (StatusDue' <=> StatusDue) /\ (Here(profile)' <=> Here(profile))
  BY <1>1 DEF Moved, Publishing, Published, Done, Switcher, Answers, StatusDue, Here
<1>3. QED
  BY <1>1, <1>2 DEF FormInv, HeaderInv, Clean

-----------------------------------------------------------------------------
\* The initial states satisfy the invariant: the reads of bootstrap are yet to be made.
THEOREM InitJInv == Init => JInv
<1> SUFFICES ASSUME Init PROVE JInv
  OBVIOUS
<1>1. IInv
  BY InitIInv
<1>2. /\ \A t \in Thread : pc[t] = "idle"
      /\ chan = <<>> /\ Len(chan) = 0 /\ Answers(chan) = {}
      /\ profileGen = 0 /\ genProfile = 0 /\ selected = None /\ pendingRestore = None
      /\ terminal = "ui"
  BY DEF Init, Answers
<1>3. \A t \in Thread : ~Switcher(t) /\ ~Worker(t)
  BY <1>2 DEF Switcher, Worker
<1>4. SInv
  BY <1>2, <1>3 DEF SInv, KindInv, OneSwitch, SwitchTag, GenInv, Published, Done
<1>5. \A o \in Reads(chan) : o.seq = 0 /\ o.from = None
  <2>1. ASSUME NEW o \in Reads(chan) PROVE o.seq = 0 /\ o.from = None
    <3>1. PICK r \in reads : o = Seen(r.seq, r.from)
      BY <1>2, <1>3, ReadsOf
    <3>2. reads = Aux({"status", "clusters", "probe"}, 0)
      BY DEF Init
    <3>3. QED
      BY <3>1, <3>2, AuxReads DEF Seen
  <2>2. QED
    BY <2>1
<1>6. VInv
  BY <1>2, <1>5 DEF VInv, TagInv, LeavingInv, SeenInv, Here
<1>7. WorkInv /\ CInv
  BY <1>2, <1>3 DEF WorkInv, CInv, WorkKeepsToItsProxy, RowsInv, LockedRowsAreTheirClusters, Elements
<1>8. QED
  BY <1>1, <1>4, <1>6, <1>7 DEF JInv

\* The header is empty, and nothing on the channel yet.
LEMMA InitHeader == Init => FormInv /\ HeaderInv
<1> SUFFICES ASSUME Init PROVE FormInv /\ HeaderInv
  OBVIOUS
<1>1. chan = <<>> /\ Len(chan) = 0 /\ profile = None /\ terminal = "ui"
  BY DEF Init
<1>2. QED
  BY <1>1 DEF FormInv, HeaderInv, Here

LEMMA CalmJInv == ASSUME JInv, IInv', Calm PROVE JInv'
  BY CalmSwitch, CalmSeen, CalmWork, CalmOutside, OutsideKeeps DEF JInv

LEMMA UserJInv == ASSUME JInv, IInv', User PROVE JInv'
<1>1. CASE Calm
  BY <1>1, CalmJInv
<1>2. ASSUME NEW t \in Thread, NEW p \in Proxy, SwitchProfile(t, p) PROVE JInv'
  BY <1>2, SwitchBegins, SwitchBeginsSeen, SwitchWork, SwitchOutside, OutsideKeeps DEF JInv
<1>3. ASSUME NEW p \in Proxy, ProfileLogin(p) PROVE JInv'
  <2>1. Outside
    BY <1>3, SameRows, SameOutside DEF ProfileLogin, history
  <2>2. SInv' /\ WorkInv'
    BY <1>3, LoginBegins, EnterWork DEF JInv
  <2>3. QED
    BY <1>3, <2>1, <2>2, LoginBeginsSeen, OutsideKeeps DEF JInv
<1>4. QED
  BY <1>1, <1>2, <1>3, UserCalm DEF JInv

LEMMA UIJInv == ASSUME JInv, FormInv, IInv', UIStep PROVE JInv'
<1>1. CASE TakeDeferred
  BY <1>1, DeferredCalm, CalmJInv DEF JInv
<1>2. CASE LoginEnds
  BY <1>2, LoginOver, LoginSeen, LoginWork, LoginOutside, OutsideKeeps DEF JInv
<1>3. ASSUME NEW t \in Thread, AfterAction(t) PROVE JInv'
  BY <1>3, AfterBegins, AfterSeen, AfterWork, AfterOutside, OutsideKeeps DEF JInv
<1>4. ASSUME NEW t \in Thread, Apply(t) PROVE JInv'
  <2>1. CASE Calm
    BY <2>1, CalmJInv
  <2>2. CASE Head(chan).kind = "switched" /\ ApplySwitched(Head(chan))
    BY <1>4, <2>2, SwitchEnds, SwitchEndsSeen, SwitchEndsWork, SwitchEndsOutside, OutsideKeeps DEF JInv
  <2>3. QED
    BY <1>4, <2>1, <2>2, ApplyCalm DEF JInv
<1>5. QED
  BY <1>1, <1>2, <1>3, <1>4 DEF UIStep

LEMMA ThreadJInv == ASSUME JInv, IInv', NEW t \in Thread, ThreadStep(t) PROVE JInv'
<1>1. SInv'
  BY StepsAlive, SwitcherSteps, WorkerSteps DEF JInv
<1>2. QED
  BY <1>1, ThreadSeen, ThreadWork, ThreadCritical DEF JInv

LEMMA PoolJInv == ASSUME JInv, IInv', NEW r \in reads, PoolStep(r) PROVE JInv'
  BY PoolKeeps, PoolSeen, PoolWork, PoolOutside, OutsideKeeps DEF JInv

\* Every step keeps the invariant.
THEOREM NextHInv == ASSUME HInv, IInv', [Next]_vars PROVE HInv'
<1>1. JInv /\ FormInv /\ HeaderInv /\ IInv /\ SInv /\ VInv
  BY DEF HInv, JInv
<1>2. CASE User
  BY <1>1, <1>2, UserJInv, UserHeader DEF HInv
<1>3. CASE UIStep
  BY <1>1, <1>3, UIJInv, UIHeader DEF HInv
<1>4. CASE Pool
  BY <1>1, <1>4, PoolJInv, PoolHeader DEF HInv, Pool
<1>5. CASE \E t \in Thread : ThreadStep(t)
  BY <1>1, <1>5, ThreadJInv, ThreadHeader DEF HInv
<1>6. CASE UNCHANGED vars
  BY <1>1, <1>6, StutterCalm, CalmJInv, StutterHeader DEF HInv
<1>7. QED
  BY <1>2, <1>3, <1>4, <1>5, <1>6 DEF Next, Quiet

\* Every reachable state satisfies the invariant.
THEOREM SwitchInvariance == Spec => []HInv
<1>1. Init => HInv
  BY InitJInv, InitHeader DEF HInv
<1>2. HInv /\ IInv' /\ [Next]_vars => HInv'
  BY NextHInv
<1>3. QED
  BY <1>1, <1>2, Invariance, PTL DEF Spec

\* What the UI dispatches from and what the workers check follow a background
\* switch: the workers' generation is the UI's, or the next one while the switch
\* is not applied, and the topology on screen is of the proxy the profile is on.
THEOREM ViewFollows == Spec => []ViewFollowsTheSwitch
<1>1. HInv => ViewFollowsTheSwitch
  <2> SUFFICES ASSUME HInv PROVE ViewFollowsTheSwitch
    OBVIOUS
  <2>1. SInv /\ VInv
    BY DEF HInv, JInv
  <2>2. GenerationsAgree
    <3>1. CASE switching = None
      BY <2>1, <3>1, NoSwitch DEF GenerationsAgree
    <3>2. CASE switching # None
      BY <2>1, <3>2 DEF SInv, GenInv, GenerationsAgree
    <3>3. QED
      BY <3>1, <3>2
  <2>3. TopologyIsOfThisProxy
    BY <2>1, NoSwitch DEF VInv, SeenInv, Here, Clean, Moved, TopologyIsOfThisProxy
  <2>4. QED
    BY <2>2, <2>3 DEF ViewFollowsTheSwitch
<1>2. QED
  BY <1>1, SwitchInvariance, PTL

\* Work between its check and its restore stays under the proxy it was queued for.
THEOREM WorkStaysUnderItsProxy == Spec => []WorkKeepsToItsProxy
<1>1. HInv => WorkKeepsToItsProxy
  BY DEF HInv, JInv, CInv
<1>2. QED
  BY <1>1, SwitchInvariance, PTL

\* A listing read under the lock is never shown under another cluster's name.
THEOREM RowsAreTheirClusters == Spec => []LockedRowsAreTheirClusters
<1>1. HInv => LockedRowsAreTheirClusters
  BY DEF HInv, JInv, CInv
<1>2. QED
  BY <1>1, SwitchInvariance, PTL

\* At most one background switch is under way, in a thread or in a result the UI
\* has yet to apply.
OneSwitchAtATime ==
    /\ \A t, u \in Thread : Switcher(t) /\ Switcher(u) => t = u
    /\ \A t \in Thread : Switcher(t) => Answers(chan) = {}

\* App::profile_switching keeps the switches apart.
THEOREM SwitchesAreApart == Spec => []OneSwitchAtATime
<1>1. HInv => OneSwitchAtATime
  BY DEF HInv, JInv, SInv, OneSwitch, OneSwitchAtATime
<1>2. QED
  BY <1>1, SwitchInvariance, PTL

\* When nothing runs, nothing is left to tell the UI.
LEMMA SettledIsHere ==
    ASSUME HInv, Clean, Settled PROVE Here(profile) /\ Here(selected)
<1>1. /\ terminal = "ui" /\ reads = {} /\ Len(chan) = 0
      /\ \A t \in Thread : pc[t] = "idle"
  BY DEF Settled
<1>2. ~Moved
  BY <1>1 DEF Moved, Publishing, Published, Done, Switcher, Answers
<1>3. ~StatusDue
  BY <1>1 DEF StatusDue, Locked
<1>4. Here(profile)
  BY <1>1, <1>2, <1>3 DEF HInv, HeaderInv, Here
<1>5. Here(selected)
  BY <1>2 DEF HInv, JInv, VInv, SeenInv
<1>6. QED
  BY <1>4, <1>5

\* Unless a form login went to another proxy than the UI's, the header and the
\* topology of a program at rest are those of the proxy the profile is on.
THEOREM SettledViewUnlessForeign == Spec => [](~foreign => SettledViewIsOfThisProxy)
<1>1. HInv => (~foreign => SettledViewIsOfThisProxy)
  BY SettledIsHere DEF SettledViewIsOfThisProxy, Clean, Here
<1>2. QED
  BY <1>1, SwitchInvariance, PTL

\* They are, however a switch races the logins, when the form is never given a
\* proxy other than the current one.
THEOREM SettledView == ASSUME FormProxy = {} PROVE Spec => []SettledViewIsOfThisProxy
<1>1. HInv => SettledViewIsOfThisProxy
  BY SettledIsHere DEF SettledViewIsOfThisProxy, Clean, Here
<1>2. QED
  BY <1>1, SwitchInvariance, PTL
=============================================================================
