------------------------ MODULE ActiveProfile_proofs ------------------------
(* What holds of ActiveProfile for every set of proxies, clusters, threads and *)
(* every bound.                                                              *)
EXTENDS ActiveProfile, TLAPS

Roots == {RootOf(p) : p \in Proxy}

\* A thread is in the critical section exactly while it holds the lock.
LockInv == \A t \in Thread : pc[t] \in Locked <=> lock = t

\* What the threads and the UI will put the profile on.
ThreadRoots ==
    \A t \in Thread :
        /\ pc[t] \in Locked \cup {"waiting", "sending"} => job[t].root \in Roots
        /\ pc[t] = "selecting" => job[t].cur \in Cluster

HandInv ==
    /\ pendingRestore \in Roots \cup {None}
    /\ terminal \in {"deferred", "profile", "form"} => login \in Cluster

RootInv == ThreadRoots /\ HandInv

\* What the results on the channel carry.
Carries(q) ==
    \A i \in 1 .. Len(q) :
        /\ q[i].kind = "clusters" => q[i].from \in Cluster
        /\ q[i].kind = "switched" => q[i].label \in Cluster

ChanInv == Carries(chan)

ViewInv == agg => selected # None

\* The profile is off root only for a reason, or inside a critical section that
\* will restore it.
DiskInv ==
    disk.name # Root =>
        \/ strandedBy # None
        \/ \E t \in Thread : lock = t /\ pc[t] \in {"listing", "restoring"}

IInv == TypeOK /\ LockInv /\ RootInv /\ ChanInv /\ ViewInv /\ DiskInv

USE ConstantsAssumption

LEMMA RootsAreClusters == \A p \in Proxy : RootOf(p) \in Cluster /\ RootOf(p).name = Root
  BY DEF RootOf, Cluster

LEMMA WorkType ==
    ASSUME NEW k \in Kind, NEW g \in Nat, NEW s \in Nat, NEW r \in Cluster \cup {None},
           NEW todo \in SUBSET Cluster
    PROVE  Work(k, g, s, r, todo) \in Job
  BY DEF Work, Job

LEMMA PostTyped ==
    ASSUME NEW q \in Seq(Message), NEW m \in Message, Carries(q),
           m.kind = "clusters" => m.from \in Cluster,
           m.kind = "switched" => m.label \in Cluster
    PROVE  Post(q, m) \in Seq(Message) /\ Carries(Post(q, m))
<1>1. Append(q, m) \in Seq(Message) /\ Len(Append(q, m)) = Len(q) + 1
  OBVIOUS
<1>2. \A i \in 1 .. Len(q) + 1 : Append(q, m)[i] = IF i = Len(q) + 1 THEN m ELSE q[i]
  OBVIOUS
<1>3. Carries(Append(q, m))
  BY <1>1, <1>2 DEF Carries
<1>4. QED
  BY <1>1, <1>3 DEF Post

LEMMA RestoreTyped ==
    ASSUME NEW q \in Seq(Message), NEW j \in Job, Carries(q)
    PROVE  PostRestore(q, j) \in Seq(Message) /\ Carries(PostRestore(q, j))
<1>1. /\ Msg("restore_failed", j.gen, j.root, None, FALSE) \in Message
      /\ Msg("restore_failed", j.gen, j.root, None, FALSE).kind = "restore_failed"
  BY DEF Job, Message, Msg, MessageKind
<1>2. QED
  BY <1>1, PostTyped DEF PostRestore

LEMMA AuxType ==
    ASSUME NEW g \in Nat, NEW kinds \in SUBSET {"status", "clusters", "probe"}
    PROVE  Aux(kinds, g) \subseteq Read
  BY DEF Aux, Read

\* The initial states satisfy the inductive invariant.
THEOREM InitIInv == Init => IInv
<1> SUFFICES ASSUME Init PROVE IInv
  OBVIOUS
<1>1. PICK p \in Proxy : disk = RootOf(p)
  BY DEF Init
<1>2. disk \in Cluster /\ disk.name = Root
  BY <1>1, RootsAreClusters
<1>3. NoJob \in Job
  BY WorkType DEF NoJob, Kind
<1>4. reads \subseteq Read
  BY AuxType DEF Init
<1>5. TypeOK
  <2>1. pc \in [Thread -> PC] /\ job \in [Thread -> Job] /\ chan \in Seq(Message)
    BY <1>3 DEF Init, PC
  <2>2. acts \in 0 .. MaxActs
    BY DEF Init
  <2>3. QED
    BY <1>2, <1>4, <2>1, <2>2 DEF Init, TypeOK
<1>6. QED
  BY <1>2, <1>5 DEF Init, IInv, LockInv, RootInv, ThreadRoots, HandInv, ChanInv, Carries, ViewInv, DiskInv, Locked

\* What a thread changes of its own job keeps its type, its root, and every
\* other thread's job.
KeepsRoots(f, g, t) ==
    /\ g \in [Thread -> Job]
    /\ \A u \in Thread \ {t} : g[u] = f[u]
    /\ g[t].root = f[t].root

LEMMA JobStopped ==
    ASSUME NEW f \in [Thread -> Job], NEW t \in Thread
    PROVE  KeepsRoots(f, [f EXCEPT ![t].todo = {}, ![t].restore = FALSE], t)
  BY DEF KeepsRoots, Job

LEMMA JobCur ==
    ASSUME NEW f \in [Thread -> Job], NEW t \in Thread, NEW c \in Cluster
    PROVE  KeepsRoots(f, [f EXCEPT ![t].cur = c, ![t].restore = TRUE], t)
  BY DEF KeepsRoots, Job

LEMMA JobFrom ==
    ASSUME NEW f \in [Thread -> Job], NEW t \in Thread, NEW c \in Cluster \cup {None}
    PROVE  KeepsRoots(f, [f EXCEPT ![t].from = c], t)
  BY DEF KeepsRoots, Job

LEMMA JobFailed ==
    ASSUME NEW f \in [Thread -> Job], NEW t \in Thread, NEW b \in BOOLEAN
    PROVE  KeepsRoots(f, [f EXCEPT ![t].failed = b], t)
  BY DEF KeepsRoots, Job

LEMMA ThreadIInv == ASSUME IInv, NEW t \in Thread, ThreadStep(t) PROVE IInv'
<1>a. pc \in [Thread -> PC] /\ job \in [Thread -> Job] /\ disk \in Cluster
  BY DEF IInv, TypeOK
<1>b. pc[t] \in Locked \cup {"waiting", "sending"} =>
        job[t].root \in Cluster /\ job[t].root.name = Root
  BY RootsAreClusters DEF IInv, RootInv, ThreadRoots, HandInv, Roots
<1>c. pc[t] = "selecting" => job[t].cur \in Cluster
  BY DEF IInv, RootInv, ThreadRoots, HandInv
<1>1. CASE Acquire(t)
  <2>1. /\ pc' \in [Thread -> PC]
        /\ \A u \in Thread \ {t} : pc'[u] = pc[u]
    BY <1>1, <1>a DEF Acquire, Goto, PC, Locked
  <2>2. KeepsRoots(job, job', t)
    BY <1>1, <1>a DEF Acquire, KeepsRoots
  <2>3. disk' \in Cluster
    BY <1>1, <1>a, <1>b, <1>c DEF Acquire, Selected, Cluster, Locked
  <2>4. TypeOK'
    BY <1>1, <2>1, <2>2, <2>3, <1>b DEF IInv, TypeOK, Acquire, RestUnchanged, view, session, hand, KeepsRoots
  <2>5. LockInv'
    BY <1>1, <2>1, <1>a DEF IInv, LockInv, Acquire, Goto, Locked
  <2>6. RootInv'
    BY <1>1, <2>1, <2>2, <1>a DEF IInv, RootInv, ThreadRoots, HandInv, Acquire, Goto, RestUnchanged, Locked, session, hand, KeepsRoots
  <2>7. ChanInv' /\ ViewInv'
    BY <1>1 DEF IInv, ChanInv, Carries, ViewInv, Acquire, RestUnchanged, view
  <2>8. DiskInv'
    BY <1>1, <2>1, <1>a, <1>b, <1>c DEF IInv, LockInv, DiskInv, Acquire, Goto, Locked, Selected, Cluster
  <2>9. QED
    BY <2>4, <2>5, <2>6, <2>7, <2>8 DEF IInv
<1>2. CASE Check(t)
  <2>1. /\ pc' \in [Thread -> PC]
        /\ \A u \in Thread \ {t} : pc'[u] = pc[u]
    BY <1>2, <1>a DEF Check, Goto, PC, Locked
  <2>2. KeepsRoots(job, job', t) /\ (pc'[t] = "selecting" => job'[t].cur \in Cluster)
    <3>1. job[t].todo \subseteq Cluster
      BY <1>a DEF Job
    <3>2. CASE ~StillWanted(job[t])
      BY <1>2, <1>a, <3>2, JobStopped DEF Check, Goto
    <3>3. CASE StillWanted(job[t]) /\ job[t].kind = "after"
      BY <1>2, <1>a, <3>3 DEF Check, Goto, KeepsRoots
    <3>4. CASE StillWanted(job[t]) /\ job[t].kind # "after"
      <4>1. PICK c \in job[t].todo : job' = [job EXCEPT ![t].cur = c, ![t].restore = TRUE]
        BY <1>2, <3>4 DEF Check
      <4>2. job'[t].cur = c
        BY <4>1, <1>a DEF Job
      <4>3. QED
        BY <4>1, <4>2, <3>1, <1>a, JobCur
    <3>5. QED
      BY <3>2, <3>3, <3>4
  <2>3. disk' \in Cluster
    BY <1>2, <1>a, <1>b, <1>c DEF Check, Selected, Cluster, Locked
  <2>4. TypeOK'
    BY <1>2, <2>1, <2>2, <2>3, <1>b DEF IInv, TypeOK, Check, RestUnchanged, view, session, hand, KeepsRoots
  <2>5. LockInv'
    BY <1>2, <2>1, <1>a DEF IInv, LockInv, Check, Goto, Locked
  <2>6. RootInv'
    BY <1>2, <2>1, <2>2, <1>a DEF IInv, RootInv, ThreadRoots, HandInv, Check, Goto, RestUnchanged, Locked, session, hand, KeepsRoots
  <2>7. ChanInv' /\ ViewInv'
    BY <1>2 DEF IInv, ChanInv, Carries, ViewInv, Check, RestUnchanged, view
  <2>8. DiskInv'
    BY <1>2, <2>1, <1>a, <1>b, <1>c DEF IInv, LockInv, DiskInv, Check, Goto, Locked, Selected, Cluster
  <2>9. QED
    BY <2>4, <2>5, <2>6, <2>7, <2>8 DEF IInv
<1>3. CASE Select(t)
  <2>1. /\ pc' \in [Thread -> PC]
        /\ \A u \in Thread \ {t} : pc'[u] = pc[u]
    BY <1>3, <1>a DEF Select, Goto, PC, Locked
  <2>2. KeepsRoots(job, job', t)
    BY <1>3, <1>a, JobFrom DEF Select
  <2>3. disk' \in Cluster
    BY <1>3, <1>a, <1>b, <1>c DEF Select, Selected, Cluster, Locked
  <2>4. TypeOK'
    BY <1>3, <2>1, <2>2, <2>3, <1>b DEF IInv, TypeOK, Select, RestUnchanged, view, session, hand, KeepsRoots
  <2>5. LockInv'
    BY <1>3, <2>1, <1>a DEF IInv, LockInv, Select, Goto, Locked
  <2>6. RootInv'
    BY <1>3, <2>1, <2>2, <1>a DEF IInv, RootInv, ThreadRoots, HandInv, Select, Goto, RestUnchanged, Locked, session, hand, KeepsRoots
  <2>7. ChanInv' /\ ViewInv'
    BY <1>3 DEF IInv, ChanInv, Carries, ViewInv, Select, RestUnchanged, view
  <2>8. DiskInv'
    BY <1>3, <2>1, <1>a, <1>b, <1>c DEF IInv, LockInv, DiskInv, Select, Goto, Locked, Selected, Cluster
  <2>9. QED
    BY <2>4, <2>5, <2>6, <2>7, <2>8 DEF IInv
<1>4. CASE List(t)
  <2>1. /\ pc' \in [Thread -> PC]
        /\ \A u \in Thread \ {t} : pc'[u] = pc[u]
    BY <1>4, <1>a DEF List, Goto, PC, Locked
  <2>2. KeepsRoots(job, job', t)
    <3>1. CASE job' = [job EXCEPT ![t].from = disk]
      BY <1>a, <3>1, JobFrom
    <3>2. CASE UNCHANGED job
      BY <1>a, <3>2 DEF KeepsRoots
    <3>3. QED
      BY <1>4, <3>1, <3>2 DEF List
  <2>3. disk' \in Cluster
    BY <1>4, <1>a, <1>b, <1>c DEF List, Selected, Cluster, Locked
  <2>4. TypeOK'
    BY <1>4, <2>1, <2>2, <2>3, <1>b DEF IInv, TypeOK, List, RestUnchanged, view, session, hand, KeepsRoots
  <2>5. LockInv'
    BY <1>4, <2>1, <1>a DEF IInv, LockInv, List, Goto, Locked
  <2>6. RootInv'
    BY <1>4, <2>1, <2>2, <1>a DEF IInv, RootInv, ThreadRoots, HandInv, List, Goto, RestUnchanged, Locked, session, hand, KeepsRoots
  <2>7. ChanInv' /\ ViewInv'
    BY <1>4 DEF IInv, ChanInv, Carries, ViewInv, List, RestUnchanged, view
  <2>8. DiskInv'
    BY <1>4, <2>1, <1>a, <1>b, <1>c DEF IInv, LockInv, DiskInv, List, Goto, Locked, Selected, Cluster
  <2>9. QED
    BY <2>4, <2>5, <2>6, <2>7, <2>8 DEF IInv
<1>5. CASE Restore(t)
  <2>1. /\ pc' \in [Thread -> PC]
        /\ \A u \in Thread \ {t} : pc'[u] = pc[u]
    BY <1>5, <1>a DEF Restore, Goto, PC, Locked
  <2>2. KeepsRoots(job, job', t)
    <3>1. PICK b \in BOOLEAN : job' = [job EXCEPT ![t].failed = b]
      BY <1>5 DEF Restore
    <3>2. QED
      BY <1>a, <3>1, JobFailed
  <2>3. disk' \in Cluster
    BY <1>5, <1>a, <1>b, <1>c DEF Restore, Selected, Cluster, Locked
  <2>4. TypeOK'
    BY <1>5, <2>1, <2>2, <2>3, <1>b DEF IInv, TypeOK, Restore, RestUnchanged, view, session, hand, KeepsRoots
  <2>5. LockInv'
    BY <1>5, <2>1, <1>a DEF IInv, LockInv, Restore, Goto, Locked
  <2>6. RootInv'
    BY <1>5, <2>1, <2>2, <1>a DEF IInv, RootInv, ThreadRoots, HandInv, Restore, Goto, RestUnchanged, Locked, session, hand, KeepsRoots
  <2>7. ChanInv' /\ ViewInv'
    BY <1>5 DEF IInv, ChanInv, Carries, ViewInv, Restore, RestUnchanged, view
  <2>8. DiskInv'
    <3>1. CASE disk' = Selected(job[t].root)
      <4>1. disk'.name = Root
        BY <1>5, <1>a, <1>b, <3>1 DEF Restore, Selected, Cluster, Locked
      <4>2. QED
        BY <4>1 DEF DiskInv
    <3>2. CASE UNCHANGED disk /\ strandedBy' = IF disk.name = Root THEN strandedBy ELSE "restore"
      BY <3>2 DEF DiskInv
    <3>3. QED
      BY <1>5, <3>1, <3>2 DEF Restore
  <2>9. QED
    BY <2>4, <2>5, <2>6, <2>7, <2>8 DEF IInv
<1>6. CASE Switch(t)
  <2>1. /\ pc' \in [Thread -> PC]
        /\ \A u \in Thread \ {t} : pc'[u] = pc[u]
    BY <1>6, <1>a DEF Switch, Goto, PC, Locked
  <2>2. KeepsRoots(job, job', t)
    <3>1. CASE job' = [job EXCEPT ![t].failed = TRUE]
      BY <1>a, <3>1, JobFailed
    <3>2. CASE UNCHANGED job
      BY <1>a, <3>2 DEF KeepsRoots
    <3>3. QED
      BY <1>6, <3>1, <3>2 DEF Switch
  <2>3. disk' \in Cluster
    BY <1>6, <1>a, <1>b, <1>c DEF Switch, Selected, Cluster, Locked
  <2>4. TypeOK'
    BY <1>6, <2>1, <2>2, <2>3, <1>b DEF IInv, TypeOK, Switch, RestUnchanged, view, session, hand, KeepsRoots
  <2>5. LockInv'
    BY <1>6, <2>1, <1>a DEF IInv, LockInv, Switch, Goto, Locked
  <2>6. RootInv'
    BY <1>6, <2>1, <2>2, <1>a DEF IInv, RootInv, ThreadRoots, HandInv, Switch, Goto, RestUnchanged, Locked, session, hand, KeepsRoots
  <2>7. ChanInv' /\ ViewInv'
    BY <1>6 DEF IInv, ChanInv, Carries, ViewInv, Switch, RestUnchanged, view
  <2>8. DiskInv'
    <3>1. CASE disk' = job[t].root
      BY <1>6, <1>b, <3>1 DEF DiskInv, Switch, Locked
    <3>2. CASE UNCHANGED <<disk, strandedBy>>
      BY <1>6, <3>2 DEF IInv, LockInv, DiskInv, Switch, Locked
    <3>3. QED
      BY <1>6, <3>1, <3>2 DEF Switch
  <2>9. QED
    BY <2>4, <2>5, <2>6, <2>7, <2>8 DEF IInv
<1>7. CASE Publish(t)
  <2>1. /\ pc' \in [Thread -> PC]
        /\ \A u \in Thread \ {t} : pc'[u] = pc[u]
    BY <1>7, <1>a DEF Publish, Goto, PC, Locked
  <2>2. KeepsRoots(job, job', t)
    BY <1>7, <1>a DEF Publish, KeepsRoots
  <2>3. disk' \in Cluster
    BY <1>7, <1>a, <1>b, <1>c DEF Publish, Selected, Cluster, Locked
  <2>4. TypeOK'
    <3>1. job[t].gen \in Nat
      BY <1>a DEF Job
    <3>2. QED
      BY <1>7, <2>1, <2>2, <2>3, <3>1 DEF IInv, TypeOK, Publish, RestUnchanged, view, session, hand, KeepsRoots
  <2>5. LockInv'
    BY <1>7, <2>1, <1>a DEF IInv, LockInv, Publish, Goto, Locked
  <2>6. RootInv'
    BY <1>7, <2>1, <2>2, <1>a DEF IInv, RootInv, ThreadRoots, HandInv, Publish, Goto, RestUnchanged, Locked, session, hand, KeepsRoots
  <2>7. ChanInv' /\ ViewInv'
    BY <1>7 DEF IInv, ChanInv, Carries, ViewInv, Publish, RestUnchanged, view
  <2>8. DiskInv'
    BY <1>7, <2>1, <1>a, <1>b, <1>c DEF IInv, LockInv, DiskInv, Publish, Goto, Locked, Selected, Cluster
  <2>9. QED
    BY <2>4, <2>5, <2>6, <2>7, <2>8 DEF IInv
<1>8. CASE Unlock(t)
  <2>1. /\ pc' \in [Thread -> PC]
        /\ \A u \in Thread \ {t} : pc'[u] = pc[u]
    BY <1>8, <1>a DEF Unlock, Goto, PC, Locked
  <2>2. KeepsRoots(job, job', t)
    BY <1>8, <1>a DEF Unlock, KeepsRoots
  <2>3. disk' \in Cluster
    BY <1>8, <1>a, <1>b, <1>c DEF Unlock, Selected, Cluster, Locked
  <2>4. TypeOK'
    BY <1>8, <2>1, <2>2, <2>3, <1>b DEF IInv, TypeOK, Unlock, RestUnchanged, view, session, hand, KeepsRoots
  <2>5. LockInv'
    BY <1>8, <2>1, <1>a DEF IInv, LockInv, Unlock, Goto, Locked
  <2>6. RootInv'
    BY <1>8, <2>1, <2>2, <1>a DEF IInv, RootInv, ThreadRoots, HandInv, Unlock, Goto, RestUnchanged, Locked, session, hand, KeepsRoots
  <2>7. ChanInv' /\ ViewInv'
    BY <1>8 DEF IInv, ChanInv, Carries, ViewInv, Unlock, RestUnchanged, view
  <2>8. DiskInv'
    BY <1>8, <2>1, <1>a, <1>b, <1>c DEF IInv, LockInv, DiskInv, Unlock, Goto, Locked, Selected, Cluster
  <2>9. QED
    BY <2>4, <2>5, <2>6, <2>7, <2>8 DEF IInv
<1>9. CASE Send(t)
  <2>1. NoJob \in Job /\ PC # {}
    BY WorkType DEF NoJob, Kind, PC
  <2>2. job[t] \in Job /\ job[t].root \in Cluster
    BY <1>9, <1>a, <1>b DEF Send
  <2>3. /\ pc' \in [Thread -> PC] /\ pc'[t] \in {"idle", "waiting"}
        /\ \A u \in Thread \ {t} : pc'[u] = pc[u]
    BY <1>9, <1>a DEF Send, Finish, Goto, PC, Locked
  <2>4. /\ job' \in [Thread -> Job]
        /\ \A u \in Thread \ {t} : job'[u] = job[u]
        /\ pc'[t] = "waiting" => job'[t].root = job[t].root
    <3>1. CASE Finish(t)
      BY <1>a, <2>1, <3>1 DEF Finish, Goto
    <3>2. CASE Goto(t, "waiting") /\ job' = [job EXCEPT ![t] = [job[t] EXCEPT
                 !.todo = job[t].todo \ {job[t].cur}, !.cur = job[t].root, !.restore = FALSE, !.from = None]]
      <4>1. [job[t] EXCEPT !.todo = job[t].todo \ {job[t].cur}, !.cur = job[t].root,
                           !.restore = FALSE, !.from = None] \in Job
        BY <2>2 DEF Job
      <4>2. [job[t] EXCEPT !.todo = job[t].todo \ {job[t].cur}, !.cur = job[t].root,
                           !.restore = FALSE, !.from = None].root = job[t].root
        BY <2>2 DEF Job
      <4>3. QED
        BY <1>a, <3>2, <4>1, <4>2
    <3>3. QED
      BY <1>9, <3>1, <3>2 DEF Send
  <2>5. chan' \in Seq(Message) /\ ChanInv'
    <3>1. CASE chan' = Post(chan, Msg("switched", job[t].gen, job[t].root, None, ~job[t].failed))
      <4> DEFINE m == Msg("switched", job[t].gen, job[t].root, None, ~job[t].failed)
      <4>1. m \in Message /\ m.kind = "switched" /\ m.label \in Cluster
        BY <2>2 DEF Job, Message, Msg, MessageKind
      <4>2. QED
        BY <3>1, <4>1, PostTyped DEF IInv, TypeOK, ChanInv
    <3>2. CASE /\ job[t].kind \in Reader
               /\ chan' = PostRestore(Post(chan, Msg(job[t].kind, job[t].seq, job[t].cur, job[t].from,
                                                     job[t].from # None)), job[t])
      <4> DEFINE m == Msg(job[t].kind, job[t].seq, job[t].cur, job[t].from, job[t].from # None)
      <4>1. m \in Message /\ m.kind \notin {"clusters", "switched"}
        BY <2>2, <3>2 DEF Job, Message, Msg, MessageKind, Reader
      <4>2. Post(chan, m) \in Seq(Message) /\ Carries(Post(chan, m))
        BY <4>1, PostTyped DEF IInv, TypeOK, ChanInv
      <4>3. QED
        BY <2>2, <3>2, <4>2, RestoreTyped DEF ChanInv
    <3>3. CASE UNCHANGED chan
      BY <3>3 DEF IInv, TypeOK, ChanInv
    <3>4. QED
      BY <1>9, <3>1, <3>2, <3>3 DEF Send
  <2>6. TypeOK'
    BY <1>9, <2>3, <2>4, <2>5 DEF IInv, TypeOK, Send, RestUnchanged, view, session, hand
  <2>7. LockInv'
    BY <1>9, <2>3, <1>a DEF IInv, LockInv, Send, Locked
  <2>8. RootInv'
    BY <1>9, <2>3, <2>4, <1>a DEF IInv, RootInv, ThreadRoots, HandInv, Send, RestUnchanged, Locked, session, hand
  <2>9. ViewInv' /\ DiskInv'
    BY <1>9, <2>3, <1>a DEF IInv, LockInv, ViewInv, DiskInv, Send, RestUnchanged, view, Locked
  <2>10. QED
    BY <2>5, <2>6, <2>7, <2>8, <2>9 DEF IInv
<1>10. CASE Refresh(t)
  <2>1. NoJob \in Job /\ job[t] \in Job
    BY <1>a, WorkType DEF NoJob, Kind
  <2>2. /\ pc' \in [Thread -> PC] /\ pc'[t] \notin Locked \cup {"waiting", "sending"}
        /\ \A u \in Thread \ {t} : pc'[u] = pc[u]
    <3>1. CASE UNCHANGED pc \/ Finish(t)
      BY <1>10, <1>a, <3>1 DEF Refresh, Finish, Goto, PC, Locked
    <3>2. CASE Goto(t, AfterRead[pc[t]]) /\ pc[t] \in {"status", "clusters"}
      <4>1. AfterRead[pc[t]] \in {"clusters", "probing"}
        BY <3>2 DEF AfterRead
      <4>2. QED
        BY <1>a, <3>2, <4>1 DEF Goto, PC, Locked
    <3>3. QED
      BY <1>10, <3>1, <3>2 DEF Refresh
  <2>3. job' \in [Thread -> Job] /\ \A u \in Thread \ {t} : job'[u] = job[u]
    <3>1. CASE Finish(t)
      BY <1>a, <2>1, <3>1 DEF Finish
    <3>2. CASE \E c \in Cluster \cup {None} : job' = [job EXCEPT ![t].from = c]
      <4>1. PICK c \in Cluster \cup {None} : job' = [job EXCEPT ![t].from = c]
        BY <3>2
      <4>2. KeepsRoots(job, job', t)
        BY <1>a, <4>1, JobFrom
      <4>3. QED
        BY <4>2 DEF KeepsRoots
    <3>3. QED
      BY <1>10, <1>a, <3>1, <3>2 DEF Refresh
  <2>4. chan' \in Seq(Message) /\ ChanInv'
    <3>1. CASE UNCHANGED chan
      BY <3>1 DEF IInv, TypeOK, ChanInv
    <3>2. CASE job[t].from # None /\ pc[t] = "probing"
      <4>1. PICK ok \in BOOLEAN :
               chan' = PostRestore(Post(chan, Msg("probe", job[t].gen, None, job[t].from, ok)), job[t])
        BY <1>10, <3>2 DEF Refresh, ProbeAnswers
      <4> DEFINE m == Msg("probe", job[t].gen, None, job[t].from, ok)
      <4>2. m \in Message /\ m.kind \notin {"clusters", "switched"}
        BY <2>1 DEF Job, Message, Msg, MessageKind, Reader
      <4>3. Post(chan, m) \in Seq(Message) /\ Carries(Post(chan, m))
        BY <4>2, PostTyped DEF IInv, TypeOK, ChanInv
      <4>4. QED
        BY <2>1, <4>1, <4>3, RestoreTyped DEF ChanInv
    <3>3. CASE job[t].from # None /\ pc[t] # "probing"
      <4> DEFINE m == Msg(pc[t], job[t].gen, None, job[t].from, TRUE)
      <4>1. m \in Message /\ m.kind # "switched" /\ m.from \in Cluster
        BY <1>10, <2>1, <3>3 DEF Refresh, Job, Message, Msg, MessageKind, Reader
      <4>2. chan' = Post(chan, m)
        BY <1>10, <3>3 DEF Refresh
      <4>3. QED
        BY <4>1, <4>2, PostTyped DEF IInv, TypeOK, ChanInv
    <3>4. QED
      BY <1>10, <3>1, <3>2, <3>3 DEF Refresh
  <2>5. TypeOK'
    BY <1>10, <2>2, <2>3, <2>4 DEF IInv, TypeOK, Refresh, RestUnchanged, view, session, hand
  <2>6. LockInv'
    BY <1>10, <2>2, <1>a DEF IInv, LockInv, Refresh, Locked
  <2>7. RootInv'
    BY <1>10, <2>2, <2>3, <1>a DEF IInv, RootInv, ThreadRoots, HandInv, Refresh, RestUnchanged, Locked, session, hand
  <2>8. ViewInv' /\ DiskInv'
    BY <1>10, <2>2, <1>a DEF IInv, LockInv, ViewInv, DiskInv, Refresh, RestUnchanged, view, Locked
  <2>9. QED
    BY <2>4, <2>5, <2>6, <2>7, <2>8 DEF IInv
<1>11. QED
  BY <1>1, <1>2, <1>3, <1>4, <1>5, <1>6, <1>7, <1>8, <1>9, <1>10 DEF ThreadStep

-----------------------------------------------------------------------------
(* The UI thread.                                                          *)

\* What a handler may do to the threads: start idle ones, on a known root.
Dispatches ==
    /\ pc' \in [Thread -> PC] /\ job' \in [Thread -> Job]
    /\ \A u \in Thread :
          \/ pc'[u] = pc[u] /\ job'[u] = job[u]
          \/ pc[u] = "idle" /\ pc'[u] = "status"
          \/ pc[u] = "idle" /\ pc'[u] = "waiting" /\ job'[u].root \in Roots

LEMMA SpawnDispatches ==
    ASSUME TypeOK, NEW t \in Thread, NEW at \in {"waiting", "status"}, NEW j \in Job,
           at = "waiting" => j.root \in Roots,
           Spawn(t, at, j)
    PROVE  Dispatches
<1>1. at \in PC
  BY DEF PC
<1>2. QED
  BY <1>1 DEF TypeOK, Spawn, Dispatches

LEMMA NoDispatch == ASSUME TypeOK, UNCHANGED threads PROVE Dispatches
  BY DEF TypeOK, Dispatches, threads

LEMMA DispatchKeeps ==
    ASSUME IInv, Dispatches, UNCHANGED lock
    PROVE  /\ LockInv' /\ ThreadRoots'
           /\ UNCHANGED <<disk, strandedBy>> => DiskInv'
<1>1. \A u \in Thread : pc[u] = "idle" => pc[u] \notin Locked
  BY DEF Locked
<1>2. \A u \in Thread : pc'[u] # pc[u] => pc'[u] \notin Locked
  BY DEF Dispatches, Locked
<1>3. LockInv'
  BY <1>1, <1>2 DEF IInv, LockInv, Dispatches
<1>4. ThreadRoots'
  BY DEF IInv, RootInv, ThreadRoots, Dispatches, Locked
<1>5. ASSUME UNCHANGED <<disk, strandedBy>> PROVE DiskInv'
  BY <1>1, <1>5 DEF IInv, LockInv, DiskInv, Dispatches, Locked
<1>6. QED
  BY <1>3, <1>4, <1>5

LEMMA ReloadDispatches ==
    ASSUME IInv, NEW t \in Thread, NEW sel \in Cluster \cup {None},
           NEW isAdmin \in BOOLEAN, NEW isAgg \in BOOLEAN, isAgg => sel # None,
           ReloadActive(t, sel, isAdmin, isAgg)
    PROVE  Dispatches /\ tabReq' \in Nat
<1>1. TypeOK /\ profileGen \in Nat /\ tabReq \in Nat
  BY DEF IInv, TypeOK
<1>2. CASE UNCHANGED threads /\ tabReq' \in {tabReq, tabReq + 1}
  BY <1>1, <1>2, NoDispatch
<1>3. CASE sel # None /\ AdminStream(t, sel.proxy)
  <2>1. CASE UNCHANGED threads
    BY <1>1, <1>3, <2>1, NoDispatch DEF AdminStream
  <2>2. CASE \E missing \in SUBSET ClustersOf(sel.proxy) \ {{}} :
               Spawn(t, "waiting", Work("stream", profileGen, 0, RootOf(sel.proxy), missing))
    <3>1. PICK missing \in SUBSET Cluster :
            Spawn(t, "waiting", Work("stream", profileGen, 0, RootOf(sel.proxy), missing))
      BY <2>2 DEF ClustersOf
    <3>2. RootOf(sel.proxy) \in Roots /\ RootOf(sel.proxy) \in Cluster
      BY <1>3, RootsAreClusters DEF Roots, Cluster
    <3> DEFINE j == Work("stream", profileGen, 0, RootOf(sel.proxy), missing)
    <3>3. j \in Job /\ j.root \in Roots
      BY <1>1, <3>2, WorkType DEF Kind, Reader, Work
    <3>4. QED
      BY <1>1, <1>3, <3>1, <3>3, SpawnDispatches DEF AdminStream
  <2>3. QED
    BY <1>3, <2>1, <2>2 DEF AdminStream
<1>4. CASE sel # None /\ AdminScoped(t, sel)
  <2>1. CASE genProfile = profileGen
    <3>1. RootOf(sel.proxy) \in Roots /\ RootOf(sel.proxy) \in Cluster /\ sel \in Cluster
      BY <1>4, RootsAreClusters DEF Roots, Cluster
    <3> DEFINE j == Work("scoped", profileGen, tabReq + 1, RootOf(sel.proxy), {sel})
    <3>2. j \in Job /\ j.root \in Roots
      BY <1>1, <3>1, WorkType DEF Kind, Reader, Work
    <3>3. QED
      BY <1>1, <1>4, <2>1, <3>2, SpawnDispatches DEF AdminScoped
  <2>2. CASE genProfile # profileGen
    BY <1>1, <1>4, <2>2, NoDispatch DEF AdminScoped
  <2>3. QED
    BY <2>1, <2>2
<1>5. QED
  BY <1>1, <1>2, <1>3, <1>4 DEF ReloadActive

LEMMA PrefetchTyped ==
    ASSUME TypeOK, NEW sel \in Cluster, NEW isAgg \in BOOLEAN, PrefetchAll(sel, isAgg, {})
    PROVE  prefetchSeq' \in Nat /\ prefetchCluster' \in Cluster \cup {None} /\ reads' \subseteq Read
<1>1. CASE isAgg
  BY <1>1 DEF TypeOK, PrefetchAll
<1>2. CASE ~isAgg
  <2> DEFINE seq == IF prefetchCluster # sel THEN prefetchSeq + 1 ELSE prefetchSeq
             warm == [kind |-> "prefetch", seq |-> seq, label |-> RootOf(sel.proxy), from |-> None]
  <2>1. seq \in Nat /\ RootOf(sel.proxy) \in Cluster
    BY RootsAreClusters DEF TypeOK, Cluster
  <2>2. warm \in Read
    BY <2>1 DEF Read
  <2>3. reads' \subseteq reads \cup {warm}
    BY <1>2 DEF PrefetchAll
  <2>4. QED
    BY <1>2, <2>1, <2>2, <2>3 DEF TypeOK, PrefetchAll
<1>3. QED
  BY <1>1, <1>2

LEMMA EnterTyped ==
    ASSUME TypeOK, NEW g \in Nat, NEW more \in SUBSET Read, EnterProfile(g, more)
    PROVE  /\ profileGen' \in Nat /\ genProfile' \in Nat /\ tabReq' \in Nat
           /\ prefetchSeq' \in Nat /\ reads' \subseteq Read
           /\ adminAllowed' \in BOOLEAN /\ adminProbed' \in BOOLEAN
           /\ adminTab' \in BOOLEAN /\ agg' = FALSE
           /\ selected' = None /\ prefetchCluster' = None /\ pendingRestore' = None
           /\ profile' = profile
<1>1. profileGen' \in Nat /\ genProfile' \in Nat /\ tabReq' \in Nat /\ prefetchSeq' \in Nat
  BY DEF TypeOK, EnterProfile
<1>2. reads' \subseteq Read
  BY DEF TypeOK, EnterProfile
<1>3. adminAllowed' = FALSE /\ adminProbed' = FALSE /\ adminTab' = FALSE /\ agg' = FALSE
  BY DEF EnterProfile
<1>4. selected' = None /\ prefetchCluster' = None /\ pendingRestore' = None /\ profile' = profile
  BY DEF EnterProfile
<1>5. QED
  BY <1>1, <1>2, <1>3, <1>4

LEMMA UserIInv == ASSUME IInv, User PROVE IInv'
<1>1. TypeOK /\ acts \in 0 .. MaxActs /\ profileGen \in Nat /\ tabReq \in Nat
  BY DEF IInv, TypeOK
<1>2. UserActs => acts' \in 0 .. MaxActs /\ terminal = "ui"
  BY <1>1 DEF UserActs
<1>3. ASSUME NEW t \in Thread, NEW isAdmin \in BOOLEAN, ShowTab(t, isAdmin) PROVE IInv'
  <2>1. Dispatches /\ tabReq' \in Nat
    <3>1. CASE ReloadActive(t, selected, isAdmin, agg)
      BY <1>1, <3>1, ReloadDispatches DEF IInv, ViewInv, TypeOK
    <3>2. CASE UNCHANGED <<tabReq, threads>>
      BY <1>1, <3>2, NoDispatch
    <3>3. QED
      BY <1>3, <3>1, <3>2 DEF ShowTab
  <2>2. TypeOK'
    BY <1>1, <1>2, <1>3, <2>1 DEF TypeOK, ShowTab, session, hand, history, Dispatches
  <2>3. LockInv' /\ ThreadRoots' /\ DiskInv'
    BY <1>3, <2>1, DispatchKeeps DEF ShowTab, history
  <2>4. HandInv' /\ ChanInv' /\ ViewInv'
    BY <1>3 DEF IInv, RootInv, HandInv, ChanInv, Carries, ViewInv, ShowTab, session, hand
  <2>5. QED
    BY <2>2, <2>3, <2>4 DEF IInv, RootInv
<1>4. ASSUME NEW t \in Thread, ShowAllClusters(t) PROVE IInv'
  <2>1. Dispatches /\ tabReq' \in Nat
    <3>1. selected \in Cluster \cup {None} /\ selected # None /\ adminTab \in BOOLEAN /\ TRUE \in BOOLEAN
      BY <1>1, <1>4 DEF TypeOK, ShowAllClusters
    <3>2. ReloadActive(t, selected, adminTab, TRUE)
      BY <1>4 DEF ShowAllClusters
    <3>3. QED
      BY <3>1, <3>2, ReloadDispatches, Zenon
  <2>2. TypeOK'
    BY <1>1, <1>2, <1>4, <2>1 DEF TypeOK, ShowAllClusters, session, hand, history, Dispatches
  <2>3. LockInv' /\ ThreadRoots' /\ DiskInv'
    BY <1>4, <2>1, DispatchKeeps DEF ShowAllClusters, history
  <2>4. HandInv' /\ ChanInv' /\ ViewInv'
    BY <1>4 DEF IInv, RootInv, HandInv, ChanInv, Carries, ViewInv, ShowAllClusters, session, hand
  <2>5. QED
    BY <2>2, <2>3, <2>4 DEF IInv, RootInv
<1>5. ASSUME NEW t \in Thread, NEW c \in Cluster, SelectScopedCluster(t, c) PROVE IInv'
  <2>1. Dispatches /\ tabReq' \in Nat
    <3>1. c \in Cluster \cup {None} /\ adminTab \in BOOLEAN /\ FALSE \in BOOLEAN /\ (FALSE => c # None)
      BY <1>1 DEF TypeOK
    <3>2. ReloadActive(t, c, adminTab, FALSE)
      BY <1>5 DEF SelectScopedCluster
    <3>3. QED
      BY <3>1, <3>2, ReloadDispatches, Zenon
  <2>2. prefetchSeq' \in Nat /\ prefetchCluster' \in Cluster \cup {None} /\ reads' \subseteq Read
    BY <1>1, <1>5, PrefetchTyped DEF SelectScopedCluster
  <2>3. TypeOK'
    <3>1. selected' \in Cluster /\ agg' \in BOOLEAN
      BY <1>5 DEF SelectScopedCluster
    <3>2. UNCHANGED <<disk, lock, genProfile, chan, profile, adminAllowed, adminProbed, adminTab,
                      session, hand, history>>
      BY <1>5 DEF SelectScopedCluster
    <3>3. acts' \in 0 .. MaxActs
      BY <1>2, <1>5 DEF SelectScopedCluster
    <3>4. QED
      BY <1>1, <2>1, <2>2, <3>1, <3>2, <3>3 DEF TypeOK, session, hand, history, Dispatches
  <2>4. LockInv' /\ ThreadRoots' /\ DiskInv'
    BY <1>5, <2>1, DispatchKeeps DEF SelectScopedCluster, history
  <2>5. HandInv' /\ ChanInv' /\ ViewInv'
    BY <1>5 DEF IInv, RootInv, HandInv, ChanInv, Carries, ViewInv, SelectScopedCluster, session, hand
  <2>6. QED
    BY <2>3, <2>4, <2>5 DEF IInv, RootInv
<1>6. ASSUME NEW t \in Thread, NEW p \in Proxy, SwitchProfile(t, p) PROVE IInv'
  <2> DEFINE j == Work("switch", profileGen + 1, 0, RootOf(p), {})
  <2>1. j \in Job /\ j.root \in Roots
    <3>1. "switch" \in Kind /\ profileGen + 1 \in Nat /\ 0 \in Nat /\ {} \in SUBSET Cluster
      BY <1>1 DEF Kind
    <3>2. RootOf(p) \in Cluster \cup {None} /\ RootOf(p) \in Roots
      BY RootsAreClusters DEF Roots
    <3>3. j \in Job
      BY <3>1, <3>2, WorkType
    <3>4. QED
      BY <3>2, <3>3 DEF Work
  <2>2. Dispatches
    BY <1>1, <1>6, <2>1, SpawnDispatches DEF SwitchProfile
  <2>3. TypeOK'
    BY <1>1, <1>2, <1>6, <2>2 DEF TypeOK, SwitchProfile, shared, view, hand, history, Dispatches
  <2>4. LockInv' /\ ThreadRoots' /\ DiskInv'
    BY <1>6, <2>2, DispatchKeeps DEF SwitchProfile, shared, history
  <2>5. HandInv' /\ ChanInv' /\ ViewInv'
    BY <1>6 DEF IInv, RootInv, HandInv, ChanInv, Carries, ViewInv, SwitchProfile, shared, view, hand
  <2>6. QED
    BY <2>3, <2>4, <2>5 DEF IInv, RootInv
<1>7. CASE RetryClusters
  <2>1. reads' \subseteq Read
    BY <1>1, <1>7, AuxType DEF TypeOK, RetryClusters
  <2>2. Dispatches
    BY <1>1, <1>7, NoDispatch DEF RetryClusters
  <2>3. TypeOK'
    BY <1>1, <1>2, <1>7, <2>1 DEF TypeOK, RetryClusters, threads, view, session, hand, history
  <2>4. LockInv' /\ ThreadRoots' /\ DiskInv'
    BY <1>7, <2>2, DispatchKeeps DEF RetryClusters, history
  <2>5. HandInv' /\ ChanInv' /\ ViewInv'
    BY <1>7 DEF IInv, RootInv, HandInv, ChanInv, Carries, ViewInv, RetryClusters, view, session, hand
  <2>6. QED
    BY <2>3, <2>4, <2>5 DEF IInv, RootInv
<1>8. ASSUME NEW p \in Proxy, ProfileLogin(p) PROVE IInv'
  <2>1. EnterProfile(profileGen + 1, {}) /\ profileGen + 1 \in Nat /\ {} \in SUBSET Read
    BY <1>1, <1>8 DEF ProfileLogin
  <2>2. Dispatches
    BY <1>1, <1>8, NoDispatch DEF ProfileLogin
  <2>3. terminal' = "profile" /\ login' \in Cluster
    BY <1>8, RootsAreClusters DEF ProfileLogin
  <2>4. TypeOK'
    <3>1. profileGen' \in Nat /\ genProfile' \in Nat /\ tabReq' \in Nat /\ prefetchSeq' \in Nat
          /\ reads' \subseteq Read
      BY <1>1, <2>1, EnterTyped
    <3>2. /\ adminAllowed' \in BOOLEAN /\ adminProbed' \in BOOLEAN /\ adminTab' \in BOOLEAN /\ agg' = FALSE
          /\ selected' = None /\ prefetchCluster' = None /\ pendingRestore' = None /\ profile' = profile
      BY <1>1, <2>1, EnterTyped
    <3>3. QED
      BY <1>1, <1>2, <1>8, <2>3, <3>1, <3>2 DEF TypeOK, ProfileLogin, threads, history
  <2>5. LockInv' /\ ThreadRoots' /\ DiskInv'
    BY <1>8, <2>2, DispatchKeeps DEF ProfileLogin, history
  <2>6. HandInv' /\ ChanInv' /\ ViewInv'
    BY <1>1, <1>8, <2>1, <2>3, EnterTyped DEF IInv, HandInv, ChanInv, Carries, ViewInv, ProfileLogin
  <2>7. QED
    BY <2>4, <2>5, <2>6 DEF IInv, RootInv
<1>9. ASSUME NEW p \in Proxy, FormLogin(p) PROVE IInv'
  <2>1. Dispatches
    BY <1>1, <1>9, NoDispatch DEF FormLogin
  <2>2. terminal' = "form" /\ login' \in Cluster
    BY <1>9, RootsAreClusters DEF FormLogin
  <2>3. TypeOK'
    BY <1>1, <1>2, <1>9, <2>2 DEF TypeOK, FormLogin, shared, threads, view, session, history
  <2>4. LockInv' /\ ThreadRoots' /\ DiskInv'
    BY <1>9, <2>1, DispatchKeeps DEF FormLogin, shared, history
  <2>5. HandInv' /\ ChanInv' /\ ViewInv'
    BY <1>9, <2>2 DEF IInv, RootInv, HandInv, ChanInv, Carries, ViewInv, FormLogin, shared, view, session
  <2>6. QED
    BY <2>3, <2>4, <2>5 DEF IInv, RootInv
<1>10. ASSUME NEW c \in Cluster, LeafLogin(c) PROVE IInv'
  <2>1. Dispatches
    BY <1>1, <1>10, NoDispatch DEF LeafLogin
  <2>2. terminal' = "form" /\ login' \in Cluster
    BY <1>10 DEF LeafLogin
  <2>3. pendingRestore' \in Roots /\ pendingRestore' \in Cluster
    <3>1. selected \in Cluster
      BY <1>1, <1>10 DEF TypeOK, LeafLogin
    <3>2. selected.proxy \in Proxy
      BY <3>1 DEF Cluster
    <3>3. QED
      BY <1>10, <3>2, RootsAreClusters DEF LeafLogin, Roots
  <2>4. TypeOK'
    BY <1>1, <1>2, <1>10, <2>2, <2>3 DEF TypeOK, LeafLogin, shared, threads, view, history
  <2>5. LockInv' /\ ThreadRoots' /\ DiskInv'
    BY <1>10, <2>1, DispatchKeeps DEF LeafLogin, shared, history
  <2>6. HandInv' /\ ChanInv' /\ ViewInv'
    BY <1>10, <2>2, <2>3 DEF IInv, HandInv, ChanInv, Carries, ViewInv, LeafLogin, shared, view
  <2>7. QED
    BY <2>4, <2>5, <2>6 DEF IInv, RootInv
<1>11. QED
  BY <1>3, <1>4, <1>5, <1>6, <1>7, <1>8, <1>9, <1>10 DEF User

LEMMA ChannelHead ==
    ASSUME NEW q \in Seq(Message), q # <<>>, Carries(q)
    PROVE  /\ Head(q) \in Message /\ Tail(q) \in Seq(Message) /\ Carries(Tail(q))
           /\ Head(q).kind = "clusters" => Head(q).from \in Cluster
           /\ Head(q).kind = "switched" => Head(q).label \in Cluster
<1>1. Len(q) \in Nat /\ Len(q) > 0 /\ Head(q) = q[1] /\ q[1] \in Message
  OBVIOUS
<1>2. Tail(q) \in Seq(Message) /\ Len(Tail(q)) = Len(q) - 1
  OBVIOUS
<1>3. \A i \in 1 .. Len(Tail(q)) : Tail(q)[i] = q[i + 1] /\ i + 1 \in 1 .. Len(q)
  BY <1>2
<1>4. Carries(Tail(q))
  BY <1>3 DEF Carries
<1>5. QED
  BY <1>1, <1>2, <1>4 DEF Carries

\* The result the UI applies, and the types of what it changes.
LEMMA ApplyIInv == ASSUME IInv, NEW t \in Thread, Apply(t) PROVE IInv'
<1> DEFINE m == Head(chan)
<1>1. TypeOK /\ profileGen \in Nat /\ Carries(chan) /\ chan # <<>>
  BY DEF IInv, TypeOK, ChanInv, Apply
<1>2. /\ m \in Message /\ chan' \in Seq(Message) /\ ChanInv'
      /\ m.kind = "clusters" => m.from \in Cluster
      /\ m.kind = "switched" => m.label \in Cluster
  BY <1>1, ChannelHead DEF Apply, TypeOK, ChanInv
<1>3. m.seq \in Nat /\ m.from \in Cluster \cup {None} /\ m.ok \in BOOLEAN
  BY <1>2 DEF Message
<1>4. CASE m.kind = "clusters" /\ ApplyClusters(t, m)
  <2>1. m.from \in Cluster /\ m.from # None
    BY <1>2, <1>4 DEF Cluster
  <2>2. Dispatches /\ tabReq' \in Nat
    <3>1. adminTab \in BOOLEAN /\ agg \in BOOLEAN /\ m.from \in Cluster \cup {None}
      BY <1>1, <2>1 DEF TypeOK
    <3>2. ReloadActive(t, m.from, adminTab, agg)
      BY <1>4 DEF ApplyClusters
    <3>3. QED
      BY <2>1, <3>1, <3>2, ReloadDispatches, Zenon
  <2>3. prefetchSeq' \in Nat /\ prefetchCluster' \in Cluster \cup {None} /\ reads' \subseteq Read
    <3>1. agg \in BOOLEAN
      BY <1>1 DEF TypeOK
    <3>2. PrefetchAll(m.from, agg, {})
      BY <1>4 DEF ApplyClusters
    <3>3. QED
      BY <1>1, <2>1, <3>1, <3>2, PrefetchTyped, Zenon
  <2>4. selected' \in Cluster
    BY <1>4, <2>1 DEF ApplyClusters
  <2>5. UNCHANGED <<disk, lock, genProfile, profile, adminAllowed, adminProbed, adminTab, agg,
                    session, hand, history, acts>>
    BY <1>4 DEF ApplyClusters, Apply
  <2>6. TypeOK'
    BY <1>1, <1>2, <2>2, <2>3, <2>4, <2>5 DEF TypeOK, session, hand, history, Dispatches
  <2>7. LockInv' /\ ThreadRoots' /\ DiskInv'
    BY <2>2, <2>5, DispatchKeeps DEF history
  <2>8. HandInv' /\ ViewInv'
    BY <2>4, <2>5 DEF IInv, RootInv, HandInv, ViewInv, session, hand, Cluster
  <2>9. QED
    BY <1>2, <2>6, <2>7, <2>8 DEF IInv, RootInv
<1>5. CASE m.kind = "status" /\ ApplyStatus(m)
  <2>1. Dispatches
    BY <1>1, <1>5, NoDispatch DEF ApplyStatus
  <2>2. UNCHANGED <<disk, lock, genProfile, tabReq, prefetchSeq, reads, threads, selected,
                    adminAllowed, adminProbed, adminTab, agg, prefetchCluster, session, hand,
                    history, acts>>
    BY <1>5 DEF ApplyStatus, Apply
  <2>3. profile' \in Cluster \cup {None}
    BY <1>3, <1>5 DEF ApplyStatus
  <2>4. TypeOK'
    BY <1>1, <1>2, <2>2, <2>3 DEF TypeOK, threads, session, hand, history
  <2>5. LockInv' /\ ThreadRoots' /\ DiskInv'
    BY <2>1, <2>2, DispatchKeeps DEF history
  <2>6. HandInv' /\ ViewInv'
    BY <2>2 DEF IInv, RootInv, HandInv, ViewInv, session, hand
  <2>7. QED
    BY <1>2, <2>4, <2>5, <2>6 DEF IInv, RootInv
<1>6. CASE m.kind = "probe" /\ ApplyProbe(t, m)
  <2>1. /\ Dispatches /\ tabReq' \in Nat /\ adminTab' \in BOOLEAN
    <3>1. CASE adminTab' = FALSE /\ ReloadActive(t, selected, FALSE, agg)
      <4>1. selected \in Cluster \cup {None} /\ agg \in BOOLEAN /\ FALSE \in BOOLEAN /\ (agg => selected # None)
        BY <1>1 DEF TypeOK, IInv, ViewInv
      <4>2. Dispatches /\ tabReq' \in Nat
        BY <3>1, <4>1, ReloadDispatches, Zenon
      <4>3. QED
        BY <3>1, <4>2
    <3>2. CASE adminTab' \in BOOLEAN /\ UNCHANGED <<tabReq, threads>>
      BY <1>1, <3>2, NoDispatch DEF TypeOK
    <3>3. CASE UNCHANGED <<adminTab, tabReq, threads>>
      BY <1>1, <3>3, NoDispatch DEF TypeOK
    <3>4. QED
      BY <1>6, <3>1, <3>2, <3>3 DEF ApplyProbe
  <2>2. UNCHANGED <<disk, lock, genProfile, prefetchSeq, reads, selected, profile, agg,
                    prefetchCluster, session, hand, raced, foreign, strandedBy, acts>>
    BY <1>6 DEF ApplyProbe, Apply
  <2>3. adminAllowed' \in BOOLEAN /\ adminProbed' \in BOOLEAN
    BY <1>3, <1>6 DEF ApplyProbe
  <2>4. TypeOK'
    BY <1>1, <1>2, <2>1, <2>2, <2>3 DEF TypeOK, session, hand, Dispatches
  <2>5. LockInv' /\ ThreadRoots' /\ DiskInv'
    BY <2>1, <2>2, DispatchKeeps
  <2>6. HandInv' /\ ViewInv'
    BY <2>2 DEF IInv, RootInv, HandInv, ViewInv, session, hand
  <2>7. QED
    BY <1>2, <2>4, <2>5, <2>6 DEF IInv, RootInv
<1>7. CASE m.kind = "switched" /\ ApplySwitched(m)
  <2>1. Dispatches
    BY <1>1, <1>7, NoDispatch DEF ApplySwitched
  <2>2. UNCHANGED <<disk, lock, threads, history, acts>> /\ switching' = None
    BY <1>7 DEF ApplySwitched, Apply
  <2>3. LockInv' /\ ThreadRoots' /\ DiskInv'
    BY <2>1, <2>2, DispatchKeeps DEF history
  <2>4. ASSUME NEW g \in Nat, NEW more \in SUBSET Read, EnterProfile(g, more),
               terminal' \in {"ui", "deferred", "profile", "form", "returned"},
               login' \in Cluster \cup {None},
               terminal' \in {"deferred", "profile", "form"} => login' \in Cluster
        PROVE  IInv'
    <3>1. /\ profileGen' \in Nat /\ genProfile' \in Nat /\ tabReq' \in Nat
          /\ prefetchSeq' \in Nat /\ reads' \subseteq Read
          /\ adminAllowed' \in BOOLEAN /\ adminProbed' \in BOOLEAN
          /\ adminTab' \in BOOLEAN /\ agg' = FALSE
          /\ selected' = None /\ prefetchCluster' = None /\ pendingRestore' = None
          /\ profile' = profile
      BY <1>1, <2>4, EnterTyped, Zenon
    <3>2. TypeOK'
      BY <1>1, <1>2, <2>2, <2>4, <3>1 DEF TypeOK, threads, history
    <3>3. HandInv' /\ ViewInv'
      BY <2>4, <3>1 DEF HandInv, ViewInv
    <3>4. QED
      BY <1>2, <2>3, <3>2, <3>3 DEF IInv, RootInv
  <2>5. CASE EnterProfile(m.seq, Aux({"status", "clusters", "probe"}, m.seq)) /\ UNCHANGED hand
    <3>1. Aux({"status", "clusters", "probe"}, m.seq) \in SUBSET Read
      BY <1>3, AuxType
    <3>2. /\ terminal' \in {"ui", "deferred", "profile", "form", "returned"}
          /\ login' \in Cluster \cup {None}
          /\ terminal' \in {"deferred", "profile", "form"} => login' \in Cluster
      BY <1>1, <2>5 DEF IInv, RootInv, HandInv, TypeOK, hand
    <3>3. QED
      BY <1>3, <2>4, <2>5, <3>1, <3>2
  <2>6. CASE EnterProfile(profileGen + 1, {}) /\ terminal' = "deferred" /\ login' = m.label
    <3>1. profileGen + 1 \in Nat /\ {} \in SUBSET Read
      BY <1>1
    <3>2. /\ terminal' \in {"ui", "deferred", "profile", "form", "returned"}
          /\ login' \in Cluster \cup {None}
          /\ terminal' \in {"deferred", "profile", "form"} => login' \in Cluster
      BY <1>2, <1>7, <2>6
    <3>3. QED
      BY <2>4, <2>6, <3>1, <3>2
  <2>7. CASE UNCHANGED <<genProfile, tabReq, prefetchSeq, reads, view, profileGen,
                         pendingRestore, hand>>
    <3>1. TypeOK'
      BY <1>1, <1>2, <2>2, <2>7 DEF TypeOK, threads, view, hand, history
    <3>2. HandInv' /\ ViewInv'
      BY <2>7 DEF IInv, RootInv, HandInv, ViewInv, view, hand
    <3>3. QED
      BY <1>2, <2>3, <3>1, <3>2 DEF IInv, RootInv
  <2>8. QED
    BY <1>7, <2>5, <2>6, <2>7 DEF ApplySwitched
<1>8. CASE m.kind = "prefetch" /\ ApplyPrefetch(m)
  <2>1. Dispatches
    BY <1>1, <1>8, NoDispatch DEF ApplyPrefetch
  <2>2. UNCHANGED <<disk, lock, genProfile, tabReq, prefetchSeq, reads, threads, selected, profile,
                    adminTab, agg, prefetchCluster, session, hand, history, acts>>
    BY <1>8 DEF ApplyPrefetch, Apply
  <2>3. adminAllowed' \in BOOLEAN /\ adminProbed' \in BOOLEAN
    BY <1>1, <1>8 DEF ApplyPrefetch, TypeOK
  <2>4. TypeOK'
    BY <1>1, <1>2, <2>2, <2>3 DEF TypeOK, threads, session, hand, history
  <2>5. LockInv' /\ ThreadRoots' /\ DiskInv'
    BY <2>1, <2>2, DispatchKeeps DEF history
  <2>6. HandInv' /\ ViewInv'
    BY <2>2 DEF IInv, RootInv, HandInv, ViewInv, session, hand
  <2>7. QED
    BY <1>2, <2>4, <2>5, <2>6 DEF IInv, RootInv
<1>9. CASE UNCHANGED <<disk, lock, genProfile, tabReq, prefetchSeq, reads, threads, view,
                       session, hand, history>>
  <2>1. UNCHANGED acts /\ Dispatches
    BY <1>1, <1>9, NoDispatch DEF Apply
  <2>2. TypeOK'
    BY <1>1, <1>2, <1>9, <2>1 DEF TypeOK, threads, view, session, hand, history
  <2>3. LockInv' /\ ThreadRoots' /\ DiskInv'
    BY <1>9, <2>1, DispatchKeeps DEF history
  <2>4. HandInv' /\ ViewInv'
    BY <1>9 DEF IInv, RootInv, HandInv, ViewInv, view, session, hand
  <2>5. QED
    BY <1>2, <2>2, <2>3, <2>4 DEF IInv, RootInv
<1>10. QED
  BY <1>4, <1>5, <1>6, <1>7, <1>8, <1>9 DEF Apply

LEMMA TerminalIInv ==
    ASSUME IInv, TakeDeferred \/ LoginEnds \/ \E t \in Thread : AfterAction(t)
    PROVE  IInv'
<1>1. TypeOK
  BY DEF IInv
<1>2. CASE TakeDeferred
  <2>1. Dispatches
    BY <1>1, <1>2, NoDispatch DEF TakeDeferred
  <2>2. TypeOK'
    BY <1>1, <1>2 DEF TypeOK, TakeDeferred, shared, threads, view, session, history
  <2>3. LockInv' /\ ThreadRoots' /\ DiskInv'
    BY <1>2, <2>1, DispatchKeeps DEF TakeDeferred, shared, history
  <2>4. HandInv' /\ ChanInv' /\ ViewInv'
    BY <1>2 DEF IInv, RootInv, HandInv, ChanInv, Carries, ViewInv, TakeDeferred, shared, view, session
  <2>5. QED
    BY <2>2, <2>3, <2>4 DEF IInv, RootInv
<1>3. CASE LoginEnds
  <2>1. Dispatches /\ UNCHANGED lock
    BY <1>1, <1>3, NoDispatch DEF LoginEnds
  <2>2. /\ disk' \in Cluster /\ raced' \in BOOLEAN /\ foreign' \in BOOLEAN
        /\ strandedBy' \in {None, "restore", "login"} /\ DiskInv'
    <3>1. CASE UNCHANGED <<disk, raced, foreign, strandedBy>>
      BY <1>1, <2>1, <3>1, DispatchKeeps DEF TypeOK
    <3>2. CASE /\ disk' = login
               /\ raced' = (raced \/ lock # None)
               /\ foreign' = (foreign \/ (terminal = "form" /\ login.proxy # disk.proxy))
               /\ strandedBy' = IF login.name = Root THEN None ELSE "login"
      <4>1. login \in Cluster
        BY <1>3 DEF IInv, RootInv, HandInv, LoginEnds
      <4>2. raced' \in BOOLEAN /\ foreign' \in BOOLEAN
        BY <3>2
      <4>3. DiskInv'
        BY <3>2 DEF DiskInv
      <4>4. QED
        BY <3>2, <4>1, <4>2, <4>3
    <3>3. QED
      BY <1>3, <3>1, <3>2 DEF LoginEnds
  <2>3. TypeOK'
    BY <1>1, <1>3, <2>2 DEF TypeOK, LoginEnds, threads, view, session
  <2>4. LockInv' /\ ThreadRoots'
    BY <2>1, DispatchKeeps
  <2>5. HandInv' /\ ChanInv' /\ ViewInv'
    BY <1>3 DEF IInv, RootInv, HandInv, ChanInv, Carries, ViewInv, LoginEnds, view, session
  <2>6. QED
    BY <2>2, <2>3, <2>4, <2>5 DEF IInv, RootInv
<1>4. ASSUME NEW t \in Thread, AfterAction(t) PROVE IInv'
  <2> DEFINE root == IF pendingRestore = None THEN disk ELSE pendingRestore
             at == IF pendingRestore = None THEN "status" ELSE "waiting"
             w == Work("after", profileGen, 0, root, {})
             j == [w EXCEPT !.restore = pendingRestore # None]
  <2>1. at \in {"waiting", "status"} /\ (at = "waiting" => root \in Roots)
    BY DEF IInv, RootInv, HandInv
  <2>2. j \in Job /\ j.root = root
    <3>1. "after" \in Kind /\ profileGen \in Nat /\ 0 \in Nat /\ {} \in SUBSET Cluster
      BY <1>1 DEF Kind, TypeOK
    <3>2. root \in Cluster \cup {None}
      BY <1>1 DEF TypeOK
    <3>3. w \in Job /\ w.root = root
      BY <3>1, <3>2, WorkType DEF Work
    <3> HIDE DEF w, root
    <3>4. QED
      BY <3>3 DEF Job
  <2>3. Spawn(t, at, j)
    BY <1>4 DEF AfterAction
  <2> HIDE DEF j, at, root
  <2>4. Dispatches
    BY <1>1, <2>1, <2>2, <2>3, SpawnDispatches
  <2>5. TypeOK'
    BY <1>1, <1>4, <2>4 DEF TypeOK, AfterAction, Dispatches, shared, view, history
  <2>6. LockInv' /\ ThreadRoots' /\ DiskInv'
    BY <1>4, <2>4, DispatchKeeps DEF AfterAction, shared, history
  <2>7. HandInv' /\ ChanInv' /\ ViewInv'
    BY <1>4 DEF IInv, HandInv, ChanInv, Carries, ViewInv, AfterAction, shared, view
  <2>8. QED
    BY <2>5, <2>6, <2>7 DEF IInv, RootInv
<1>5. QED
  BY <1>2, <1>3, <1>4

LEMMA PoolIInv == ASSUME IInv, NEW r \in reads, PoolStep(r) PROVE IInv'
<1>1. TypeOK /\ r \in Read
  BY DEF IInv, TypeOK
<1>2. Dispatches
  BY <1>1, NoDispatch DEF PoolStep
<1>3. reads' \subseteq Read
  <2>1. [r EXCEPT !.from = disk] \in Read
    BY <1>1 DEF Read, TypeOK
  <2>2. reads' \subseteq reads \cup {[r EXCEPT !.from = disk]}
    BY DEF PoolStep, PoolRead, PoolSend
  <2>3. QED
    BY <1>1, <2>1, <2>2 DEF TypeOK
<1>4. chan' \in Seq(Message) /\ ChanInv'
  <2>1. CASE UNCHANGED chan
    BY <2>1 DEF IInv, TypeOK, ChanInv
  <2>2. CASE PoolSend(r)
    <3>1. PICK ok \in BOOLEAN : chan' = Post(chan, Msg(r.kind, r.seq, r.label, r.from, ok))
      BY <2>2 DEF PoolSend, ProbeAnswers
    <3> DEFINE m == Msg(r.kind, r.seq, r.label, r.from, ok)
    <3>2. m \in Message /\ m.kind # "switched" /\ m.from \in Cluster
      BY <1>1, <2>2 DEF PoolSend, Read, Message, MessageKind, Msg
    <3>3. QED
      BY <3>1, <3>2, PostTyped DEF IInv, TypeOK, ChanInv
  <2>3. QED
    BY <2>1, <2>2 DEF PoolStep, PoolRead
<1>5. TypeOK'
  BY <1>1, <1>3, <1>4 DEF TypeOK, PoolStep, threads, view, session, hand, history
<1>6. LockInv' /\ ThreadRoots' /\ DiskInv'
  BY <1>2, DispatchKeeps DEF PoolStep, history
<1>7. HandInv' /\ ViewInv'
  BY DEF IInv, RootInv, HandInv, ViewInv, PoolStep, view, session, hand
<1>8. QED
  BY <1>4, <1>5, <1>6, <1>7 DEF IInv, RootInv

LEMMA StutterIInv == ASSUME IInv, UNCHANGED vars PROVE IInv'
<1>1. TypeOK /\ Dispatches
  BY NoDispatch DEF IInv, vars
<1>2. TypeOK'
  BY <1>1 DEF TypeOK, vars, shared, threads, view, session, hand, history
<1>3. LockInv' /\ ThreadRoots' /\ DiskInv'
  BY <1>1, DispatchKeeps DEF vars, shared, history
<1>4. HandInv' /\ ChanInv' /\ ViewInv'
  BY DEF IInv, RootInv, HandInv, ChanInv, Carries, ViewInv, vars, shared, view, session, hand
<1>5. QED
  BY <1>2, <1>3, <1>4 DEF IInv, RootInv

-----------------------------------------------------------------------------
\* Every reachable state satisfies the inductive invariant.
THEOREM Invariance == Spec => []IInv
<1>1. Init => IInv
  BY InitIInv
<1>2. IInv /\ [Next]_vars => IInv'
  <2> SUFFICES ASSUME IInv, [Next]_vars PROVE IInv'
    OBVIOUS
  <2>1. CASE User
    BY <2>1, UserIInv
  <2>2. CASE UIStep
    BY <2>2, ApplyIInv, TerminalIInv DEF UIStep
  <2>3. CASE Pool
    BY <2>3, PoolIInv DEF Pool
  <2>4. CASE \E t \in Thread : ThreadStep(t)
    BY <2>4, ThreadIInv
  <2>5. CASE Quiet \/ UNCHANGED vars
    BY <2>5, StutterIInv DEF Quiet
  <2>6. QED
    BY <2>1, <2>2, <2>3, <2>4, <2>5 DEF Next
<1>3. QED
  BY <1>1, <1>2, PTL DEF Spec

\* Every variable keeps to its type: among others, the UI never dispatches from
\* a topology, and no thread restores a root, that is not a cluster.
THEOREM TypeCorrect == Spec => []TypeOK
<1>1. IInv => TypeOK
  BY DEF IInv
<1>2. QED
  BY <1>1, Invariance, PTL

\* profile_lock's promise: with the lock free the profile on disk is on a root
\* cluster, unless a restore failed or the user logged in to a leaf.
THEOREM LeafNeedsTheLock == Spec => []LeafOnlyUnderLock
<1>1. IInv => LeafOnlyUnderLock
  BY DEF IInv, DiskInv, LeafOnlyUnderLock
<1>2. QED
  BY <1>1, Invariance, PTL

\* At most one thread is between its acquisition and its release of the lock.
MutualExclusion ==
    \A t, u \in Thread : pc[t] \in Locked /\ pc[u] \in Locked => t = u

\* profile_lock is a mutual exclusion: no two threads move the profile at once.
THEOREM LockIsExclusive == Spec => []MutualExclusion
<1>1. IInv => MutualExclusion
  BY DEF IInv, LockInv, MutualExclusion
<1>2. QED
  BY <1>1, Invariance, PTL
=============================================================================
