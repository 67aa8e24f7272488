--------------------------- MODULE Session_proofs ---------------------------
(***************************************************************************)
(* Proofs about Session: what is kept and shown is of the profile and the   *)
(* cluster it is labelled with, the all-clusters view is complete, and the  *)
(* spinner is answered.                                                     *)
(*                                                                         *)
(* app is one record, changed by operators from App to App.  A first lemma  *)
(* for each operator says what it leaves alone and what it sets; the others *)
(* say which parts of the invariant it keeps, or establishes: ReloadActive  *)
(* is called with the view and the selection already changed, and is what   *)
(* makes the rest follow.                                                   *)
(***************************************************************************)
EXTENDS Session, FiniteSetTheorems, TLAPS

USE SessionAssumption

-----------------------------------------------------------------------------
(* The inductive invariant.                                                *)

\* A job in flight was numbered by its counter, and one that still carries the
\* latest number, or one the caches still take, was sent under this profile.
JobInv(a, j) ==
    /\ j.gen <= a.gen
    /\ j.kind = "tab" =>
          j.seq <= a.tabReq /\ (j.seq = a.tabReq => j.gen = a.gen)
    /\ j.kind = "prefetch" =>
          /\ j.seq <= a.prefetchSeq
          /\ j.seq = a.prefetchSeq =>
                j.gen = a.gen /\ (j.tab \in ScopedTab => j.cluster = a.prefetchCluster)
    /\ j.kind = "slice" =>
          /\ j.seq <= a.aggSeq /\ j.cluster \in Cluster
          /\ j.seq >= a.aggFloor => j.gen = a.gen
    /\ j.kind = "clusters" => j.seq <= a.gen

Numbers(a) ==
    /\ a.aggFloor <= a.aggSeq
    /\ \A j \in a.flight : JobInv(a, j)

\* The all-clusters view needs a topology; when it is left, its fan-out is.
Views(a) ==
    /\ a.aggOn => a.selected # None
    /\ ~a.aggOn => \A j \in a.flight : j.kind = "slice" => j.seq # a.aggSeq

\* No rows were read for an older profile.
Age(a) ==
    /\ \A t \in Tab : a.lists[t].is = "rows" => a.lists[t].gen >= a.gen
    /\ \A r \in a.rows : r.from.is = "rows" => r.from.gen >= a.gen
    /\ \A tc \in Tab \X Cluster :
          a.aggCache[tc] # None /\ a.aggCache[tc].is = "rows" => a.aggCache[tc].gen >= a.gen

Sound(a) == a \in App /\ Numbers(a) /\ Views(a) /\ Age(a)

\* A listing cached for a cluster has the rows of that cluster, if it has rows;
\* so have the slices of the all-clusters cache.
Labelled(a) ==
    /\ \A t \in ScopedTab : a.cacheKey[t] \in Cluster /\ a.lists[t].is = "rows" =>
          a.lists[t].cluster = a.cacheKey[t]
    /\ \A t \in ScopedTab, c \in Cluster :
          a.aggCache[<<t, c>>] # None /\ a.aggCache[<<t, c>>].is = "rows" =>
             a.aggCache[<<t, c>>].cluster = c

\* It has rows, unless a failed load has cleared another tab than its own.
Filled(a) == \A t \in ScopedTab : a.cacheKey[t] \in Cluster => a.lists[t].is = "rows"

\* The rows on screen in the all-clusters view.
RowsLabelled(a) ==
    a.aggOn /\ a.tab \in ScopedTab =>
        \A r \in a.rows : r.from.is = "rows" => r.from.cluster = r.cluster

\* What is under way for the selected cluster was asked of it.
TabHere(a) ==
    a.selected # None =>
        \A j \in a.flight :
            j.kind = "tab" /\ j.tab \in ScopedTab /\ j.seq = a.tabReq => j.cluster = a.selected
WarmHere(a) == a.selected # None => a.prefetchCluster = a.selected

SlicesOf(a) == {j \in a.flight : j.kind = "slice" /\ j.seq = a.aggSeq /\ j.tab = a.tab}

\* The clusters whose rows are on screen, and those a slice is awaited from.
Listed(a) == {r.cluster : r \in a.rows}
Awaited(a) == {j.cluster : j \in SlicesOf(a)}

Complete(a) ==
    a.aggOn =>
        /\ a.pending = Cardinality(SlicesOf(a))
        /\ Listed(a) \cap Awaited(a) = {}
        /\ Listed(a) \cup Awaited(a) = a.online
        /\ IsFiniteSet(a.rows) /\ IsFiniteSet(SlicesOf(a))
        /\ Cardinality(a.rows) + a.pending = Cardinality(a.online)

Answered(a) ==
    a.loading =>
        \/ SlicesOf(a) # {}
        \/ \E j \in a.flight : j.kind = "tab" /\ j.seq = a.tabReq

KindInv ==
    /\ switching \in {"no", "running", "published"}
    /\ acts \in 0 .. MaxActs
    /\ misplaced \in BOOLEAN /\ reselected \in BOOLEAN

Holds(a, sw, mis, res) ==
    /\ Sound(a)
    /\ ~res => Labelled(a) /\ RowsLabelled(a) /\ TabHere(a) /\ WarmHere(a)
    /\ ~res /\ ~mis => Filled(a)
    /\ sw # "published" => Complete(a)
    /\ sw = "no" => Answered(a)

IInv == KindInv /\ Holds(app, switching, misplaced, reselected)

-----------------------------------------------------------------------------
(* What each handler leaves alone and what it sets.                        *)

LEMMA ListingTypes ==
    /\ Cleared \in Listing /\ Failed \in Listing
    /\ \A c \in Cluster \cup {None}, g \in Nat : RowsOf(c, g) \in Listing
    /\ Cleared.is = "cleared" /\ Failed.is = "failed"
    /\ \A c, g : RowsOf(c, g).is = "rows" /\ RowsOf(c, g).cluster = c /\ RowsOf(c, g).gen = g
  BY DEF Cleared, Failed, RowsOf, Listing

LEMMA AppTypes ==
    ASSUME NEW a \in App
    PROVE  /\ a.tab \in Tab /\ a.selected \in Cluster \cup {None} /\ a.online \subseteq Cluster
           /\ a.lists \in [Tab -> Listing]
           /\ a.cacheKey \in [Tab -> Cluster \cup {None, Admin, NoKey}]
           /\ a.aggCache \in [Tab \X Cluster -> Listing \cup {None}]
           /\ a.aggOn \in BOOLEAN /\ a.loading \in BOOLEAN
           /\ a.aggSeq \in Nat /\ a.aggFloor \in Nat /\ a.pending \in Nat /\ a.tabReq \in Nat
           /\ a.prefetchSeq \in Nat /\ a.gen \in Nat
           /\ a.prefetchCluster \in Cluster \cup {None}
           /\ a.rows \subseteq [cluster : Cluster, from : Listing]
           /\ a.flight \subseteq Job
  BY DEF App

\* The fields only a fan-out, a request for the tab, or neither, sets.
SameSession(a, b) ==
    /\ b.tab = a.tab /\ b.selected = a.selected /\ b.online = a.online
    /\ b.aggOn = a.aggOn /\ b.aggFloor = a.aggFloor /\ b.gen = a.gen
    /\ b.prefetchCluster = a.prefetchCluster /\ b.prefetchSeq = a.prefetchSeq
SameTabs(a, b) == b.lists = a.lists /\ b.cacheKey = a.cacheKey /\ b.aggCache = a.aggCache
SameFan(a, b) ==
    b.aggSeq = a.aggSeq /\ b.rows = a.rows /\ b.pending = a.pending

\* The request that lists the active tab.
TabJob(a) ==
    [kind |-> "tab", tab |-> a.tab, seq |-> a.tabReq + 1,
     cluster |-> IF a.selected = None THEN Root ELSE a.selected, gen |-> a.gen]

LEMMA ListFields ==
    ASSUME NEW a \in App, NEW b, b = ListActiveTab(a)
    PROVE  /\ b \in App
           /\ SameSession(a, b) /\ SameTabs(a, b) /\ SameFan(a, b)
           /\ b.tabReq = a.tabReq + 1 /\ b.loading = TRUE
           /\ \/ b.flight = a.flight \cup {TabJob(a)}
              \/ b.flight = a.flight /\ switching = "published"
<1> DEFINE m == BeginTabRequest(a)
<1>1. a.tabReq + 1 \in Nat
  BY DEF App
<1>2. /\ m \in App /\ SameSession(a, m) /\ SameTabs(a, m) /\ SameFan(a, m)
      /\ m.tabReq = a.tabReq + 1 /\ m.loading = TRUE /\ m.flight = a.flight
  BY <1>1 DEF BeginTabRequest, App, SameSession, SameTabs, SameFan
<1> DEFINE job == Sent(m, "tab", m.tab, m.tabReq, IF m.selected = None THEN Root ELSE m.selected)
           s == Send(m, {job})
<1>3. (b = m /\ switching = "published") \/ b = s
  BY DEF ListActiveTab
<1>4. job = TabJob(a) /\ job \in Job
  BY <1>2 DEF Sent, TabJob, SameSession, App, Job
<1> HIDE DEF m, job
<1>5. m.flight \cup {job} \in SUBSET Job
  BY <1>2, <1>4 DEF App
<1>6. s \in App /\ s = [m EXCEPT !.flight = m.flight \cup {job}]
  BY <1>2, <1>5 DEF Send, App
<1>7. /\ SameSession(m, s) /\ SameTabs(m, s) /\ SameFan(m, s)
      /\ s.tabReq = m.tabReq /\ s.loading = m.loading /\ s.flight = m.flight \cup {job}
  BY <1>2, <1>6 DEF App, SameSession, SameTabs, SameFan
<1> HIDE DEF s
<1>8. QED
  BY <1>2, <1>3, <1>4, <1>6, <1>7 DEF SameSession, SameTabs, SameFan

\* The slices a fan-out has to ask for, the jobs that ask for them, and the rows
\* it already has.
Missing(a) == {c \in a.online : SeededCache(a)[<<a.tab, c>>] = None}
SliceJob(a, c) ==
    [kind |-> "slice", tab |-> a.tab, seq |-> a.aggSeq + 1, cluster |-> c, gen |-> a.gen]
Row(a, c) == [cluster |-> c, from |-> SeededCache(a)[<<a.tab, c>>]]

LEMMA SeedType ==
    ASSUME NEW a \in App PROVE SeededCache(a) \in [Tab \X Cluster -> Listing \cup {None}]
  BY DEF SeededCache, App

LEMMA OnlineFinite ==
    ASSUME NEW a \in App
    PROVE  /\ IsFiniteSet(a.online) /\ IsFiniteSet(Missing(a))
           /\ Cardinality(Missing(a)) \in Nat
<1>1. a.online \subseteq Cluster /\ Missing(a) \subseteq a.online
  BY DEF App, Missing
<1>2. QED
  BY <1>1, FS_Subset, FS_CardinalityType

LEMMA FanType ==
    ASSUME NEW a \in App, NEW n \in Nat, NEW cache \in [Tab \X Cluster -> Listing \cup {None}],
           NEW rows \in SUBSET [cluster : Cluster, from : Listing], NEW p \in Nat,
           NEW l \in BOOLEAN, NEW jobs \in SUBSET Job, NEW b,
           b = [a EXCEPT !.aggSeq = n, !.aggCache = cache, !.rows = rows,
                         !.pending = p, !.loading = l, !.flight = jobs]
    PROVE  b \in App
  BY DEF App

LEMMA FanFields ==
    ASSUME NEW a \in App, NEW b, b = DispatchAggregate(a)
    PROVE  /\ b \in App
           /\ SameSession(a, b) /\ b.tabReq = a.tabReq
           /\ b.lists = a.lists /\ b.cacheKey = a.cacheKey /\ b.aggCache = SeededCache(a)
           /\ b.aggSeq = a.aggSeq + 1
           /\ b.rows = {Row(a, c) : c \in a.online \ Missing(a)}
           /\ b.pending = Cardinality(Missing(a)) /\ b.loading = (Missing(a) # {})
           /\ b.flight = a.flight \cup {SliceJob(a, c) : c \in Missing(a)}
<1> DEFINE rows == {Row(a, c) : c \in a.online \ Missing(a)}
           jobs == a.flight \cup {SliceJob(a, c) : c \in Missing(a)}
           more == (Missing(a) # {})
<1>1. Cardinality(Missing(a)) \in Nat /\ a.aggSeq + 1 \in Nat
  BY OnlineFinite, AppTypes
<1>2. SeededCache(a) \in [Tab \X Cluster -> Listing \cup {None}]
  BY SeedType
<1>3. rows \in SUBSET [cluster : Cluster, from : Listing]
  <2> SUFFICES ASSUME NEW c \in a.online \ Missing(a)
               PROVE  Row(a, c) \in [cluster : Cluster, from : Listing]
    OBVIOUS
  <2>1. c \in Cluster /\ <<a.tab, c>> \in Tab \X Cluster
    BY AppTypes
  <2>2. SeededCache(a)[<<a.tab, c>>] \in Listing
    BY <1>2, <2>1 DEF Missing
  <2>3. QED
    BY <2>1, <2>2 DEF Row
<1>4. jobs \in SUBSET Job
  <2> SUFFICES ASSUME NEW c \in Missing(a) PROVE SliceJob(a, c) \in Job
    BY AppTypes
  <2>1. c \in Cluster
    BY AppTypes DEF Missing
  <2>2. QED
    BY <1>1, <2>1, AppTypes DEF SliceJob, Job
<1>5. {[cluster |-> c, from |-> SeededCache(a)[<<a.tab, c>>]] : c \in a.online \ Missing(a)} = rows
  BY DEF Row
<1>6. {Sent(a, "slice", a.tab, a.aggSeq + 1, c) : c \in Missing(a)}
        = {SliceJob(a, c) : c \in Missing(a)}
  BY DEF Sent, SliceJob
<1> DEFINE n == a.aggSeq + 1
           cache == SeededCache(a)
           p == Cardinality(Missing(a))
<1>7. b = [a EXCEPT !.aggSeq = n, !.aggCache = cache, !.rows = rows,
                    !.pending = p, !.loading = more, !.flight = jobs]
  BY <1>5, <1>6 DEF DispatchAggregate, Missing
<1>8. /\ n \in Nat /\ cache \in [Tab \X Cluster -> Listing \cup {None}]
      /\ rows \in SUBSET [cluster : Cluster, from : Listing]
      /\ p \in Nat /\ more \in BOOLEAN /\ jobs \in SUBSET Job
  BY <1>1, <1>2, <1>3, <1>4
<1> HIDE DEF rows, jobs, more, n, cache, p
<1>9. b \in App
  BY <1>7, <1>8, FanType
<1>10. /\ SameSession(a, b) /\ b.tabReq = a.tabReq
       /\ b.lists = a.lists /\ b.cacheKey = a.cacheKey /\ b.aggCache = cache
       /\ b.aggSeq = n /\ b.rows = rows
       /\ b.pending = p /\ b.loading = more /\ b.flight = jobs
  BY <1>7 DEF App, SameSession
<1>11. QED
  BY <1>9, <1>10 DEF rows, jobs, more, n, cache, p
\* The listings prefetch_all asks for.
WarmJob(a, s, t) ==
    [kind |-> "prefetch", tab |-> t, seq |-> s,
     cluster |-> IF t \in AdminTab THEN Root ELSE a.selected, gen |-> a.gen]

SameButJobs(a, b) ==
    /\ b.tab = a.tab /\ b.selected = a.selected /\ b.online = a.online
    /\ b.aggOn = a.aggOn /\ b.aggFloor = a.aggFloor /\ b.gen = a.gen
    /\ SameTabs(a, b) /\ SameFan(a, b) /\ b.tabReq = a.tabReq /\ b.loading = a.loading

LEMMA PrefetchFields ==
    ASSUME NEW a \in App, NEW warm \in WarmSets(a), NEW b, b = PrefetchAll(a, warm)
    PROVE  \/ b = a /\ a.aggOn
           \/ /\ ~a.aggOn /\ b \in App /\ SameButJobs(a, b)
              /\ b.prefetchCluster = a.selected
              /\ \/ b.prefetchSeq = a.prefetchSeq /\ a.prefetchCluster = a.selected
                 \/ b.prefetchSeq = a.prefetchSeq + 1
              /\ b.flight = a.flight \cup {WarmJob(a, b.prefetchSeq, t) : t \in warm}
<1>1. CASE a.aggOn
  BY <1>1 DEF PrefetchAll
<1>2. CASE ~a.aggOn
  <2> DEFINE n == a.prefetchSeq + 1
             sel == a.selected
             m == IF a.prefetchCluster = a.selected THEN a
                  ELSE [a EXCEPT !.prefetchSeq = n, !.prefetchCluster = sel]
  <2>1. n \in Nat /\ sel \in Cluster \cup {None}
    BY AppTypes
  <2>2. /\ m \in App /\ SameButJobs(a, m) /\ m.prefetchCluster = sel /\ m.flight = a.flight
        /\ \/ m.prefetchSeq = a.prefetchSeq /\ a.prefetchCluster = a.selected
           \/ m.prefetchSeq = n
    <3> HIDE DEF n, sel
    <3>1. CASE a.prefetchCluster = a.selected
      BY <3>1 DEF SameButJobs, SameTabs, SameFan, sel
    <3>2. CASE a.prefetchCluster # a.selected
      <4>1. m = [a EXCEPT !.prefetchSeq = n, !.prefetchCluster = sel]
        BY <3>2
      <4> HIDE DEF m
      <4>2. QED
        BY <2>1, <4>1 DEF App, SameButJobs, SameTabs, SameFan
    <3>3. QED
      BY <3>1, <3>2
  <2> DEFINE jobs == {WarmJob(a, m.prefetchSeq, t) : t \in warm}
             all == m.flight \cup jobs
  <2>3. b = Send(m, {Sent(m, "prefetch", t, m.prefetchSeq,
                          IF t \in AdminTab THEN Root ELSE m.selected) : t \in warm})
    BY <1>2 DEF PrefetchAll
  <2> HIDE DEF m
  <2>4. {Sent(m, "prefetch", t, m.prefetchSeq,
              IF t \in AdminTab THEN Root ELSE m.selected) : t \in warm} = jobs
    BY <2>2 DEF Sent, WarmJob, SameButJobs
  <2>5. b = [m EXCEPT !.flight = all]
    BY <2>3, <2>4 DEF Send
  <2>6. all \in SUBSET Job
    <3> SUFFICES ASSUME NEW t \in warm PROVE WarmJob(a, m.prefetchSeq, t) \in Job
      BY <2>2, AppTypes
    <3>1. t \in Tab
      BY <1>2 DEF WarmSets, Warmable
    <3>2. m.prefetchSeq \in Nat
      BY <2>2, AppTypes
    <3> QED
      BY <3>1, <3>2, AppTypes DEF WarmJob, Job
  <2> HIDE DEF all
  <2>7. /\ b \in App /\ SameButJobs(m, b) /\ b.flight = all
        /\ b.prefetchCluster = m.prefetchCluster /\ b.prefetchSeq = m.prefetchSeq
    BY <2>2, <2>5, <2>6 DEF App, SameButJobs, SameTabs, SameFan
  <2>8. SameButJobs(a, b)
    BY <2>2, <2>7 DEF SameButJobs, SameTabs, SameFan
  <2>9. b.flight = a.flight \cup {WarmJob(a, b.prefetchSeq, t) : t \in warm}
    BY <2>2, <2>7 DEF all
  <2>10. QED
    BY <1>2, <2>2, <2>7, <2>8, <2>9
<1>3. QED
  BY <1>1, <1>2

LEMMA PrefetchKeeps ==
    ASSUME NEW a, Sound(a), NEW warm \in WarmSets(a), NEW b, b = PrefetchAll(a, warm)
    PROVE  /\ Sound(b) /\ b.aggOn = a.aggOn
           /\ Labelled(a) => Labelled(b)
           /\ Filled(a) => Filled(b)
           /\ RowsLabelled(a) => RowsLabelled(b)
           /\ TabHere(a) => TabHere(b)
           /\ ~a.aggOn \/ WarmHere(a) => WarmHere(b)
           /\ Complete(a) => Complete(b)
           /\ Answered(a) => Answered(b)
<1>1. CASE b = a /\ a.aggOn
  BY <1>1
<1>2. CASE b # a \/ ~a.aggOn
  <2>1. /\ ~a.aggOn /\ b \in App /\ SameButJobs(a, b)
        /\ b.prefetchCluster = a.selected
        /\ \/ b.prefetchSeq = a.prefetchSeq /\ a.prefetchCluster = a.selected
           \/ b.prefetchSeq = a.prefetchSeq + 1
        /\ b.flight = a.flight \cup {WarmJob(a, b.prefetchSeq, t) : t \in warm}
    BY <1>2, PrefetchFields DEF Sound
  <2>2. a \in App /\ Numbers(a) /\ Views(a) /\ Age(a)
    BY DEF Sound
  <2>3. \A t : LET j == WarmJob(a, b.prefetchSeq, t)
               IN /\ j.kind = "prefetch" /\ j.gen = a.gen /\ j.seq = b.prefetchSeq
                  /\ j.tab \in ScopedTab => j.cluster = a.selected
    BY DEF WarmJob
  <2>4. Numbers(b)
    <3>1. ASSUME NEW j \in a.flight PROVE JobInv(b, j)
      <4>1. JobInv(a, j) /\ j \in Job
        BY <2>2, AppTypes DEF Numbers
      <4>2. a.prefetchSeq \in Nat /\ j.seq \in Nat
        BY <2>2, <4>1, AppTypes DEF Job
      <4>3. QED
        BY <2>1, <4>1, <4>2 DEF JobInv, SameButJobs, SameFan
    <3>2. ASSUME NEW t \in warm PROVE JobInv(b, WarmJob(a, b.prefetchSeq, t))
      <4> DEFINE j == WarmJob(a, b.prefetchSeq, t)
      <4>1. a.gen \in Nat /\ b.prefetchSeq \in Nat
        BY <2>1, <2>2, AppTypes
      <4>2. /\ j.kind = "prefetch" /\ j.gen = a.gen /\ j.seq = b.prefetchSeq
            /\ j.tab \in ScopedTab => j.cluster = a.selected
        BY <2>3
      <4> HIDE DEF j
      <4>3. JobInv(b, j)
        BY <2>1, <4>1, <4>2 DEF JobInv, SameButJobs
      <4>4. QED
        BY <4>3 DEF j
    <3>3. QED
      BY <2>1, <2>2, <3>1, <3>2 DEF Numbers, SameButJobs, SameFan
  <2>5. Sound(b)
    BY <2>1, <2>2, <2>3, <2>4 DEF Sound, Views, Age, SameButJobs, SameTabs, SameFan
  <2>6. SlicesOf(b) = SlicesOf(a)
    BY <2>1, <2>3 DEF SlicesOf, SameButJobs, SameFan
  <2>7. TabHere(a) => TabHere(b)
    BY <2>1, <2>3 DEF TabHere, SameButJobs
  <2>8. Answered(a) => Answered(b)
    BY <2>1, <2>6 DEF Answered, SameButJobs
  <2>9. QED
    BY <2>1, <2>5, <2>6, <2>7, <2>8
    DEF Labelled, Filled, RowsLabelled, WarmHere, Complete, Listed, Awaited, SameButJobs, SameTabs, SameFan
<1>3. QED
  BY <1>1, <1>2

-----------------------------------------------------------------------------
(* ReloadActive makes what is on screen follow the view and the selection.  *)

LEMMA ListKeeps ==
    ASSUME NEW a, Sound(a), ~a.aggOn, a.selected # None \/ a.tab \in AdminTab,
           NEW b, b = ListActiveTab(a)
    PROVE  /\ Sound(b) /\ TabHere(b)
           /\ Labelled(a) => Labelled(b)
           /\ Filled(a) => Filled(b)
           /\ switching # "published" => Answered(b)
           /\ SameSession(a, b)
<1>1. /\ b \in App
      /\ SameSession(a, b) /\ SameTabs(a, b) /\ SameFan(a, b)
      /\ b.tabReq = a.tabReq + 1 /\ b.loading = TRUE
      /\ \/ b.flight = a.flight \cup {TabJob(a)}
         \/ b.flight = a.flight /\ switching = "published"
  BY ListFields DEF Sound
<1>2. a \in App /\ Numbers(a) /\ Views(a) /\ Age(a)
  BY DEF Sound
<1>3. a.gen \in Nat /\ a.tabReq \in Nat /\ a.flight \subseteq Job
  BY <1>2, AppTypes
<1> DEFINE k == TabJob(a)
<1>4. /\ k.kind = "tab" /\ k.gen = a.gen /\ k.seq = a.tabReq + 1 /\ k.tab = a.tab
      /\ a.selected # None => k.cluster = a.selected
  BY DEF TabJob
<1>5. b.flight \subseteq a.flight \cup {k}
  BY <1>1
<1> HIDE DEF k
<1>6. \A j \in a.flight : JobInv(a, j) /\ j.seq \in Nat
  BY <1>2, <1>3 DEF Numbers, Job
<1>7. Numbers(b)
  <2>1. ASSUME NEW j \in a.flight PROVE JobInv(b, j)
    BY <1>1, <1>3, <1>6 DEF JobInv, SameSession, SameFan
  <2>2. JobInv(b, k)
    BY <1>1, <1>3, <1>4 DEF JobInv, SameSession
  <2>3. QED
    BY <1>1, <1>2, <1>5, <2>1, <2>2 DEF Numbers, SameSession, SameFan
<1>8. Sound(b)
  BY <1>1, <1>2, <1>4, <1>5, <1>7 DEF Sound, Views, Age, SameSession, SameTabs, SameFan
<1>9. TabHere(b)
  <2>1. \A j \in a.flight : j.kind = "tab" => j.seq # b.tabReq
    BY <1>1, <1>3, <1>6 DEF JobInv
  <2>2. QED
    BY <1>1, <1>4, <1>5, <2>1 DEF TabHere, SameSession
<1>10. switching # "published" => Answered(b)
  BY <1>1, <1>4 DEF Answered, k
<1>11. QED
  BY <1>1, <1>8, <1>9, <1>10 DEF Labelled, Filled, SameTabs

\* What is promoted from the scoped listing is of this profile, and labelled.
LEMMA SeedKeeps ==
    ASSUME NEW a, Sound(a), a.selected # None, NEW tc \in Tab \X Cluster,
           SeededCache(a)[tc] # None, SeededCache(a)[tc].is = "rows"
    PROVE  /\ SeededCache(a)[tc].gen >= a.gen
           /\ Labelled(a) /\ tc[1] \in ScopedTab => SeededCache(a)[tc].cluster = tc[2]
<1>1. a \in App /\ Age(a)
  BY DEF Sound
<1>2. a.aggCache \in [Tab \X Cluster -> Listing \cup {None}]
  BY <1>1, AppTypes
<1>3. tc = <<tc[1], tc[2]>> /\ tc[1] \in Tab /\ tc[2] \in Cluster
  OBVIOUS
<1>4. CASE SeededCache(a)[tc] = a.aggCache[tc]
  BY <1>1, <1>3, <1>4 DEF Age, Labelled
<1>5. CASE SeededCache(a)[tc] # a.aggCache[tc]
  <2>1. /\ Cached(a, a.tab) /\ tc = <<a.tab, SeedCluster(a)>>
        /\ SeededCache(a)[tc] = a.lists[a.tab]
    BY <1>2, <1>5 DEF SeededCache
  <2>2. a.tab \in Tab /\ a.selected \in Cluster
    BY <1>1, AppTypes
  <2>3. a.tab \in ScopedTab => a.cacheKey[a.tab] = a.selected /\ tc[2] = a.selected
    BY <2>1 DEF Cached, Key, SeedCluster
  <2>4. QED
    BY <1>1, <1>3, <2>1, <2>2, <2>3 DEF Age, Labelled
<1>6. QED
  BY <1>4, <1>5

\* The fan-out on screen: its slices are those that were missing.
LEMMA FanSlices ==
    ASSUME NEW a, Sound(a), NEW b, b = DispatchAggregate(a)
    PROVE  SlicesOf(b) = {SliceJob(a, c) : c \in Missing(a)}
<1>1. a \in App /\ Numbers(a)
  BY DEF Sound
<1>2. /\ b.tab = a.tab /\ b.aggSeq = a.aggSeq + 1
      /\ b.flight = a.flight \cup {SliceJob(a, c) : c \in Missing(a)}
  BY <1>1, FanFields DEF SameSession
<1>3. \A c : LET j == SliceJob(a, c)
             IN j.kind = "slice" /\ j.seq = a.aggSeq + 1 /\ j.tab = a.tab
  BY DEF SliceJob
<1>4. a.aggSeq \in Nat /\ \A j \in a.flight : JobInv(a, j) /\ j.seq \in Nat
  BY <1>1, AppTypes DEF Numbers, Job
<1>5. \A j \in a.flight : j.kind = "slice" => j.seq # b.aggSeq
  BY <1>2, <1>4 DEF JobInv
<1>6. QED
  BY <1>2, <1>3, <1>5 DEF SlicesOf

LEMMA FanComplete ==
    ASSUME NEW a, Sound(a), NEW b, b = DispatchAggregate(a)
    PROVE  Complete(b) /\ Answered(b)
<1>1. a \in App
  BY DEF Sound
<1>2. /\ b.online = a.online /\ b.rows = {Row(a, c) : c \in a.online \ Missing(a)}
      /\ b.pending = Cardinality(Missing(a)) /\ b.loading = (Missing(a) # {})
  BY <1>1, FanFields DEF SameSession
<1>3. SlicesOf(b) = {SliceJob(a, c) : c \in Missing(a)}
  BY FanSlices
<1>4. /\ IsFiniteSet(a.online) /\ IsFiniteSet(Missing(a)) /\ Missing(a) \subseteq a.online
  BY <1>1, OnlineFinite DEF Missing
<1>5. IsFiniteSet(SlicesOf(b)) /\ Cardinality(SlicesOf(b)) = Cardinality(Missing(a))
  <2> DEFINE f == [c \in Missing(a) |-> SliceJob(a, c)]
  <2>1. \A c, d \in Missing(a) : f[c] = f[d] => c = d
    BY DEF SliceJob
  <2>2. f \in Bijection(Missing(a), SlicesOf(b))
    BY <1>3, <2>1 DEF Bijection, Injection, Surjection, IsInjective
  <2>3. ExistsBijection(Missing(a), SlicesOf(b))
    BY <2>2 DEF ExistsBijection
  <2>4. QED
    BY <1>4, <2>3, FS_Bijection
<1> DEFINE here == a.online \ Missing(a)
<1>6. /\ IsFiniteSet(here) /\ Cardinality(here) + Cardinality(Missing(a)) = Cardinality(a.online)
      /\ here \cup Missing(a) = a.online /\ here \cap Missing(a) = {}
  <2>1. IsFiniteSet(here) /\ here \cup Missing(a) = a.online /\ here \cap Missing(a) = {}
    BY <1>4, FS_Subset
  <2> HIDE DEF here
  <2>2. Cardinality(a.online) = Cardinality(here) + Cardinality(Missing(a)) - Cardinality({})
    BY <1>4, <2>1, FS_Union
  <2>3. QED
    BY <1>4, <2>1, <2>2, FS_EmptySet, FS_CardinalityType
<1>7. IsFiniteSet(b.rows) /\ Cardinality(b.rows) = Cardinality(here)
  <2> DEFINE f == [c \in here |-> Row(a, c)]
  <2>1. \A c, d \in here : f[c] = f[d] => c = d
    BY DEF Row
  <2>2. f \in Bijection(here, b.rows)
    BY <1>2, <2>1 DEF Bijection, Injection, Surjection, IsInjective
  <2>3. ExistsBijection(here, b.rows)
    BY <2>2 DEF ExistsBijection
  <2> HIDE DEF here
  <2>4. QED
    BY <1>6, <2>3, FS_Bijection
<1>8. Listed(b) = here
  <2>1. \A c : Row(a, c).cluster = c
    BY DEF Row
  <2>2. \A r \in b.rows : r.cluster \in here
    BY <1>2, <2>1
  <2>3. \A c \in here : Row(a, c) \in b.rows
    BY <1>2
  <2>4. QED
    BY <2>1, <2>2, <2>3 DEF Listed
<1>9. Awaited(b) = Missing(a)
  <2>1. \A c : SliceJob(a, c).cluster = c
    BY DEF SliceJob
  <2>2. \A j \in SlicesOf(b) : j.cluster \in Missing(a)
    BY <1>3, <2>1
  <2>3. \A c \in Missing(a) : SliceJob(a, c) \in SlicesOf(b)
    BY <1>3
  <2>4. QED
    BY <2>1, <2>2, <2>3 DEF Awaited
<1> HIDE DEF here
<1>10. Complete(b)
  <2>1. b.pending = Cardinality(SlicesOf(b)) /\ IsFiniteSet(SlicesOf(b)) /\ IsFiniteSet(b.rows)
    BY <1>2, <1>5, <1>7
  <2>2. Cardinality(b.rows) + b.pending = Cardinality(b.online)
    BY <1>2, <1>6, <1>7
  <2>3. /\ Listed(b) \cap Awaited(b) = {}
        /\ Listed(b) \cup Awaited(b) = b.online
    BY <1>2, <1>6, <1>8, <1>9
  <2>4. QED
    BY <2>1, <2>2, <2>3 DEF Complete
<1>11. Answered(b)
  <2>1. ASSUME b.loading PROVE SlicesOf(b) # {}
    <3>1. PICK c \in Missing(a) : TRUE
      BY <1>2, <2>1
    <3>2. SliceJob(a, c) \in SlicesOf(b)
      BY <1>3
    <3>3. QED
      BY <3>2
  <2>2. QED
    BY <2>1 DEF Answered
<1>12. QED
  BY <1>10, <1>11

LEMMA FanKeeps ==
    ASSUME NEW a, Sound(a), a.aggOn, NEW b, b = DispatchAggregate(a)
    PROVE  /\ Sound(b) /\ SameSession(a, b)
           /\ Labelled(a) => Labelled(b) /\ RowsLabelled(b)
           /\ Filled(a) => Filled(b)
           /\ TabHere(a) => TabHere(b)
<1>1. a \in App /\ Numbers(a) /\ Views(a) /\ Age(a)
  BY DEF Sound
<1>2. /\ b \in App
      /\ SameSession(a, b) /\ b.tabReq = a.tabReq
      /\ b.lists = a.lists /\ b.cacheKey = a.cacheKey /\ b.aggCache = SeededCache(a)
      /\ b.aggSeq = a.aggSeq + 1
      /\ b.rows = {Row(a, c) : c \in a.online \ Missing(a)}
      /\ b.flight = a.flight \cup {SliceJob(a, c) : c \in Missing(a)}
  BY <1>1, FanFields
<1>3. a.selected # None
  BY <1>1 DEF Views
<1>4. \A c : LET j == SliceJob(a, c)
             IN /\ j.kind = "slice" /\ j.seq = a.aggSeq + 1 /\ j.gen = a.gen /\ j.cluster = c
  BY DEF SliceJob
<1>5. /\ a.aggSeq \in Nat /\ a.aggFloor \in Nat /\ a.gen \in Nat /\ a.tab \in Tab
      /\ a.aggFloor <= a.aggSeq /\ a.online \subseteq Cluster
      /\ \A j \in a.flight : JobInv(a, j) /\ j.seq \in Nat
  BY <1>1, AppTypes DEF Numbers, Job
<1>6. Numbers(b)
  <2>1. ASSUME NEW j \in a.flight PROVE JobInv(b, j)
    BY <1>2, <1>5 DEF JobInv, SameSession
  <2>2. ASSUME NEW c \in Missing(a) PROVE JobInv(b, SliceJob(a, c))
    <3> DEFINE j == SliceJob(a, c)
    <3>1. j.kind = "slice" /\ j.seq = a.aggSeq + 1 /\ j.gen = a.gen /\ j.cluster = c
      BY <1>4
    <3>2. c \in Cluster
      BY <1>5 DEF Missing
    <3> HIDE DEF j
    <3>3. JobInv(b, j)
      BY <1>2, <1>5, <3>1, <3>2 DEF JobInv, SameSession
    <3>4. QED
      BY <3>3 DEF j
  <2>3. QED
    BY <1>2, <1>5, <2>1, <2>2 DEF Numbers, SameSession
<1>7. \A c \in a.online \ Missing(a) :
          /\ <<a.tab, c>> \in Tab \X Cluster
          /\ SeededCache(a)[<<a.tab, c>>] # None
          /\ Row(a, c).from = SeededCache(a)[<<a.tab, c>>] /\ Row(a, c).cluster = c
  BY <1>5 DEF Missing, Row
<1>8. Age(b)
  <2>1. \A tc \in Tab \X Cluster :
            b.aggCache[tc] # None /\ b.aggCache[tc].is = "rows" => b.aggCache[tc].gen >= b.gen
    BY <1>2, <1>3, SeedKeeps DEF SameSession
  <2>2. ASSUME NEW r \in b.rows, r.from.is = "rows" PROVE r.from.gen >= b.gen
    <3>1. PICK c \in a.online \ Missing(a) : r = Row(a, c)
      BY <1>2
    <3>2. /\ <<a.tab, c>> \in Tab \X Cluster
          /\ r.from = b.aggCache[<<a.tab, c>>] /\ r.from # None
      BY <1>2, <1>7, <3>1
    <3>3. QED
      BY <2>1, <2>2, <3>2
  <2>3. QED
    BY <1>1, <1>2, <2>1, <2>2 DEF Age, SameSession
<1>9. Sound(b)
  BY <1>1, <1>2, <1>6, <1>8 DEF Sound, Views, SameSession
<1>10. ASSUME Labelled(a) PROVE Labelled(b) /\ RowsLabelled(b)
  <2>1. ASSUME NEW t \in ScopedTab, NEW c \in Cluster,
               b.aggCache[<<t, c>>] # None, b.aggCache[<<t, c>>].is = "rows"
        PROVE  b.aggCache[<<t, c>>].cluster = c
    <3>1. <<t, c>> \in Tab \X Cluster
      BY DEF Tab
    <3>2. QED
      BY <1>2, <1>3, <1>10, <2>1, <3>1, SeedKeeps
  <2>2. Labelled(b)
    BY <1>2, <1>10, <2>1 DEF Labelled
  <2>3. ASSUME b.tab \in ScopedTab, NEW r \in b.rows, r.from.is = "rows"
        PROVE  r.from.cluster = r.cluster
    <3>1. PICK c \in a.online \ Missing(a) : r = Row(a, c)
      BY <1>2
    <3>2. c \in Cluster /\ a.tab \in ScopedTab
      BY <1>2, <1>5, <2>3 DEF SameSession
    <3>4. r.from = b.aggCache[<<a.tab, c>>] /\ r.from # None /\ r.cluster = c
      BY <1>2, <1>7, <3>1
    <3>5. QED
      BY <2>1, <2>3, <3>2, <3>4
  <2>5. RowsLabelled(b)
    BY <2>3 DEF RowsLabelled
  <2>6. QED
    BY <2>2, <2>5
<1>11. TabHere(a) => TabHere(b)
  BY <1>2, <1>4 DEF TabHere, SameSession
<1>12. QED
  BY <1>2, <1>9, <1>10, <1>11 DEF Filled

LEMMA ReloadKeeps ==
    ASSUME NEW a, Sound(a), NEW b, b = ReloadActive(a)
    PROVE  /\ Sound(b) /\ SameSession(a, b) /\ Complete(b)
           /\ Labelled(a) => Labelled(b) /\ RowsLabelled(b)
           /\ Filled(a) => Filled(b)
           /\ TabHere(a) \/ ~a.aggOn => TabHere(b)
           /\ WarmHere(a) => WarmHere(b)
           /\ switching # "published" /\ (a.selected # None \/ Answered(a)) => Answered(b)
<1>1. a \in App /\ Views(a) /\ (a.tab \in AdminTab \/ a.tab \notin AdminTab)
  BY DEF Sound
<1>2. CASE a.aggOn
  <2>1. b = DispatchAggregate(a)
    BY <1>1, <1>2 DEF ReloadActive, Views
  <2>2. QED
    BY <1>2, <2>1, FanKeeps, FanComplete DEF WarmHere, SameSession
<1>3. CASE ~a.aggOn /\ (a.tab \in AdminTab \/ a.selected # None)
  <2>1. b = ListActiveTab(a)
    BY <1>3 DEF ReloadActive
  <2>2. QED
    BY <1>3, <2>1, ListKeeps DEF WarmHere, RowsLabelled, Complete, SameSession
<1>4. CASE ~a.aggOn /\ ~(a.tab \in AdminTab \/ a.selected # None)
  <2>1. b = a
    BY <1>4 DEF ReloadActive
  <2>2. QED
    BY <1>4, <2>1 DEF SameSession, RowsLabelled, Complete, TabHere
<1>5. QED
  BY <1>2, <1>3, <1>4

-----------------------------------------------------------------------------
(* What the handlers do before, or instead of, a reload.                   *)

\* Fewer jobs under the same numbers.
SameNumbers(a, b) ==
    /\ b.gen = a.gen /\ b.aggFloor = a.aggFloor /\ b.aggSeq = a.aggSeq
    /\ b.tabReq = a.tabReq
    /\ b.prefetchSeq = a.prefetchSeq /\ b.prefetchCluster = a.prefetchCluster

LEMMA NumbersKept ==
    ASSUME NEW a, NEW b, Numbers(a), SameNumbers(a, b), b.flight \subseteq a.flight
    PROVE  Numbers(b)
  BY DEF Numbers, JobInv, SameNumbers

\* A topology, and the statuses, are asked for.
LEMMA AskFields ==
    ASSUME NEW a \in App, NEW b, b = AskClusters(a)
    PROVE  /\ b \in App /\ SameSession(a, b) /\ SameTabs(a, b) /\ SameFan(a, b)
           /\ b.tabReq = a.tabReq /\ b.loading = a.loading
           /\ \E k \in Job : /\ k.kind = "clusters" /\ k.seq = a.gen /\ k.gen = a.gen
                             /\ b.flight = a.flight \cup {k}
<1> DEFINE k == Sent(a, "clusters", Home, a.gen, None)
           all == a.flight \cup {k}
<1>1. k \in Job /\ k.kind = "clusters" /\ k.seq = a.gen /\ k.gen = a.gen
  BY AppTypes DEF Sent, Job, Tab
<1> HIDE DEF k
<1>2. all \in SUBSET Job
  BY <1>1, AppTypes
<1>3. b = [a EXCEPT !.flight = all]
  BY DEF AskClusters, Send, k
<1> HIDE DEF all
<1>4. /\ b \in App /\ SameSession(a, b) /\ SameTabs(a, b) /\ SameFan(a, b)
      /\ b.tabReq = a.tabReq /\ b.loading = a.loading /\ b.flight = all
  BY <1>2, <1>3 DEF App, SameSession, SameTabs, SameFan
<1>5. QED
  BY <1>1, <1>4 DEF all

LEMMA AskKeeps ==
    ASSUME NEW a, Sound(a), NEW b, b = AskClusters(a)
    PROVE  /\ Sound(b)
           /\ Labelled(a) => Labelled(b)
           /\ Filled(a) => Filled(b)
           /\ RowsLabelled(a) => RowsLabelled(b)
           /\ TabHere(a) => TabHere(b)
           /\ WarmHere(a) => WarmHere(b)
           /\ Complete(a) => Complete(b)
           /\ Answered(a) => Answered(b)
<1>1. a \in App /\ Numbers(a) /\ Views(a) /\ Age(a)
  BY DEF Sound
<1>2. /\ b \in App /\ SameSession(a, b) /\ SameTabs(a, b) /\ SameFan(a, b)
      /\ b.tabReq = a.tabReq /\ b.loading = a.loading
  BY <1>1, AskFields
<1>3. PICK k \in Job : /\ k.kind = "clusters" /\ k.seq = a.gen /\ k.gen = a.gen
                       /\ b.flight = a.flight \cup {k}
  BY <1>1, AskFields
<1>4. Numbers(b)
  <2>1. \A j \in a.flight : JobInv(b, j)
    BY <1>1, <1>2 DEF Numbers, JobInv, SameSession, SameFan
  <2>2. JobInv(b, k)
    BY <1>1, <1>2, <1>3, AppTypes DEF JobInv, SameSession
  <2>3. QED
    BY <1>1, <1>2, <1>3, <2>1, <2>2 DEF Numbers, SameSession, SameFan
<1>5. Sound(b)
  BY <1>1, <1>2, <1>3, <1>4 DEF Sound, Views, Age, SameSession, SameTabs, SameFan
<1>6. SlicesOf(b) = SlicesOf(a)
  BY <1>2, <1>3 DEF SlicesOf, SameSession, SameFan
<1>7. TabHere(a) => TabHere(b)
  BY <1>2, <1>3 DEF TabHere, SameSession
<1>8. Answered(a) => Answered(b)
  BY <1>2, <1>3, <1>6 DEF Answered
<1>9. QED
  BY <1>2, <1>5, <1>6, <1>7, <1>8
  DEF Labelled, Filled, RowsLabelled, WarmHere, Complete, Listed, Awaited, SameSession, SameTabs, SameFan

\* A session cleared, and nothing in it that could be wrong.
Blank(a) ==
    /\ a.selected = None /\ ~a.aggOn /\ ~a.loading /\ a.rows = {}
    /\ \A t \in Tab : a.lists[t].is = "cleared" /\ a.cacheKey[t] = NoKey
    /\ \A tc \in Tab \X Cluster : a.aggCache[tc] = None

LEMMA BlankHolds ==
    ASSUME NEW a, Sound(a), Blank(a), NEW sw, NEW mis, NEW res
    PROVE  Holds(a, sw, mis, res)
<1>1. Labelled(a) /\ Filled(a)
  BY DEF Blank, Labelled, Filled, Tab
<1>2. QED
  BY <1>1 DEF Holds, Blank, RowsLabelled, TabHere, WarmHere, Complete, Answered

LEMMA ClearType ==
    ASSUME NEW a \in App, NEW lists \in [Tab -> Listing],
           NEW keys \in [Tab -> Cluster \cup {None, Admin, NoKey}],
           NEW cache \in [Tab \X Cluster -> Listing \cup {None}],
           NEW n \in Nat, NEW t \in Tab, NEW b,
           b = [a EXCEPT !.tab = t, !.selected = None, !.lists = lists, !.cacheKey = keys,
                         !.aggOn = FALSE, !.aggSeq = n, !.rows = {}, !.aggCache = cache,
                         !.loading = FALSE]
    PROVE  b \in App
  BY DEF App

LEMMA ClearFields ==
    ASSUME NEW a \in App, NEW b, b = ClearSession(a)
    PROVE  /\ b \in App /\ Blank(b) /\ b.aggSeq = a.aggSeq + 1
           /\ b.aggFloor = a.aggFloor /\ b.gen = a.gen /\ b.tabReq = a.tabReq
           /\ b.prefetchSeq = a.prefetchSeq /\ b.prefetchCluster = a.prefetchCluster
           /\ b.flight = a.flight
<1> DEFINE lists == [t \in Tab |-> Cleared]
           keys == [t \in Tab |-> NoKey]
           cache == [tc \in Tab \X Cluster |-> None]
           n == a.aggSeq + 1
<1>1. /\ lists \in [Tab -> Listing] /\ keys \in [Tab -> Cluster \cup {None, Admin, NoKey}]
      /\ cache \in [Tab \X Cluster -> Listing \cup {None}] /\ n \in Nat /\ Home \in Tab
  BY ListingTypes, AppTypes DEF Tab
<1>2. /\ \A t \in Tab : lists[t].is = "cleared" /\ keys[t] = NoKey
      /\ \A tc \in Tab \X Cluster : cache[tc] = None
  BY ListingTypes
<1>3. b = [a EXCEPT !.tab = Home, !.selected = None, !.lists = lists, !.cacheKey = keys,
                    !.aggOn = FALSE, !.aggSeq = n, !.rows = {}, !.aggCache = cache,
                    !.loading = FALSE]
  BY DEF ClearSession
<1> HIDE DEF lists, keys, cache, n
<1>4. b \in App
  BY <1>1, <1>3, ClearType
<1>5. /\ b.selected = None /\ ~b.aggOn /\ ~b.loading /\ b.rows = {}
      /\ b.lists = lists /\ b.cacheKey = keys /\ b.aggCache = cache /\ b.aggSeq = n
      /\ b.aggFloor = a.aggFloor /\ b.gen = a.gen /\ b.tabReq = a.tabReq
      /\ b.prefetchSeq = a.prefetchSeq /\ b.prefetchCluster = a.prefetchCluster
      /\ b.flight = a.flight
  BY <1>3 DEF App
<1>6. QED
  BY <1>2, <1>4, <1>5 DEF Blank, n

LEMMA ClearKeeps ==
    ASSUME NEW a, Sound(a), NEW b, b = ClearSession(a) PROVE Sound(b) /\ Blank(b)
<1>1. a \in App /\ Numbers(a)
  BY DEF Sound
<1>2. /\ b \in App /\ Blank(b) /\ b.aggSeq = a.aggSeq + 1
      /\ b.aggFloor = a.aggFloor /\ b.gen = a.gen /\ b.tabReq = a.tabReq
      /\ b.prefetchSeq = a.prefetchSeq /\ b.prefetchCluster = a.prefetchCluster
      /\ b.flight = a.flight
  BY <1>1, ClearFields
<1>3. /\ a.aggSeq \in Nat /\ a.aggFloor \in Nat
      /\ \A j \in a.flight : JobInv(a, j) /\ j.seq \in Nat
  BY <1>1, AppTypes DEF Numbers, Job
<1>4. Numbers(b)
  BY <1>1, <1>2, <1>3 DEF Numbers, JobInv
<1>5. Views(b)
  BY <1>2, <1>3 DEF Views, JobInv, Blank
<1>6. QED
  BY <1>2, <1>4, <1>5 DEF Sound, Age, Blank

LEMMA EnterType ==
    ASSUME NEW m \in App, NEW g \in Nat, NEW s \in Nat, NEW p \in Nat, NEW r \in Nat, NEW b,
           b = [m EXCEPT !.gen = g, !.aggFloor = s, !.prefetchCluster = None,
                         !.prefetchSeq = p, !.tabReq = r]
    PROVE  b \in App
  BY DEF App

LEMMA EnterKeeps ==
    ASSUME NEW a, Sound(a), NEW b, b = EnterProfile(a) PROVE Sound(b) /\ Blank(b)
<1> DEFINE m == ClearSession(a)
<1>1. a \in App /\ Numbers(a)
  BY DEF Sound
<1>2. /\ m \in App /\ Blank(m) /\ m.aggSeq = a.aggSeq + 1
      /\ m.aggFloor = a.aggFloor /\ m.gen = a.gen /\ m.tabReq = a.tabReq
      /\ m.prefetchSeq = a.prefetchSeq /\ m.flight = a.flight
  BY <1>1, ClearFields
<1>3. b = [m EXCEPT !.gen = @ + 1, !.aggFloor = m.aggSeq, !.prefetchCluster = None,
                    !.prefetchSeq = @ + 1, !.tabReq = @ + 1]
  BY DEF EnterProfile
<1> HIDE DEF m
<1> DEFINE g == m.gen + 1
           p == m.prefetchSeq + 1
           r == m.tabReq + 1
           s == m.aggSeq
<1>4. g \in Nat /\ p \in Nat /\ r \in Nat /\ s \in Nat
  BY <1>2, AppTypes
<1>5. b = [m EXCEPT !.gen = g, !.aggFloor = s, !.prefetchCluster = None,
                    !.prefetchSeq = p, !.tabReq = r]
  BY <1>3
<1> HIDE DEF g, p, r, s
<1>6. b \in App
  BY <1>2, <1>4, <1>5, EnterType
<1>7. /\ b.gen = g /\ b.aggFloor = s /\ b.prefetchSeq = p /\ b.tabReq = r
      /\ b.aggSeq = m.aggSeq /\ b.flight = m.flight
      /\ b.selected = m.selected /\ b.aggOn = m.aggOn /\ b.loading = m.loading
      /\ b.rows = m.rows /\ SameTabs(m, b)
  BY <1>2, <1>5 DEF App, SameTabs
<1>8. Blank(b)
  BY <1>2, <1>7 DEF Blank, SameTabs
<1>9. /\ a.aggSeq \in Nat /\ a.gen \in Nat /\ a.prefetchSeq \in Nat /\ a.tabReq \in Nat
      /\ b.aggSeq = a.aggSeq + 1 /\ b.aggFloor = a.aggSeq + 1 /\ b.gen = a.gen + 1
      /\ b.prefetchSeq = a.prefetchSeq + 1 /\ b.tabReq = a.tabReq + 1 /\ b.flight = a.flight
  BY <1>1, <1>2, <1>7, AppTypes DEF g, p, r, s
<1>10. \A j \in a.flight : JobInv(a, j) /\ j.seq \in Nat /\ j.gen \in Nat
  BY <1>1, AppTypes DEF Numbers, Job
<1>11. Numbers(b)
  BY <1>9, <1>10 DEF Numbers, JobInv
<1>12. Views(b)
  BY <1>8, <1>9, <1>10 DEF Views, JobInv, Blank
<1>13. QED
  BY <1>6, <1>8, <1>11, <1>12 DEF Sound, Age, Blank

LEMMA AskBlankHolds ==
    ASSUME NEW a, Sound(a), Blank(a), NEW sw, NEW mis, NEW res
    PROVE  Holds(AskClusters(a), sw, mis, res)
<1>1. Holds(a, "no", FALSE, FALSE)
  BY BlankHolds
<1>2. QED
  BY <1>1, AskKeeps DEF Holds

-----------------------------------------------------------------------------
(* What the user does.                                                     *)

LEMMA ReloadHolds ==
    ASSUME NEW b, Sound(b), NEW sw, NEW mis, NEW res,
           ~res => Labelled(b) /\ (TabHere(b) \/ ~b.aggOn) /\ WarmHere(b),
           ~res /\ ~mis => Filled(b),
           sw = "no" => switching # "published" /\ (b.selected # None \/ Answered(b))
    PROVE  Holds(ReloadActive(b), sw, mis, res)
<1> DEFINE c == ReloadActive(b)
<1>1. /\ Sound(c) /\ SameSession(b, c) /\ Complete(c)
      /\ Labelled(b) => Labelled(c) /\ RowsLabelled(c)
      /\ Filled(b) => Filled(c)
      /\ TabHere(b) \/ ~b.aggOn => TabHere(c)
      /\ WarmHere(b) => WarmHere(c)
      /\ switching # "published" /\ (b.selected # None \/ Answered(b)) => Answered(c)
  BY ReloadKeeps
<1> HIDE DEF c
<1>2. Holds(c, sw, mis, res)
  BY <1>1 DEF Holds
<1>3. QED
  BY <1>2 DEF c

LEMMA ReloadWarmHolds ==
    ASSUME NEW b, Sound(b), NEW sw, NEW mis, NEW res, NEW warm \in WarmSets(ReloadActive(b)),
           ~res => Labelled(b) /\ (~b.aggOn \/ (TabHere(b) /\ WarmHere(b))),
           ~res /\ ~mis => Filled(b),
           b.selected # None, sw = "no" => switching # "published"
    PROVE  Holds(PrefetchAll(ReloadActive(b), warm), sw, mis, res)
<1> DEFINE c == ReloadActive(b)
           d == PrefetchAll(c, warm)
<1>1. /\ Sound(c) /\ SameSession(b, c) /\ Complete(c)
      /\ Labelled(b) => Labelled(c) /\ RowsLabelled(c)
      /\ Filled(b) => Filled(c)
      /\ TabHere(b) \/ ~b.aggOn => TabHere(c)
      /\ WarmHere(b) => WarmHere(c)
      /\ switching # "published" => Answered(c)
  BY ReloadKeeps
<1>2. warm \in WarmSets(c)
  OBVIOUS
<1> HIDE DEF c
<1>3. /\ Sound(d) /\ d.aggOn = c.aggOn
      /\ Labelled(c) => Labelled(d)
      /\ Filled(c) => Filled(d)
      /\ RowsLabelled(c) => RowsLabelled(d)
      /\ TabHere(c) => TabHere(d)
      /\ ~c.aggOn \/ WarmHere(c) => WarmHere(d)
      /\ Complete(c) => Complete(d)
      /\ Answered(c) => Answered(d)
  BY <1>1, <1>2, PrefetchKeeps
<1>4. c.aggOn = b.aggOn
  BY <1>1 DEF SameSession
<1> HIDE DEF d
<1>5. Holds(d, sw, mis, res)
  BY <1>1, <1>3, <1>4 DEF Holds
<1>6. QED
  BY <1>5 DEF c, d

\* Without a topology the all-clusters view is off, and no slice is awaited.
LEMMA NoSlices == ASSUME NEW a, Sound(a), ~a.aggOn PROVE SlicesOf(a) = {}
  BY DEF Sound, Views, SlicesOf

LEMMA ActFacts ==
    ASSUME IInv, Act, UNCHANGED switching, NotHistory PROVE KindInv'
  BY DEF IInv, KindInv, Act, NotHistory

\* No rows, or the same, under the same profile.
SameRows(a, b) ==
    /\ b.gen = a.gen /\ b.rows \subseteq a.rows
    /\ \A t \in Tab : b.lists[t] = a.lists[t] \/ b.lists[t].is # "rows"
    /\ \A tc \in Tab \X Cluster : b.aggCache[tc] = a.aggCache[tc] \/ b.aggCache[tc] = None

LEMMA EditSound ==
    ASSUME NEW a, Sound(a), NEW b \in App, SameNumbers(a, b), SameRows(a, b), Views(b),
           b.flight \subseteq a.flight
    PROVE  Sound(b)
<1>1. Numbers(b)
  BY NumbersKept DEF Sound
<1>2. Age(b)
  BY DEF Sound, Age, SameRows
<1>3. QED
  BY <1>1, <1>2 DEF Sound

LEMMA PressTabIInv == ASSUME IInv, NEW t \in Tab, PressTab(t) PROVE IInv'
<1> DEFINE b == [app EXCEPT !.tab = t]
           c == [b EXCEPT !.loading = FALSE]
<1>1. Sound(app) /\ app \in App /\ Views(app)
  BY DEF IInv, Holds, Sound
<1>2. /\ b \in App /\ SameNumbers(app, b) /\ SameTabs(app, b) /\ b.rows = app.rows
      /\ b.flight = app.flight /\ b.selected = app.selected /\ b.aggOn = app.aggOn
      /\ b.loading = app.loading
  BY <1>1 DEF App, SameNumbers, SameTabs
<1>3. app' = IF ~b.aggOn /\ Cached(b, t) THEN c ELSE ReloadActive(b)
  BY DEF PressTab, SwitchTab
<1> HIDE DEF b
<1>4. Sound(b)
  BY <1>1, <1>2, EditSound DEF Views, SameRows, SameNumbers, SameTabs
<1>5. /\ ~reselected => Labelled(b) /\ TabHere(b) /\ WarmHere(b)
      /\ ~reselected /\ ~misplaced => Filled(b)
  BY <1>2 DEF IInv, Holds, Labelled, TabHere, WarmHere, Filled, SameTabs, SameNumbers
<1>6. KindInv'
  BY ActFacts DEF PressTab
<1>7. /\ switching' = switching /\ misplaced' = misplaced /\ reselected' = reselected
  BY DEF PressTab, NotHistory
<1>8. CASE ~b.aggOn /\ Cached(b, t)
  <2>1. /\ c \in App /\ SameNumbers(b, c) /\ SameTabs(b, c) /\ c.rows = b.rows
        /\ c.flight = b.flight /\ c.selected = b.selected /\ c.aggOn = b.aggOn
        /\ c.loading = FALSE
    BY <1>4 DEF Sound, App, SameNumbers, SameTabs
  <2> HIDE DEF c
  <2>2. Sound(c)
    BY <1>4, <2>1, EditSound DEF Sound, Views, SameRows, SameNumbers, SameTabs
  <2>3. Holds(c, switching, misplaced, reselected)
    BY <1>5, <1>8, <2>1, <2>2 DEF Holds, Labelled, RowsLabelled, TabHere, WarmHere, Filled,
       Complete, Answered, SameTabs, SameNumbers
  <2>4. QED
    BY <1>3, <1>6, <1>7, <1>8, <2>3 DEF IInv
<1>9. CASE ~(~b.aggOn /\ Cached(b, t))
  <2>1. switching = "no" => b.selected # None \/ Answered(b)
    <3>1. SUFFICES ASSUME switching = "no", b.selected = None PROVE Answered(b)
      OBVIOUS
    <3>2. ~app.aggOn /\ Answered(app)
      BY <1>1, <1>2, <3>1 DEF IInv, Holds, Views
    <3>3. SlicesOf(app) = {}
      BY <1>1, <3>2, NoSlices
    <3>4. QED
      BY <1>2, <3>2, <3>3 DEF Answered, SameNumbers
  <2>2. Holds(ReloadActive(b), switching, misplaced, reselected)
    BY <1>4, <1>5, <2>1, ReloadHolds
  <2>3. QED
    BY <1>3, <1>6, <1>7, <1>9, <2>2 DEF IInv
<1>10. QED
  BY <1>8, <1>9

\* Cache markers and cached slices may be dropped at any time.
LEMMA DropHolds ==
    ASSUME NEW a, NEW sw, NEW mis, NEW res, Holds(a, sw, mis, res),
           NEW keys \in [Tab -> Cluster \cup {None, Admin, NoKey}],
           NEW cache \in [Tab \X Cluster -> Listing \cup {None}],
           \A t \in Tab : keys[t] \in {a.cacheKey[t], NoKey},
           \A tc \in Tab \X Cluster : cache[tc] \in {a.aggCache[tc], None},
           NEW b, b = [a EXCEPT !.cacheKey = keys, !.aggCache = cache]
    PROVE  Holds(b, sw, mis, res)
<1>1. Sound(a) /\ a \in App /\ Views(a)
  BY DEF Holds, Sound
<1>2. /\ b \in App /\ SameNumbers(a, b) /\ b.lists = a.lists /\ b.aggCache = cache
      /\ b.cacheKey = keys /\ b.rows = a.rows /\ b.flight = a.flight
      /\ b.selected = a.selected /\ b.aggOn = a.aggOn /\ b.online = a.online
      /\ b.tab = a.tab /\ b.loading = a.loading /\ b.pending = a.pending
  BY <1>1 DEF App, SameNumbers
<1>3. Sound(b)
  <2>1. Views(b)
    BY <1>1, <1>2 DEF Views, SameNumbers
  <2>2. SameRows(a, b)
    BY <1>2 DEF SameRows, SameNumbers
  <2>3. QED
    BY <1>1, <1>2, <2>1, <2>2, EditSound
<1>4. SlicesOf(b) = SlicesOf(a)
  BY <1>2 DEF SlicesOf, SameNumbers
<1>5. /\ Labelled(a) => Labelled(b)
      /\ Filled(a) => Filled(b)
  BY <1>2 DEF Labelled, Filled, Tab
<1>6. QED
  BY <1>2, <1>3, <1>4, <1>5 DEF Holds, RowsLabelled, TabHere, WarmHere, Complete, Listed,
     Awaited, Answered, SameNumbers

\* ... and the listing on screen asked for again.
LEMMA HoldsReload ==
    ASSUME NEW b, NEW mis, NEW res, Holds(b, switching, mis, res)
    PROVE  Holds(ReloadActive(b), switching, mis, res)
<1>1. switching = "no" => switching # "published" /\ (b.selected # None \/ Answered(b))
  BY DEF Holds
<1>2. QED
  BY <1>1, ReloadHolds DEF Holds

LEMMA InvalidateIInv == ASSUME IInv, NEW t \in Tab, Invalidate(t) PROVE IInv'
<1> DEFINE keys == [app.cacheKey EXCEPT ![t] = NoKey]
           b == [app EXCEPT !.cacheKey[t] = NoKey]
<1>1. app \in App
  BY DEF IInv, Holds, Sound
<1>2. /\ keys \in [Tab -> Cluster \cup {None, Admin, NoKey}]
      /\ \A u \in Tab : keys[u] \in {app.cacheKey[u], NoKey}
  BY <1>1, AppTypes
<1>3. b = [app EXCEPT !.cacheKey = keys, !.aggCache = app.aggCache]
  BY <1>1 DEF App
<1> HIDE DEF keys, b
<1>4. Holds(b, switching, misplaced, reselected)
  BY <1>1, <1>2, <1>3, AppTypes, DropHolds DEF IInv
<1>5. app' = IF b.tab = t THEN ReloadActive(b) ELSE b
  BY DEF Invalidate, InvalidateTab, b
<1>6. Holds(app', switching, misplaced, reselected)
  BY <1>4, <1>5, HoldsReload
<1>7. KindInv' /\ switching' = switching /\ misplaced' = misplaced /\ reselected' = reselected
  BY ActFacts DEF Invalidate, NotHistory
<1>8. QED
  BY <1>6, <1>7 DEF IInv

LEMMA RefreshIInv == ASSUME IInv, Refresh PROVE IInv'
<1> DEFINE keys == [app.cacheKey EXCEPT ![app.tab] = NoKey]
           cache == [tc \in Tab \X Cluster |-> IF tc[1] = app.tab THEN None ELSE app.aggCache[tc]]
           b == [app EXCEPT !.cacheKey[app.tab] = NoKey,
                   !.aggCache = [tc \in Tab \X Cluster |-> IF tc[1] = app.tab THEN None ELSE @[tc]]]
<1>1. app \in App
  BY DEF IInv, Holds, Sound
<1>2. /\ keys \in [Tab -> Cluster \cup {None, Admin, NoKey}]
      /\ \A u \in Tab : keys[u] \in {app.cacheKey[u], NoKey}
  BY <1>1, AppTypes
<1>3. /\ cache \in [Tab \X Cluster -> Listing \cup {None}]
      /\ \A tc \in Tab \X Cluster : cache[tc] \in {app.aggCache[tc], None}
  BY <1>1, AppTypes
<1>4. b = [app EXCEPT !.cacheKey = keys, !.aggCache = cache]
  BY <1>1 DEF App
<1> HIDE DEF keys, cache, b
<1>5. Holds(b, switching, misplaced, reselected)
  BY <1>2, <1>3, <1>4, DropHolds DEF IInv
<1>6. app' = IF app.selected = None THEN AskClusters(app) ELSE ReloadActive(b)
  BY DEF Refresh, b
<1>7. Holds(AskClusters(app), switching, misplaced, reselected)
  BY AskKeeps DEF IInv, Holds
<1>8. Holds(app', switching, misplaced, reselected)
  BY <1>5, <1>6, <1>7, HoldsReload
<1>9. KindInv' /\ switching' = switching /\ misplaced' = misplaced /\ reselected' = reselected
  BY ActFacts DEF Refresh, NotHistory
<1>10. QED
  BY <1>8, <1>9 DEF IInv

LEMMA LoginAgainIInv == ASSUME IInv, NEW c \in Cluster, LoginAgain(c) PROVE IInv'
<1> DEFINE cache == [tc \in Tab \X Cluster |-> IF tc[2] = c THEN None ELSE app.aggCache[tc]]
           b == [app EXCEPT !.aggCache =
                   [tc \in Tab \X Cluster |-> IF tc[2] = c THEN None ELSE @[tc]]]
<1>1. app \in App
  BY DEF IInv, Holds, Sound
<1>2. /\ cache \in [Tab \X Cluster -> Listing \cup {None}]
      /\ \A tc \in Tab \X Cluster : cache[tc] \in {app.aggCache[tc], None}
  BY <1>1, AppTypes
<1>3. b = [app EXCEPT !.cacheKey = app.cacheKey, !.aggCache = cache]
  BY <1>1 DEF App
<1> HIDE DEF cache, b
<1>4. Holds(b, switching, misplaced, reselected)
  BY <1>1, <1>2, <1>3, AppTypes, DropHolds DEF IInv
<1>5. app' = AskClusters(b)
  BY DEF LoginAgain, b
<1>6. Holds(AskClusters(b), switching, misplaced, reselected)
  BY <1>4, AskKeeps DEF Holds
<1>7. KindInv' /\ switching' = switching /\ misplaced' = misplaced /\ reselected' = reselected
  BY ActFacts DEF LoginAgain, NotHistory
<1>8. QED
  BY <1>5, <1>6, <1>7 DEF IInv

LEMMA ShowAllClustersIInv == ASSUME IInv, ShowAllClusters PROVE IInv'
<1> DEFINE b == [app EXCEPT !.aggOn = TRUE]
<1>1. Sound(app) /\ app \in App /\ Views(app) /\ app.selected # None
  BY DEF IInv, Holds, Sound, ShowAllClusters
<1>2. /\ b \in App /\ SameNumbers(app, b) /\ SameTabs(app, b) /\ b.rows = app.rows
      /\ b.flight = app.flight /\ b.selected = app.selected /\ b.aggOn
  BY <1>1 DEF App, SameNumbers, SameTabs
<1>3. app' = ReloadActive(b)
  BY DEF ShowAllClusters
<1> HIDE DEF b
<1>4. Sound(b)
  BY <1>1, <1>2, EditSound DEF Views, SameRows, SameNumbers, SameTabs
<1>5. /\ ~reselected => Labelled(b) /\ TabHere(b) /\ WarmHere(b)
      /\ ~reselected /\ ~misplaced => Filled(b)
  BY <1>2 DEF IInv, Holds, Labelled, TabHere, WarmHere, Filled, SameTabs, SameNumbers
<1>6. Holds(ReloadActive(b), switching, misplaced, reselected)
  BY <1>1, <1>2, <1>4, <1>5, ReloadHolds
<1>7. KindInv' /\ switching' = switching /\ misplaced' = misplaced /\ reselected' = reselected
  BY ActFacts DEF ShowAllClusters, NotHistory
<1>8. QED
  BY <1>3, <1>6, <1>7 DEF IInv

LEMMA SelectScopedClusterIInv ==
    ASSUME IInv, NEW c \in Cluster, SelectScopedCluster(c) PROVE IInv'
<1> DEFINE n == app.aggSeq + 1
           b == [app EXCEPT !.aggOn = FALSE, !.aggSeq = @ + 1, !.selected = c]
<1>1. Sound(app) /\ app \in App /\ Numbers(app)
  BY DEF IInv, Holds, Sound
<1>2. b = [app EXCEPT !.aggOn = FALSE, !.aggSeq = n, !.selected = c]
  OBVIOUS
<1>3. n \in Nat /\ n = app.aggSeq + 1 /\ app.aggSeq \in Nat /\ app.aggFloor \in Nat
  BY <1>1, AppTypes
<1> HIDE DEF n, b
<1>4. PICK warm \in WarmSets(ReloadActive(b)) : app' = PrefetchAll(ReloadActive(b), warm)
  BY DEF SelectScopedCluster, b
<1>5. /\ b \in App /\ ~b.aggOn /\ b.selected = c /\ b.aggSeq = n
      /\ b.gen = app.gen /\ b.aggFloor = app.aggFloor /\ b.tabReq = app.tabReq
      /\ b.prefetchSeq = app.prefetchSeq /\ b.prefetchCluster = app.prefetchCluster
      /\ SameTabs(app, b) /\ b.rows = app.rows /\ b.flight = app.flight
  BY <1>1, <1>2, <1>3 DEF App, SameTabs
<1>6. \A j \in app.flight : JobInv(app, j) /\ j.seq \in Nat
  BY <1>1, AppTypes DEF Numbers, Job
<1>7. Numbers(b)
  BY <1>1, <1>3, <1>5, <1>6 DEF Numbers, JobInv
<1>8. Views(b)
  BY <1>3, <1>5, <1>6 DEF Views, JobInv
<1>9. Sound(b)
  BY <1>1, <1>5, <1>7, <1>8 DEF Sound, Age, SameTabs
<1>10. /\ ~reselected => Labelled(b)
       /\ ~reselected /\ ~misplaced => Filled(b)
  BY <1>5 DEF IInv, Holds, Labelled, Filled, SameTabs
<1>11. b.selected # None /\ (switching = "no" => switching # "published")
  BY <1>5
<1>12. Holds(app', switching, misplaced, reselected)
  <2>1. /\ ~reselected => Labelled(b) /\ (~b.aggOn \/ (TabHere(b) /\ WarmHere(b)))
        /\ ~reselected /\ ~misplaced => Filled(b)
    BY <1>5, <1>10
  <2>3. Holds(PrefetchAll(ReloadActive(b), warm), switching, misplaced, reselected)
    BY <1>9, <1>11, <2>1, ReloadWarmHolds
  <2>2. QED
    BY <1>4, <2>3
<1>13. KindInv' /\ switching' = switching /\ misplaced' = misplaced /\ reselected' = reselected
  BY ActFacts DEF SelectScopedCluster, NotHistory
<1>14. QED
  BY <1>12, <1>13 DEF IInv

LEMMA SessionEndsIInv == ASSUME IInv, SessionEnds PROVE IInv'
<1>1. Sound(ClearSession(app)) /\ Blank(ClearSession(app))
  BY ClearKeeps DEF IInv, Holds
<1>2. Holds(ClearSession(app), switching, misplaced, reselected)
  BY <1>1, BlankHolds
<1>3. KindInv' /\ switching' = switching /\ misplaced' = misplaced /\ reselected' = reselected
  BY ActFacts DEF SessionEnds, NotHistory
<1>4. app' = ClearSession(app)
  BY DEF SessionEnds
<1>5. QED
  BY <1>2, <1>3, <1>4 DEF IInv

LEMMA ProfileLoginIInv == ASSUME IInv, ProfileLogin PROVE IInv'
<1>1. Sound(EnterProfile(app)) /\ Blank(EnterProfile(app))
  BY EnterKeeps DEF IInv, Holds
<1>2. Holds(AskClusters(EnterProfile(app)), switching, misplaced, reselected)
  BY <1>1, AskBlankHolds
<1>3. KindInv' /\ switching' = switching /\ misplaced' = misplaced /\ reselected' = reselected
  BY ActFacts DEF ProfileLogin, NotHistory
<1>4. app' = AskClusters(EnterProfile(app))
  BY DEF ProfileLogin
<1>5. QED
  BY <1>2, <1>3, <1>4 DEF IInv

\* The loading flag alone.
LEMMA LoadingFields ==
    ASSUME NEW a, Sound(a), NEW l \in BOOLEAN, NEW b, b = [a EXCEPT !.loading = l]
    PROVE  /\ Sound(b) /\ b.loading = l
           /\ SlicesOf(b) = SlicesOf(a) /\ b.flight = a.flight /\ b.tabReq = a.tabReq
           /\ Labelled(a) => Labelled(b)
           /\ Filled(a) => Filled(b)
           /\ RowsLabelled(a) => RowsLabelled(b)
           /\ TabHere(a) => TabHere(b)
           /\ WarmHere(a) => WarmHere(b)
           /\ Complete(a) => Complete(b)
<1>1. a \in App /\ Views(a)
  BY DEF Sound
<1>2. /\ b \in App /\ SameNumbers(a, b) /\ SameTabs(a, b) /\ b.rows = a.rows
      /\ b.flight = a.flight /\ b.selected = a.selected /\ b.aggOn = a.aggOn
      /\ b.tab = a.tab /\ b.online = a.online /\ b.pending = a.pending /\ b.loading = l
  BY <1>1 DEF App, SameNumbers, SameTabs
<1>3. Sound(b)
  <2>1. Views(b)
    BY <1>1, <1>2 DEF Views, SameNumbers
  <2>2. SameRows(a, b)
    BY <1>2 DEF SameRows, SameNumbers, SameTabs
  <2>3. QED
    BY <1>1, <1>2, <2>1, <2>2, EditSound
<1>4. SlicesOf(b) = SlicesOf(a)
  BY <1>2 DEF SlicesOf, SameNumbers
<1>5. QED
  BY <1>2, <1>3, <1>4 DEF Labelled, RowsLabelled, TabHere, WarmHere, Filled, Complete, Listed,
     Awaited, SameTabs, SameNumbers

LEMMA ChooseProfileIInv == ASSUME IInv, ChooseProfile PROVE IInv'
<1>1. /\ app' = [app EXCEPT !.loading = TRUE] /\ switching = "no" /\ switching' = "running"
      /\ misplaced' = misplaced /\ reselected' = reselected
  BY DEF ChooseProfile, NotHistory
<1>2. Holds(app', "running", misplaced, reselected)
  BY <1>1, LoadingFields DEF IInv, Holds
<1>3. KindInv'
  BY <1>1 DEF IInv, KindInv, ChooseProfile, Act
<1>4. QED
  BY <1>1, <1>2, <1>3 DEF IInv

LEMMA PublishSwitchIInv == ASSUME IInv, PublishSwitch PROVE IInv'
  BY DEF IInv, KindInv, Holds, PublishSwitch, NotHistory

LEMMA ProfileSwitchedIInv == ASSUME IInv, ProfileSwitched PROVE IInv'
<1> DEFINE a == [app EXCEPT !.loading = FALSE]
<1>1. /\ switching' = "no" /\ switching # "no" /\ acts' = acts
      /\ misplaced' = misplaced /\ reselected' = reselected
      /\ \/ switching = "running" /\ app' = a
         \/ app' = AskClusters(EnterProfile(a))
  BY DEF ProfileSwitched, NotHistory
<1>2. KindInv'
  BY <1>1 DEF IInv, KindInv
<1>3. Sound(app)
  BY DEF IInv, Holds
<1>4. /\ Sound(a) /\ ~a.loading
      /\ Labelled(app) => Labelled(a)
      /\ Filled(app) => Filled(a)
      /\ RowsLabelled(app) => RowsLabelled(a)
      /\ TabHere(app) => TabHere(a)
      /\ WarmHere(app) => WarmHere(a)
      /\ Complete(app) => Complete(a)
  BY <1>3, LoadingFields
<1> HIDE DEF a
<1>5. CASE switching = "running" /\ app' = a
  <2>1. Holds(a, "no", misplaced, reselected)
    BY <1>4, <1>5 DEF IInv, Holds, Answered
  <2>2. QED
    BY <1>1, <1>2, <1>5, <2>1 DEF IInv
<1>6. CASE app' = AskClusters(EnterProfile(a))
  <2>1. Sound(EnterProfile(a)) /\ Blank(EnterProfile(a))
    BY <1>4, EnterKeeps
  <2>2. Holds(app', "no", misplaced, reselected)
    BY <1>6, <2>1, AskBlankHolds
  <2>3. QED
    BY <1>1, <1>2, <2>2 DEF IInv
<1>7. QED
  BY <1>1, <1>5, <1>6

-----------------------------------------------------------------------------
(* What lands.                                                             *)

LEMMA LandedFields ==
    ASSUME NEW j \in app.flight, Sound(app), NEW b, b = Landed(j)
    PROVE  /\ b \in App /\ Sound(b) /\ SameNumbers(app, b) /\ SameTabs(app, b)
           /\ b.rows = app.rows /\ b.selected = app.selected /\ b.aggOn = app.aggOn
           /\ b.tab = app.tab /\ b.online = app.online /\ b.pending = app.pending
           /\ b.loading = app.loading /\ b.flight = app.flight \ {j}
<1> DEFINE rest == app.flight \ {j}
<1>1. app \in App /\ Views(app)
  BY DEF Sound
<1>2. rest \in SUBSET Job
  BY <1>1, AppTypes
<1>3. b = [app EXCEPT !.flight = rest]
  BY DEF Landed
<1> HIDE DEF rest
<1>4. /\ b \in App /\ SameNumbers(app, b) /\ SameTabs(app, b)
      /\ b.rows = app.rows /\ b.selected = app.selected /\ b.aggOn = app.aggOn
      /\ b.tab = app.tab /\ b.online = app.online /\ b.pending = app.pending
      /\ b.loading = app.loading /\ b.flight = rest
  BY <1>1, <1>2, <1>3 DEF App, SameNumbers, SameTabs
<1>5. Views(b) /\ SameRows(app, b) /\ b.flight \subseteq app.flight
  BY <1>1, <1>4 DEF Views, SameRows, SameNumbers, SameTabs, rest
<1>6. Sound(b)
  BY <1>4, <1>5, EditSound
<1>7. QED
  BY <1>4, <1>6 DEF rest

\* A job whose landing the view does not wait for.
Unawaited(j) ==
    /\ j \notin SlicesOf(app)
    /\ ~(j.kind = "tab" /\ j.seq = app.tabReq)

LEMMA LandedHolds ==
    ASSUME IInv, NEW j \in app.flight, NEW sw, NEW mis, NEW res,
           reselected => res, misplaced => mis,
           sw # "published" => switching # "published" /\ j \notin SlicesOf(app),
           sw = "no" => switching = "no" /\ Unawaited(j)
    PROVE  Holds(Landed(j), sw, mis, res)
<1> DEFINE b == Landed(j)
<1>1. Sound(app)
  BY DEF IInv, Holds
<1>2. /\ Sound(b) /\ SameNumbers(app, b) /\ SameTabs(app, b)
      /\ b.rows = app.rows /\ b.selected = app.selected /\ b.aggOn = app.aggOn
      /\ b.tab = app.tab /\ b.online = app.online /\ b.pending = app.pending
      /\ b.loading = app.loading /\ b.flight = app.flight \ {j}
  BY <1>1, LandedFields
<1> HIDE DEF b
<1>3. /\ Labelled(app) => Labelled(b)
      /\ Filled(app) => Filled(b)
      /\ RowsLabelled(app) => RowsLabelled(b)
      /\ TabHere(app) => TabHere(b)
      /\ WarmHere(app) => WarmHere(b)
  BY <1>2 DEF Labelled, RowsLabelled, TabHere, WarmHere, Filled, SameTabs, SameNumbers
<1>4. j \notin SlicesOf(app) => SlicesOf(b) = SlicesOf(app)
  BY <1>2 DEF SlicesOf, SameNumbers
<1>5. sw # "published" => Complete(b)
  BY <1>2, <1>4 DEF IInv, Holds, Complete, Listed, Awaited
<1>6. sw = "no" => Answered(b)
  BY <1>2, <1>4 DEF IInv, Holds, Answered, Unawaited, SameNumbers
<1>7. Holds(b, sw, mis, res)
  BY <1>2, <1>3, <1>5, <1>6 DEF IInv, Holds
<1>8. QED
  BY <1>7 DEF b

LEMMA SkipIInv == ASSUME IInv, NEW j \in app.flight, Skip(j) PROVE IInv'
<1>1. Sound(app) /\ app \in App /\ Numbers(app)
  BY DEF IInv, Holds, Sound
<1>2. JobInv(app, j) /\ app.aggFloor <= app.aggSeq /\ app.aggSeq \in Nat /\ app.aggFloor \in Nat
  BY <1>1, AppTypes DEF Numbers
<1>3. switching # "published" => j \notin SlicesOf(app)
  BY <1>2 DEF Skip, SlicesOf, JobInv
<1>4. switching # "published" => ~(j.kind = "tab" /\ j.seq = app.tabReq)
  BY <1>2 DEF Skip, JobInv
<1>5. Holds(Landed(j), switching, misplaced, reselected)
  BY <1>3, <1>4, LandedHolds DEF Unawaited
<1>6. /\ app' = Landed(j) /\ switching' = switching /\ acts' = acts
      /\ misplaced' = misplaced /\ reselected' = reselected
  BY DEF Skip, NotHistory
<1>7. QED
  BY <1>5, <1>6 DEF IInv, KindInv

\* A result's rows are of the cluster the job was sent for, read under the
\* profile it was sent under or the next.
LEMMA ResultFacts ==
    ASSUME IInv, NEW j \in app.flight, NEW from \in Results(j)
    PROVE  /\ from \in Listing
           /\ from.is = "rows" => from.cluster = j.cluster /\ from.gen >= j.gen
           /\ (from = Failed) = (from.is # "rows")
<1>1. app \in App /\ Numbers(app) /\ j \in Job /\ JobInv(app, j)
  BY AppTypes DEF IInv, Holds, Sound, Numbers
<1>2. app.gen \in Nat /\ j.gen \in Nat /\ j.gen <= app.gen /\ j.cluster \in Cluster \cup {None}
  BY <1>1, AppTypes DEF JobInv, Job
<1>3. CASE from = Failed
  BY <1>3, ListingTypes
<1>4. CASE \E g \in ReadUnder(j) : from = RowsOf(j.cluster, g)
  <2>1. PICK g \in ReadUnder(j) : from = RowsOf(j.cluster, g)
    BY <1>4
  <2>2. g \in Nat /\ g >= j.gen
    BY <1>2 DEF ReadUnder
  <2>3. from \in Listing /\ from.is = "rows" /\ from.cluster = j.cluster /\ from.gen = g
    BY <1>2, <2>1, <2>2, ListingTypes
  <2>4. QED
    BY <2>2, <2>3, ListingTypes
<1>5. QED
  BY <1>3, <1>4 DEF Results

\* Listings none of which was read for an older profile.
NotOlder(a, lists) == \A t \in Tab : lists[t].is = "rows" => lists[t].gen >= a.gen

\* A listing lands in the scoped tables of a session.
Lands(a, b) ==
    /\ Sound(b) /\ SameNumbers(a, b) /\ b.flight = a.flight
    /\ b.aggCache = a.aggCache /\ SlicesOf(b) = SlicesOf(a)
    /\ RowsLabelled(a) => RowsLabelled(b)
    /\ TabHere(a) => TabHere(b)
    /\ WarmHere(a) => WarmHere(b)
    /\ Complete(a) => Complete(b)

LEMMA ListingLands ==
    ASSUME NEW a, Sound(a), NEW lists \in [Tab -> Listing],
           NEW keys \in [Tab -> Cluster \cup {None, Admin, NoKey}], NotOlder(a, lists),
           NEW l \in BOOLEAN,
           NEW b, b = [a EXCEPT !.loading = l, !.lists = lists, !.cacheKey = keys]
    PROVE  Lands(a, b)
<1>1. a \in App /\ Views(a) /\ Numbers(a) /\ Age(a)
  BY DEF Sound
<1>2. /\ b \in App /\ SameNumbers(a, b) /\ b.lists = lists /\ b.cacheKey = keys
      /\ b.aggCache = a.aggCache /\ b.rows = a.rows
      /\ b.flight = a.flight /\ b.selected = a.selected /\ b.aggOn = a.aggOn
      /\ b.tab = a.tab /\ b.online = a.online /\ b.pending = a.pending
  BY <1>1 DEF App, SameNumbers
<1>3. Numbers(b)
  BY <1>1, <1>2, NumbersKept
<1>4. Views(b) /\ Age(b)
  BY <1>1, <1>2 DEF Views, Age, SameNumbers, NotOlder
<1>5. SlicesOf(b) = SlicesOf(a)
  BY <1>2 DEF SlicesOf, SameNumbers
<1>6. QED
  BY <1>2, <1>3, <1>4, <1>5 DEF Lands, Sound, RowsLabelled, TabHere, WarmHere, Complete, Listed,
     Awaited, SameNumbers

\* Until it is known whether the spinner is answered, the switch may be under way.
Unanswered == IF switching = "no" THEN "running" ELSE switching

LEMMA ApplyTabIInv ==
    ASSUME IInv, NEW j \in app.flight, j.kind = "tab", ApplyListing(j) PROVE IInv'
<1> DEFINE a == Landed(j)
<1>1. PICK from \in Results(j) :
        /\ app' = ApplyTab(a, j, from)
        /\ misplaced' = (misplaced \/ (j.kind = "tab" /\ from = Failed
                                        /\ j.seq = app.tabReq /\ j.tab # app.tab))
  BY DEF ApplyListing
<1>2. switching' = switching /\ acts' = acts /\ reselected' = reselected
  BY DEF ApplyListing
<1>3. KindInv'
  BY <1>1, <1>2 DEF IInv, KindInv
<1>4. Sound(app) /\ app \in App /\ Numbers(app)
  BY DEF IInv, Holds, Sound
<1>5. /\ a \in App /\ Sound(a) /\ SameNumbers(app, a) /\ SameTabs(app, a)
      /\ a.selected = app.selected /\ a.tab = app.tab
  BY <1>4, LandedFields
<1>6. (misplaced => misplaced') /\ j \notin SlicesOf(app)
  BY <1>1 DEF SlicesOf
<1>7. Holds(a, Unanswered, misplaced', reselected)
  BY <1>6, LandedHolds DEF Unanswered
<1>8. /\ from \in Listing
      /\ from.is = "rows" => from.cluster = j.cluster /\ from.gen >= j.gen
      /\ (from = Failed) = (from.is # "rows")
  BY ResultFacts
<1> DEFINE lists == IF from = Failed THEN [a.lists EXCEPT ![a.tab] = Cleared]
                    ELSE [a.lists EXCEPT ![j.tab] = from]
           keys == IF from = Failed THEN [a.cacheKey EXCEPT ![j.tab] = NoKey]
                   ELSE [a.cacheKey EXCEPT ![j.tab] = Key(a, j.tab)]
           b == [a EXCEPT !.loading = FALSE, !.lists = lists, !.cacheKey = keys]
<1>9. CASE j.seq # app.tabReq
  <2>1. app' = a
    BY <1>1, <1>5, <1>9 DEF ApplyTab, SameNumbers
  <2>2. Unawaited(j)
    BY <1>6, <1>9 DEF Unawaited
  <2>3. Holds(a, switching, misplaced', reselected)
    BY <1>6, <2>2, LandedHolds
  <2>4. QED
    BY <1>2, <1>3, <2>1, <2>3 DEF IInv
<1>10. CASE j.seq = app.tabReq
  <2>1. j \in Job /\ j.tab \in Tab /\ a.tab \in Tab /\ JobInv(app, j)
    BY <1>4, <1>5, AppTypes DEF Numbers, Job
  <2>2. /\ a.lists \in [Tab -> Listing]
        /\ a.cacheKey \in [Tab -> Cluster \cup {None, Admin, NoKey}]
        /\ a.selected \in Cluster \cup {None}
    BY <1>5, AppTypes
  <2>3. Key(a, j.tab) \in Cluster \cup {None, Admin, NoKey}
    BY <2>2 DEF Key
  <2>4. app' = b
    <3>1. app' = IF from = Failed
                 THEN [a EXCEPT !.loading = FALSE, !.lists[a.tab] = Cleared,
                                !.cacheKey[j.tab] = NoKey]
                 ELSE [a EXCEPT !.loading = FALSE, !.lists[j.tab] = from,
                                !.cacheKey[j.tab] = Key(a, j.tab)]
      BY <1>1, <1>5, <1>10 DEF ApplyTab, SameNumbers
    <3>2. QED
      BY <1>5, <3>1 DEF App
  <2>5. lists \in [Tab -> Listing] /\ keys \in [Tab -> Cluster \cup {None, Admin, NoKey}]
    BY <1>8, <2>1, <2>2, <2>3, ListingTypes
  <2>6. \A t \in Tab :
            \/ from = Failed /\ t = a.tab /\ lists[t] = Cleared
            \/ from # Failed /\ t = j.tab /\ lists[t] = from
            \/ lists[t] = a.lists[t] /\ ~(from = Failed /\ t = a.tab)
                                     /\ ~(from # Failed /\ t = j.tab)
    BY <2>1, <2>2
  <2>7. \A t \in Tab :
            keys[t] = IF t # j.tab THEN a.cacheKey[t]
                      ELSE IF from = Failed THEN NoKey ELSE Key(a, j.tab)
    BY <2>1, <2>2
  <2> DEFINE off == FALSE
  <2>16. b = [a EXCEPT !.loading = off, !.lists = lists, !.cacheKey = keys] /\ off \in BOOLEAN
    OBVIOUS
  <2>17. off = FALSE
    OBVIOUS
  <2> HIDE DEF lists, keys, b, a, off
  <2>8. j.gen = app.gen /\ a.gen = app.gen
    BY <1>5, <1>10, <2>1 DEF JobInv, SameNumbers
  <2>9. NotOlder(a, lists)
    BY <1>5, <1>8, <2>6, <2>8, ListingTypes DEF Sound, Age, NotOlder
  <2>10. Lands(a, b)
    BY <1>5, <2>5, <2>9, <2>16, ListingLands
  <2>18. b.lists = lists /\ b.cacheKey = keys /\ ~b.loading
    BY <1>5, <2>16, <2>17 DEF App
  <2>11. ~reselected /\ j.tab \in ScopedTab /\ Key(a, j.tab) \in Cluster =>
            Key(a, j.tab) = j.cluster
    <3>1. j.tab \in ScopedTab => Key(a, j.tab) = app.selected
      BY <1>5 DEF Key
    <3>2. ~reselected /\ app.selected # None /\ j.tab \in ScopedTab => j.cluster = app.selected
      BY <1>10 DEF IInv, Holds, TabHere
    <3>3. QED
      BY <3>1, <3>2
  <2>12. ~reselected => Labelled(b)
    <3>1. SUFFICES ASSUME ~reselected PROVE Labelled(b)
      OBVIOUS
    <3>2. Labelled(a)
      BY <1>7, <3>1 DEF Holds
    <3>3. ASSUME NEW t \in ScopedTab, keys[t] \in Cluster, lists[t].is = "rows"
          PROVE  lists[t].cluster = keys[t]
      <4>1. t \in Tab
        BY DEF Tab
      <4>2. CASE t # j.tab
        BY <2>6, <2>7, <3>2, <3>3, <4>1, <4>2, ListingTypes DEF Labelled
      <4>3. CASE t = j.tab
        BY <1>8, <2>6, <2>7, <2>11, <3>1, <3>3, <4>1, <4>3, ListingTypes
      <4>4. QED
        BY <4>2, <4>3
    <3>4. QED
      BY <2>10, <2>18, <3>2, <3>3 DEF Labelled, Lands
  <2>13. ~reselected /\ ~misplaced' => Filled(b)
    <3>1. SUFFICES ASSUME ~reselected, ~misplaced' PROVE Filled(b)
      OBVIOUS
    <3>2. Filled(a) /\ (from = Failed => j.tab = a.tab)
      BY <1>1, <1>5, <1>7, <1>10, <3>1 DEF Holds
    <3>3. ASSUME NEW t \in ScopedTab, keys[t] \in Cluster PROVE lists[t].is = "rows"
      <4>1. t \in Tab
        BY DEF Tab
      <4>2. CASE t # j.tab
        BY <2>6, <2>7, <3>2, <3>3, <4>1, <4>2 DEF Filled
      <4>3. CASE t = j.tab
        <5>1. from # Failed
          BY <2>7, <3>3, <4>1, <4>3
        <5>2. QED
          BY <1>8, <2>6, <4>1, <4>3, <5>1
      <4>4. QED
        BY <4>2, <4>3
    <3>4. QED
      BY <2>18, <3>3 DEF Filled
  <2>14. Holds(b, switching, misplaced', reselected)
    BY <1>7, <2>10, <2>12, <2>13, <2>18 DEF Holds, Unanswered, Answered, Lands
  <2>15. QED
    BY <1>2, <1>3, <2>4, <2>14 DEF IInv
<1>11. QED
  BY <1>9, <1>10

LEMMA ApplyPrefetchIInv ==
    ASSUME IInv, NEW j \in app.flight, j.kind = "prefetch", ApplyListing(j) PROVE IInv'
<1> DEFINE a == Landed(j)
<1>1. PICK from \in Results(j) : app' = ApplyPrefetch(a, j, from)
  BY DEF ApplyListing
<1>2. /\ switching' = switching /\ acts' = acts /\ reselected' = reselected
      /\ misplaced' = misplaced
  BY DEF ApplyListing, IInv, KindInv
<1>3. KindInv'
  BY <1>2 DEF IInv, KindInv
<1>4. Sound(app) /\ app \in App /\ Numbers(app)
  BY DEF IInv, Holds, Sound
<1>5. /\ a \in App /\ Sound(a) /\ SameNumbers(app, a) /\ SameTabs(app, a)
      /\ a.selected = app.selected /\ a.tab = app.tab
  BY <1>4, LandedFields
<1>6. Unawaited(j)
  BY DEF Unawaited, SlicesOf
<1>7. Holds(a, switching, misplaced, reselected)
  BY <1>6, LandedHolds DEF Unawaited
<1>8. /\ from \in Listing
      /\ from.is = "rows" => from.cluster = j.cluster /\ from.gen >= j.gen
      /\ (from = Failed) = (from.is # "rows")
  BY ResultFacts
<1> DEFINE lists == IF from = Failed THEN a.lists ELSE [a.lists EXCEPT ![j.tab] = from]
           keys == IF from = Failed THEN a.cacheKey
                   ELSE [a.cacheKey EXCEPT ![j.tab] = Key(a, j.tab)]
           l == IF j.tab = a.tab THEN FALSE ELSE a.loading
           b == [a EXCEPT !.loading = l, !.lists = lists, !.cacheKey = keys]
<1>9. CASE j.seq # app.prefetchSeq
  <2>1. app' = a
    BY <1>1, <1>5, <1>9 DEF ApplyPrefetch, SameNumbers
  <2>2. QED
    BY <1>2, <1>3, <1>7, <2>1 DEF IInv
<1>10. CASE j.seq = app.prefetchSeq
  <2>1. j \in Job /\ j.tab \in Tab /\ JobInv(app, j)
    BY <1>4, AppTypes DEF Numbers, Job
  <2>2. /\ a.lists \in [Tab -> Listing]
        /\ a.cacheKey \in [Tab -> Cluster \cup {None, Admin, NoKey}]
        /\ a.selected \in Cluster \cup {None} /\ a.loading \in BOOLEAN
    BY <1>5, AppTypes
  <2>3. Key(a, j.tab) \in Cluster \cup {None, Admin, NoKey}
    BY <2>2 DEF Key
  <2>4. app' = b
    <3> DEFINE m == IF from = Failed THEN a
                    ELSE [a EXCEPT !.lists[j.tab] = from, !.cacheKey[j.tab] = Key(a, j.tab)]
    <3>1. app' = IF j.tab = m.tab THEN [m EXCEPT !.loading = FALSE] ELSE m
      BY <1>1, <1>5, <1>10 DEF ApplyPrefetch, SameNumbers
    <3>2. m = [a EXCEPT !.lists = lists, !.cacheKey = keys]
      BY <1>5 DEF App
    <3> HIDE DEF m, lists, keys
    <3>3. m.tab = a.tab
      BY <1>5, <3>2 DEF App
    <3>4. CASE j.tab = a.tab
      BY <1>5, <3>1, <3>2, <3>3, <3>4 DEF App
    <3>5. CASE j.tab # a.tab
      BY <1>5, <3>1, <3>2, <3>3, <3>5 DEF App
    <3>6. QED
      BY <3>4, <3>5
  <2>5. lists \in [Tab -> Listing] /\ keys \in [Tab -> Cluster \cup {None, Admin, NoKey}]
    BY <1>8, <2>1, <2>2, <2>3
  <2>6. \A t \in Tab :
            IF from # Failed /\ t = j.tab
            THEN lists[t] = from /\ keys[t] = Key(a, j.tab)
            ELSE lists[t] = a.lists[t] /\ keys[t] = a.cacheKey[t]
    BY <2>1, <2>2
  <2>7. l \in BOOLEAN /\ (l => a.loading)
    BY <2>2
  <2>8. b = [a EXCEPT !.loading = l, !.lists = lists, !.cacheKey = keys]
    OBVIOUS
  <2> HIDE DEF lists, keys, b, a, l
  <2>9. j.gen = app.gen /\ a.gen = app.gen
    BY <1>5, <1>10, <2>1 DEF JobInv, SameNumbers
  <2>10. NotOlder(a, lists)
    BY <1>5, <1>8, <2>6, <2>9 DEF Sound, Age, NotOlder
  <2>11. Lands(a, b)
    BY <1>5, <2>5, <2>7, <2>8, <2>10, ListingLands
  <2>12. b.lists = lists /\ b.cacheKey = keys /\ (b.loading => a.loading)
    BY <1>5, <2>7, <2>8 DEF App
  <2>13. ~reselected /\ j.tab \in ScopedTab /\ Key(a, j.tab) \in Cluster =>
            Key(a, j.tab) = j.cluster
    <3>1. j.tab \in ScopedTab => Key(a, j.tab) = app.selected /\ j.cluster = app.prefetchCluster
      BY <1>5, <1>10, <2>1 DEF Key, JobInv
    <3>2. ~reselected /\ app.selected # None => app.prefetchCluster = app.selected
      BY DEF IInv, Holds, WarmHere
    <3>3. QED
      BY <3>1, <3>2
  <2>14. ~reselected => Labelled(b)
    <3>1. SUFFICES ASSUME ~reselected PROVE Labelled(b)
      OBVIOUS
    <3>2. Labelled(a)
      BY <1>7, <3>1 DEF Holds
    <3>3. ASSUME NEW t \in ScopedTab, keys[t] \in Cluster, lists[t].is = "rows"
          PROVE  lists[t].cluster = keys[t]
      <4>1. t \in Tab
        BY DEF Tab
      <4>2. CASE from # Failed /\ t = j.tab
        BY <1>8, <2>6, <2>13, <3>1, <3>3, <4>1, <4>2
      <4>3. CASE ~(from # Failed /\ t = j.tab)
        BY <2>6, <3>2, <3>3, <4>1, <4>3 DEF Labelled
      <4>4. QED
        BY <4>2, <4>3
    <3>4. QED
      BY <2>11, <2>12, <3>2, <3>3 DEF Labelled, Lands
  <2>15. ~reselected /\ ~misplaced => Filled(b)
    <3>1. SUFFICES ASSUME Filled(a) PROVE Filled(b)
      BY <1>7 DEF Holds
    <3>2. ASSUME NEW t \in ScopedTab, keys[t] \in Cluster PROVE lists[t].is = "rows"
      BY <1>8, <2>6, <3>1, <3>2 DEF Filled, Tab
    <3>3. QED
      BY <2>12, <3>2 DEF Filled
  <2>16. Answered(a) => Answered(b)
    BY <2>11, <2>12 DEF Answered, Lands, SameNumbers
  <2>17. Holds(b, switching, misplaced, reselected)
    BY <1>7, <2>11, <2>14, <2>15, <2>16 DEF Holds, Lands
  <2>18. QED
    BY <1>2, <1>3, <2>4, <2>17 DEF IInv
<1>11. QED
  BY <1>9, <1>10

\* A cache that has taken slices, of this profile and each for its cluster.
Takes(a, cache) ==
    \A tc \in Tab \X Cluster :
        \/ cache[tc] = a.aggCache[tc]
        \/ cache[tc].is = "rows" => cache[tc].gen >= a.gen /\ cache[tc].cluster = tc[2]

\* All of the view is the same, but for the cache.
SameView(a, b) ==
    /\ SameNumbers(a, b) /\ b.rows = a.rows /\ b.flight = a.flight
    /\ b.aggOn = a.aggOn /\ b.online = a.online
    /\ b.tab = a.tab /\ b.loading = a.loading /\ b.pending = a.pending

LEMMA CacheHolds ==
    ASSUME NEW a, NEW sw, NEW mis, NEW res, Holds(a, sw, mis, res),
           NEW cache \in [Tab \X Cluster -> Listing \cup {None}], Takes(a, cache),
           NEW b, b = [a EXCEPT !.aggCache = cache]
    PROVE  Holds(b, sw, mis, res) /\ SameView(a, b)
<1>1. Sound(a) /\ a \in App /\ Views(a) /\ Numbers(a) /\ Age(a)
  BY DEF Holds, Sound
<1>2. /\ b \in App /\ SameNumbers(a, b) /\ b.lists = a.lists /\ b.aggCache = cache
      /\ b.cacheKey = a.cacheKey /\ b.rows = a.rows /\ b.flight = a.flight
      /\ b.selected = a.selected /\ b.aggOn = a.aggOn /\ b.online = a.online
      /\ b.tab = a.tab /\ b.loading = a.loading /\ b.pending = a.pending
  BY <1>1 DEF App, SameNumbers
<1>3. Numbers(b)
  BY <1>1, <1>2, NumbersKept
<1>4. Views(b)
  BY <1>1, <1>2 DEF Views, SameNumbers
<1>5. Age(b)
  <2>1. \A tc \in Tab \X Cluster :
            cache[tc] # None /\ cache[tc].is = "rows" => cache[tc].gen >= a.gen
    BY <1>1 DEF Age, Takes
  <2>2. QED
    BY <1>1, <1>2, <2>1 DEF Age, SameNumbers
<1>6. SlicesOf(b) = SlicesOf(a)
  BY <1>2 DEF SlicesOf, SameNumbers
<1>7. Labelled(a) => Labelled(b)
  <2>1. SUFFICES ASSUME Labelled(a) PROVE Labelled(b)
    OBVIOUS
  <2>2. ASSUME NEW t \in ScopedTab, NEW c \in Cluster,
               cache[<<t, c>>] # None, cache[<<t, c>>].is = "rows"
        PROVE  cache[<<t, c>>].cluster = c
    <3>1. <<t, c>> \in Tab \X Cluster /\ <<t, c>>[2] = c
      BY DEF Tab
    <3>2. QED
      BY <2>1, <2>2, <3>1 DEF Labelled, Takes
  <2>3. QED
    BY <1>2, <2>1, <2>2 DEF Labelled
<1>8. Holds(b, sw, mis, res)
  BY <1>2, <1>3, <1>4, <1>5, <1>6, <1>7 DEF Holds, Sound, Filled, RowsLabelled, TabHere,
     WarmHere, Complete, Listed, Awaited, Answered, SameNumbers
<1>9. QED
  BY <1>2, <1>8 DEF SameView

\* The slice a fan-out on screen was waiting for, and the one row it adds.
RowOf(j, from) == [cluster |-> j.cluster, from |-> from]

Arrived(b, j, from) ==
    /\ b.aggOn = app.aggOn /\ b.online = app.online /\ SlicesOf(b) = SlicesOf(app) \ {j}
    /\ b.pending = IF app.pending = 0 THEN 0 ELSE app.pending - 1
    /\ b.rows = app.rows \cup {RowOf(j, from)}
    /\ b.loading => app.pending > 1

LEMMA SliceArrives ==
    ASSUME IInv, NEW j \in SlicesOf(app), NEW from, NEW b, Arrived(b, j, from),
           switching # "published"
    PROVE  Complete(b) /\ Answered(b)
<1> DEFINE r == RowOf(j, from)
<1>0. /\ b.aggOn = app.aggOn /\ b.online = app.online /\ SlicesOf(b) = SlicesOf(app) \ {j}
      /\ b.pending = IF app.pending = 0 THEN 0 ELSE app.pending - 1
      /\ b.rows = app.rows \cup {r}
      /\ b.loading => app.pending > 1
  BY DEF Arrived
<1>1. app \in App /\ Numbers(app) /\ Views(app) /\ j \in app.flight /\ Complete(app)
  BY DEF IInv, Holds, Sound, SlicesOf
<1>2. app.aggOn
  BY <1>1 DEF Views, SlicesOf
<1>3. /\ app.pending = Cardinality(SlicesOf(app))
      /\ Listed(app) \cap Awaited(app) = {} /\ Listed(app) \cup Awaited(app) = app.online
      /\ IsFiniteSet(app.rows) /\ IsFiniteSet(SlicesOf(app))
      /\ Cardinality(app.rows) + app.pending = Cardinality(app.online)
  BY <1>1, <1>2 DEF Complete
<1>4. /\ IsFiniteSet(SlicesOf(b)) /\ Cardinality(SlicesOf(b)) = app.pending - 1
      /\ app.pending \in Nat /\ Cardinality(SlicesOf(b)) \in Nat
  BY <1>0, <1>1, <1>3, FS_RemoveElement, FS_CardinalityType, AppTypes
<1>5. b.pending = Cardinality(SlicesOf(b))
  BY <1>0, <1>4
<1>6. j.cluster \in Awaited(app) /\ r.cluster = j.cluster
  BY DEF Awaited, RowOf
<1> HIDE DEF r
<1>7. r \notin app.rows
  BY <1>3, <1>6 DEF Listed
<1>8. IsFiniteSet(b.rows) /\ Cardinality(b.rows) = Cardinality(app.rows) + 1
  <2>1. IsFiniteSet(app.rows)
    BY <1>3
  <2>2. /\ IsFiniteSet(app.rows \cup {r})
        /\ Cardinality(app.rows \cup {r}) = Cardinality(app.rows) + 1
    BY ONLY <1>7, <2>1, FS_AddElement
  <2>3. QED
    BY <1>0, <2>2
<1>9. Listed(b) = Listed(app) \cup {j.cluster}
  <2>1. \A x \in b.rows : x \in app.rows \/ x = r
    BY <1>0
  <2>2. \A x \in app.rows : x \in b.rows
    BY <1>0
  <2>3. r \in b.rows
    BY <1>0
  <2>4. QED
    BY <1>6, <2>1, <2>2, <2>3 DEF Listed
<1>10. Awaited(b) = Awaited(app) \ {j.cluster}
  <2>1. ASSUME NEW k \in SlicesOf(app), k.cluster = j.cluster PROVE k = j
    <3>1. /\ k \in Job /\ j \in Job /\ k.kind = j.kind /\ k.tab = j.tab /\ k.seq = j.seq
          /\ k.kind = "slice" /\ j.seq = app.aggSeq
      BY <1>1, AppTypes DEF SlicesOf
    <3>2. JobInv(app, k) /\ JobInv(app, j) /\ app.aggSeq >= app.aggFloor
      BY <1>1, AppTypes DEF Numbers, SlicesOf
    <3>3. k.gen = j.gen
      BY <3>1, <3>2 DEF JobInv
    <3>4. \A i \in Job : i = [kind |-> i.kind, tab |-> i.tab, seq |-> i.seq,
                              cluster |-> i.cluster, gen |-> i.gen]
      BY DEF Job
    <3>5. QED
      BY <2>1, <3>1, <3>3, <3>4
  <2>2. QED
    BY <1>0, <2>1 DEF Awaited
<1>11. /\ Listed(b) \cap Awaited(b) = {}
       /\ Listed(b) \cup Awaited(b) = b.online
  BY <1>0, <1>3, <1>6, <1>9, <1>10
<1>12. Cardinality(b.rows) + b.pending = Cardinality(b.online)
  <2>1. Cardinality(app.rows) \in Nat
    BY <1>3, FS_CardinalityType
  <2>2. QED
    BY <1>0, <1>3, <1>4, <1>5, <1>8, <2>1
<1>13. Complete(b)
  BY <1>0, <1>4, <1>5, <1>8, <1>11, <1>12 DEF Complete
<1>14. Answered(b)
  <2>1. b.loading => Cardinality(SlicesOf(b)) > 0
    BY <1>0, <1>4
  <2>2. QED
    BY <2>1, FS_EmptySet DEF Answered
<1>15. QED
  BY <1>13, <1>14

LEMMA SliceType ==
    ASSUME NEW m \in App, NEW p \in Nat,
           NEW rows \in SUBSET [cluster : Cluster, from : Listing], NEW l \in BOOLEAN,
           NEW b, b = [m EXCEPT !.pending = p, !.rows = rows, !.loading = l]
    PROVE  b \in App
  BY DEF App

\* The cache has taken a slice, and the view shows the one it waits for.
Show(m, j, from) ==
    [m EXCEPT !.pending = IF @ = 0 THEN 0 ELSE @ - 1,
              !.rows = @ \cup {[cluster |-> j.cluster, from |-> from]},
              !.loading = @ /\ m.pending > 1]

LEMMA ShowSlice ==
    ASSUME IInv, NEW j \in SlicesOf(app), NEW from \in Listing,
           from.is = "rows" => from.cluster = j.cluster /\ from.gen >= app.gen,
           NEW m, Holds(m, "published", misplaced, reselected), SameView(Landed(j), m)
    PROVE  Holds(Show(m, j, from), switching, misplaced, reselected)
<1> DEFINE b == Show(m, j, from)
           p == IF m.pending = 0 THEN 0 ELSE m.pending - 1
           r == RowOf(j, from)
           rows == m.rows \cup {r}
           l == m.loading /\ m.pending > 1
<1>1. Sound(m) /\ m \in App /\ Numbers(m) /\ Views(m) /\ Age(m)
  BY DEF Holds, Sound
<1>2. /\ Sound(app) /\ app \in App /\ Numbers(app)
      /\ j \in app.flight /\ j.kind = "slice" /\ JobInv(app, j)
  BY DEF IInv, Holds, Sound, SlicesOf, Numbers
<1>3. /\ SameNumbers(app, m) /\ m.aggOn = app.aggOn /\ m.online = app.online
      /\ m.rows = app.rows /\ m.pending = app.pending /\ m.tab = app.tab
      /\ m.flight = app.flight \ {j}
  BY <1>2, LandedFields DEF SameView, SameNumbers
<1>4. p \in Nat
  BY <1>1, AppTypes
<1>5. l \in BOOLEAN /\ (l => m.pending > 1)
  BY <1>1, AppTypes
<1>6. /\ r \in [cluster : Cluster, from : Listing] /\ r.from = from /\ r.cluster = j.cluster
      /\ r = [cluster |-> j.cluster, from |-> from]
  BY <1>2 DEF JobInv, RowOf
<1> HIDE DEF r
<1>7. rows \in SUBSET [cluster : Cluster, from : Listing] /\ rows = app.rows \cup {r}
  BY <1>1, <1>3, <1>6, AppTypes
<1>8. b = [m EXCEPT !.pending = p, !.rows = rows, !.loading = l]
  BY <1>6 DEF Show
<1>9. p = IF app.pending = 0 THEN 0 ELSE app.pending - 1
  BY <1>3
<1> HIDE DEF p, rows, l, b
<1>10. b \in App
  BY <1>1, <1>4, <1>5, <1>7, <1>8, SliceType
<1>11. /\ SameNumbers(m, b) /\ SameTabs(m, b) /\ b.flight = m.flight
       /\ b.selected = m.selected /\ b.aggOn = m.aggOn /\ b.online = m.online
       /\ b.tab = m.tab
  BY <1>1, <1>8 DEF App, SameNumbers, SameTabs
<1>12. b.rows = rows /\ b.pending = p
  BY <1>1, <1>8 DEF App
<1>13. b.loading => m.pending > 1
  BY <1>1, <1>5, <1>8 DEF App
<1>14. Sound(b)
  <2>1. Numbers(b)
    BY <1>1, <1>11, NumbersKept
  <2>2. Views(b)
    BY <1>1, <1>11 DEF Views, SameNumbers
  <2>3. Age(b)
    BY <1>1, <1>3, <1>6, <1>7, <1>11, <1>12 DEF Age, SameNumbers, SameTabs
  <2>4. QED
    BY <1>10, <2>1, <2>2, <2>3 DEF Sound
<1>15. Arrived(b, j, from)
  <2>1. SlicesOf(b) = SlicesOf(app) \ {j}
    BY <1>3, <1>11 DEF SlicesOf, SameNumbers
  <2>2. b.rows = app.rows \cup {RowOf(j, from)}
    BY <1>7, <1>12 DEF r
  <2>3. QED
    BY <1>3, <1>9, <1>11, <1>12, <1>13, <2>1, <2>2 DEF Arrived
<1>16. switching # "published" => Complete(b) /\ Answered(b)
  BY <1>15, SliceArrives
<1>17. ~reselected => Labelled(b) /\ RowsLabelled(b) /\ TabHere(b) /\ WarmHere(b)
  BY <1>3, <1>6, <1>7, <1>11, <1>12 DEF Holds, Labelled, RowsLabelled, TabHere, WarmHere,
     SameNumbers, SameTabs
<1>18. ~reselected /\ ~misplaced => Filled(b)
  BY <1>11 DEF Holds, Filled, SameTabs
<1>19. Holds(b, switching, misplaced, reselected)
  BY <1>14, <1>16, <1>17, <1>18 DEF Holds
<1>20. QED
  BY <1>19 DEF b

LEMMA ApplySliceIInv ==
    ASSUME IInv, NEW j \in app.flight, j.kind = "slice", ApplyListing(j) PROVE IInv'
<1> DEFINE a == Landed(j)
<1>1. PICK from \in Results(j) : app' = ApplySlice(a, j, from)
  BY DEF ApplyListing
<1>2. /\ switching' = switching /\ acts' = acts /\ reselected' = reselected
      /\ misplaced' = misplaced
  BY DEF ApplyListing, IInv, KindInv
<1>3. KindInv'
  BY <1>2 DEF IInv, KindInv
<1>4. Sound(app) /\ app \in App /\ Numbers(app) /\ JobInv(app, j)
  BY DEF IInv, Holds, Sound, Numbers
<1>5. /\ a \in App /\ SameNumbers(app, a) /\ SameTabs(app, a)
      /\ a.rows = app.rows /\ a.aggOn = app.aggOn
      /\ a.tab = app.tab /\ a.online = app.online /\ a.pending = app.pending
      /\ a.loading = app.loading /\ a.flight = app.flight \ {j}
  BY <1>4, LandedFields
<1>6. /\ from \in Listing
      /\ from.is = "rows" => from.cluster = j.cluster /\ from.gen >= j.gen
  BY ResultFacts
<1> DEFINE sw == IF j \in SlicesOf(app) THEN "published" ELSE switching
<1>7. Holds(a, sw, misplaced, reselected)
  <2>1. CASE j \in SlicesOf(app)
    BY <2>1, LandedHolds
  <2>2. CASE j \notin SlicesOf(app)
    BY <2>2, LandedHolds DEF Unawaited
  <2>3. QED
    BY <2>1, <2>2
<1>8. app.aggSeq \in Nat /\ app.aggFloor \in Nat /\ app.aggFloor <= app.aggSeq /\ j.seq \in Nat
  BY <1>4, AppTypes DEF Numbers, Job
<1>9. j \in SlicesOf(app) <=> j.seq = app.aggSeq /\ j.tab = app.tab
  BY DEF SlicesOf
<1> HIDE DEF a
<1>10. CASE j.seq < app.aggFloor
  <2>1. app' = a
    BY <1>1, <1>5, <1>10 DEF ApplySlice, SameNumbers
  <2>2. j \notin SlicesOf(app)
    BY <1>8, <1>9, <1>10
  <2>3. QED
    BY <1>2, <1>3, <1>7, <2>1, <2>2 DEF IInv
<1>11. CASE ~(j.seq < app.aggFloor)
  <2> DEFINE cache == IF from = Failed /\ j.tab \in ScopedTab THEN a.aggCache
                      ELSE [a.aggCache EXCEPT ![<<j.tab, j.cluster>>] = from]
             m == [a EXCEPT !.aggCache = cache]
  <2>1. j.gen = app.gen /\ j.cluster \in Cluster /\ j.tab \in Tab /\ a.gen = app.gen
    BY <1>4, <1>5, <1>8, <1>11, AppTypes DEF JobInv, Job, SameNumbers
  <2>2. a.aggCache \in [Tab \X Cluster -> Listing \cup {None}]
    BY <1>5, AppTypes
  <2>3. cache \in [Tab \X Cluster -> Listing \cup {None}]
    BY <1>6, <2>1, <2>2
  <2>4. Takes(a, cache)
    <3>1. SUFFICES ASSUME NEW tc \in Tab \X Cluster, cache[tc] # a.aggCache[tc]
                   PROVE  cache[tc].is = "rows" =>
                             cache[tc].gen >= a.gen /\ cache[tc].cluster = tc[2]
      BY DEF Takes
    <3>2. tc = <<j.tab, j.cluster>> /\ cache[tc] = from
      BY <2>1, <2>2, <3>1
    <3>3. QED
      BY <1>6, <2>1, <3>2
  <2>5. IF from = Failed /\ j.tab \in ScopedTab THEN m = a
        ELSE m = [a EXCEPT !.aggCache[<<j.tab, j.cluster>>] = from]
    BY <1>5 DEF App
  <2>6. app' = IF j.seq # m.aggSeq \/ j.tab # m.tab THEN m ELSE Show(m, j, from)
    BY <1>1, <1>5, <1>11, <2>5 DEF ApplySlice, SameNumbers, Show
  <2>7. m = [a EXCEPT !.aggCache = cache]
    OBVIOUS
  <2> HIDE DEF cache, m, sw
  <2>8. Holds(m, sw, misplaced, reselected) /\ SameView(a, m)
    BY <1>7, <2>3, <2>4, <2>7, CacheHolds
  <2>9. m.aggSeq = app.aggSeq /\ m.tab = app.tab
    BY <1>5, <2>8 DEF SameNumbers, SameView
  <2>10. CASE j \notin SlicesOf(app)
    <3>1. app' = m
      BY <1>9, <2>6, <2>9, <2>10
    <3>2. QED
      BY <1>2, <1>3, <2>8, <2>10, <3>1 DEF IInv, sw
  <2>11. CASE j \in SlicesOf(app)
    <3>1. app' = Show(m, j, from)
      BY <1>9, <2>6, <2>9, <2>11
    <3>2. Holds(m, "published", misplaced, reselected) /\ SameView(Landed(j), m)
      BY <2>8, <2>11 DEF sw, a
    <3>4. from.is = "rows" => from.cluster = j.cluster /\ from.gen >= app.gen
      BY <1>6, <2>1
    <3>5. Holds(Show(m, j, from), switching, misplaced, reselected)
      BY <1>6, <2>11, <3>2, <3>4, ShowSlice
    <3>6. QED
      BY <1>2, <1>3, <3>1, <3>5 DEF IInv
  <2>12. QED
    BY <2>10, <2>11
<1>12. QED
  BY <1>10, <1>11


\* The clusters land: the cache is kept, or dropped whole.
Selects(a, b, sel, cache) ==
    /\ SameNumbers(a, b) /\ b.lists = a.lists /\ b.cacheKey = a.cacheKey
    /\ b.aggCache = cache /\ b.rows = a.rows /\ b.flight = a.flight
    /\ b.selected = sel /\ b.aggOn = a.aggOn /\ b.tab = a.tab

LEMMA TopologyType ==
    ASSUME NEW a \in App, NEW sel \in Cluster, NEW online \in SUBSET Cluster,
           NEW cache \in [Tab \X Cluster -> Listing \cup {None}],
           NEW b, b = [a EXCEPT !.selected = sel, !.online = online, !.aggCache = cache]
    PROVE  b \in App /\ Selects(a, b, sel, cache)
  BY DEF App, SameNumbers, Selects

LEMMA ApplyClustersIInv ==
    ASSUME IInv, NEW j \in app.flight, ApplyClusters(j) PROVE IInv'
<1> DEFINE a == Landed(j)
<1>1. j.kind = "clusters" /\ switching' = switching /\ acts' = acts /\ misplaced' = misplaced
  BY DEF ApplyClusters
<1>2. Unawaited(j)
  BY <1>1 DEF Unawaited, SlicesOf
<1>3. Holds(a, switching, misplaced, reselected)
  BY <1>2, LandedHolds DEF Unawaited
<1>4. /\ a \in App /\ Sound(a) /\ Views(a)
      /\ a.selected = app.selected /\ a.aggOn = app.aggOn
  BY LandedFields DEF IInv, Holds, Sound
<1>5. CASE app' = a /\ UNCHANGED reselected
  BY <1>1, <1>3, <1>5 DEF IInv, KindInv
<1>6. ASSUME NEW sel \in Cluster, NEW online \in SUBSET Cluster,
             NEW warm \in WarmSets(ApplyTopology(a, sel, online)),
             app' = PrefetchAll(ApplyTopology(a, sel, online), warm),
             reselected' = (reselected \/ (app.aggOn /\ app.selected \notin {None, sel}))
      PROVE  IInv'
  <2> DEFINE cache == IF a.selected = None \/ a.online # online
                      THEN [tc \in Tab \X Cluster |-> None] ELSE a.aggCache
             b == [a EXCEPT !.selected = sel, !.online = online, !.aggCache = cache]
  <2>1. ApplyTopology(a, sel, online) = ReloadActive(b)
    BY DEF ApplyTopology
  <2>2. cache \in [Tab \X Cluster -> Listing \cup {None}]
    BY <1>4, AppTypes
  <2>3. \A tc \in Tab \X Cluster : cache[tc] = a.aggCache[tc] \/ cache[tc] = None
    OBVIOUS
  <2>4. b = [a EXCEPT !.selected = sel, !.online = online, !.aggCache = cache]
    OBVIOUS
  <2> HIDE DEF cache, b, a
  <2>5. /\ b \in App /\ SameNumbers(a, b) /\ b.lists = a.lists /\ b.cacheKey = a.cacheKey
        /\ b.aggCache = cache /\ b.rows = a.rows /\ b.flight = a.flight
        /\ b.selected = sel /\ b.aggOn = a.aggOn /\ b.tab = a.tab
    <3>1. b \in App /\ Selects(a, b, sel, cache)
      BY <1>4, <2>2, <2>4, TopologyType
    <3>2. QED
      BY <3>1 DEF Selects
  <2>6. sel # None
    OBVIOUS
  <2>7. Sound(b)
    <3>1. Views(b)
      BY <1>4, <2>5, <2>6 DEF Views, SameNumbers
    <3>2. SameRows(a, b)
      BY <2>3, <2>5 DEF SameRows, SameNumbers
    <3>3. QED
      BY <1>4, <2>5, <3>1, <3>2, EditSound
  <2>8. (reselected => reselected') /\ (a.aggOn /\ ~reselected' => a.selected = sel)
    BY <1>4, <1>6 DEF Views
  <2>9. Labelled(a) => Labelled(b)
    BY <2>3, <2>5 DEF Labelled, Tab
  <2>10. Filled(a) => Filled(b)
    BY <2>5 DEF Filled
  <2>11. a.selected = sel /\ TabHere(a) /\ WarmHere(a) => TabHere(b) /\ WarmHere(b)
    BY <2>5 DEF TabHere, WarmHere, SameNumbers
  <2>12. /\ ~reselected' => Labelled(b) /\ (~b.aggOn \/ (TabHere(b) /\ WarmHere(b)))
         /\ ~reselected' /\ ~misplaced => Filled(b)
    BY <1>3, <2>5, <2>8, <2>9, <2>10, <2>11 DEF Holds
  <2>13. warm \in WarmSets(ReloadActive(b)) /\ app' = PrefetchAll(ReloadActive(b), warm)
    BY <1>6, <2>1
  <2>14. b.selected # None /\ (switching = "no" => switching # "published")
    BY <2>5, <2>6
  <2>15. Holds(PrefetchAll(ReloadActive(b), warm), switching, misplaced, reselected')
    BY <2>7, <2>12, <2>13, <2>14, ReloadWarmHolds
  <2>16. KindInv'
    BY <1>1, <1>6 DEF IInv, KindInv
  <2>17. QED
    BY <1>1, <2>13, <2>15, <2>16 DEF IInv
<1>7. QED
  BY <1>5, <1>6 DEF ApplyClusters

\* A session with nothing in it yet.
LEMMA EmptyType ==
    ASSUME NEW lists \in [Tab -> Listing],
           NEW keys \in [Tab -> Cluster \cup {None, Admin, NoKey}],
           NEW cache \in [Tab \X Cluster -> Listing \cup {None}],
           NEW tab \in Tab, NEW no \in BOOLEAN
    PROVE  [tab |-> tab, selected |-> None, online |-> {},
            lists |-> lists, cacheKey |-> keys,
            aggOn |-> no, aggSeq |-> 0, aggFloor |-> 0, pending |-> 0, rows |-> {},
            aggCache |-> cache, tabReq |-> 0, prefetchSeq |-> 0, prefetchCluster |-> None,
            loading |-> no, gen |-> 0, flight |-> {}] \in App
  BY DEF App

LEMMA InitIInv == ASSUME Init PROVE IInv
<1> DEFINE lists == [t \in Tab |-> Cleared]
           keys == [t \in Tab |-> NoKey]
           cache == [tc \in Tab \X Cluster |-> None]
           a == [tab |-> Home, selected |-> None, online |-> {},
                 lists |-> lists, cacheKey |-> keys,
                 aggOn |-> FALSE, aggSeq |-> 0, aggFloor |-> 0, pending |-> 0, rows |-> {},
                 aggCache |-> cache, tabReq |-> 0, prefetchSeq |-> 0, prefetchCluster |-> None,
                 loading |-> FALSE, gen |-> 0, flight |-> {}]
<1>1. app = AskClusters(a)
  BY DEF Init
<1>2. KindInv
  <2>1. switching = "no" /\ acts = 0 /\ misplaced = FALSE /\ reselected = FALSE
    BY DEF Init
  <2>2. acts \in 0 .. MaxActs
    BY <2>1
  <2>3. misplaced \in BOOLEAN /\ reselected \in BOOLEAN
    BY <2>1, Zenon
  <2>4. QED
    BY <2>1, <2>2, <2>3 DEF KindInv
<1>3. /\ lists \in [Tab -> Listing] /\ keys \in [Tab -> Cluster \cup {None, Admin, NoKey}]
      /\ cache \in [Tab \X Cluster -> Listing \cup {None}] /\ Home \in Tab /\ FALSE \in BOOLEAN
  BY ListingTypes DEF Tab
<1>4. Blank(a)
  BY ListingTypes DEF Blank
<1>5. a.flight = {} /\ a.aggFloor <= a.aggSeq /\ a.rows = {}
  OBVIOUS
<1> HIDE DEF lists, keys, cache
<1>6. a \in App
  BY <1>3, EmptyType
<1> HIDE DEF a
<1>7. Sound(a)
  BY <1>4, <1>5, <1>6 DEF Sound, Numbers, Views, Age, Blank
<1>8. Holds(app, switching, misplaced, reselected)
  BY <1>1, <1>4, <1>7, AskBlankHolds
<1>9. QED
  BY <1>2, <1>8 DEF IInv

LEMMA ListingIInv == ASSUME IInv, NEW j \in app.flight, ApplyListing(j) PROVE IInv'
<1>1. j.kind \in {"tab", "prefetch", "slice"}
  BY AppTypes DEF IInv, Holds, Sound, Job, ApplyListing
<1>2. QED
  BY <1>1, ApplyTabIInv, ApplyPrefetchIInv, ApplySliceIInv

LEMMA NextIInv == ASSUME IInv, [Next]_vars PROVE IInv'
<1>1. CASE User
  BY <1>1, PressTabIInv, InvalidateIInv, SelectScopedClusterIInv, LoginAgainIInv, RefreshIInv,
     ShowAllClustersIInv, SessionEndsIInv, ProfileLoginIInv, ChooseProfileIInv DEF User
<1>2. CASE PublishSwitch
  BY <1>2, PublishSwitchIInv
<1>3. CASE ProfileSwitched
  BY <1>3, ProfileSwitchedIInv
<1>4. CASE Landing
  BY <1>4, ListingIInv, ApplyClustersIInv, SkipIInv DEF Landing
<1>5. CASE UNCHANGED vars
  BY <1>5 DEF vars, IInv, KindInv
<1>6. QED
  BY <1>1, <1>2, <1>3, <1>4, <1>5 DEF Next, Quiet

\* The inductive invariant holds in every behaviour.
THEOREM Invariance == Spec => []IInv
<1>1. Init => IInv
  BY InitIInv
<1>2. IInv /\ [Next]_vars => IInv'
  BY NextIInv
<1>3. QED
  BY <1>1, <1>2, PTL DEF Spec

-----------------------------------------------------------------------------
(* The properties.                                                         *)

\* The spinner never turns for nothing: while it does, a switch is under way, the
\* latest request of the tab is, or a slice of the fan-out on screen; and no
\* request number is ahead of its counter.
THEOREM SpinnerIsAnswered == Spec => []LoadingIsAnswered
<1>1. ASSUME IInv PROVE TypeOK
  <2>1. /\ app \in App /\ app.aggFloor <= app.aggSeq
        /\ \A j \in app.flight : JobInv(app, j)
    BY <1>1 DEF IInv, Holds, Sound, Numbers
  <2>2. \A j \in app.flight : j.kind \in {"tab", "prefetch", "slice", "clusters"}
    BY <2>1, AppTypes DEF Job
  <2>3. \A j \in app.flight : j.seq <= Issued(j) /\ j.gen <= app.gen
    BY <2>1, <2>2 DEF JobInv, Issued
  <2>4. QED
    BY <1>1, <2>1, <2>3 DEF TypeOK, IInv, KindInv
<1>2. ASSUME IInv PROVE LoadingIsAnswered
  <2>1. Slices = SlicesOf(app)
    BY DEF Slices, SlicesOf
  <2>2. switching = "no" => Answered(app)
    BY <1>2 DEF IInv, Holds
  <2>3. QED
    BY <1>1, <1>2, <2>1, <2>2 DEF LoadingIsAnswered, Answered
<1>3. IInv => LoadingIsAnswered
  BY <1>2
<1>4. QED
  BY <1>3, Invariance, PTL

\* What a cluster-scoped tab shows without asking again was read from the
\* selected cluster, but for the two known ways to break it.
THEOREM ScopedCache == Spec => []ScopedCacheIsOfItsCluster
<1>1. ASSUME IInv PROVE ScopedCacheIsOfItsCluster
  <2>1. SUFFICES ASSUME ~misplaced, ~reselected, app.selected # None,
                        NEW t \in ScopedTab, Cached(app, t)
                 PROVE  app.lists[t].is = "rows" /\ app.lists[t].cluster = app.selected
    BY DEF ScopedCacheIsOfItsCluster
  <2>2. app.selected \in Cluster
    BY <1>1, <2>1, AppTypes DEF IInv, Holds, Sound
  <2>3. app.cacheKey[t] = app.selected
    BY <2>1 DEF Cached, Key
  <2>4. Labelled(app) /\ Filled(app)
    BY <1>1, <2>1 DEF IInv, Holds
  <2>5. QED
    BY <2>2, <2>3, <2>4 DEF Labelled, Filled
<1>2. IInv => ScopedCacheIsOfItsCluster
  BY <1>1
<1>3. QED
  BY <1>2, Invariance, PTL

\* The all-clusters view has, for each online cluster, either its rows or a slice
\* still awaited, never both, never neither, and counts the slices right.
THEOREM Aggregate == Spec => []AggregateIsComplete
<1>1. ASSUME IInv PROVE AggregateIsComplete
  <2>1. Slices = SlicesOf(app)
    BY DEF Slices, SlicesOf
  <2>2. switching # "published" => Complete(app)
    BY <1>1 DEF IInv, Holds
  <2>3. QED
    BY <2>1, <2>2 DEF AggregateIsComplete, Complete, Listed, Awaited
<1>2. IInv => AggregateIsComplete
  BY <1>1
<1>3. QED
  BY <1>2, Invariance, PTL

\* In the all-clusters view and its cache, the rows of a cluster-scoped tab were
\* read from the cluster they are labelled with.
THEOREM ScopedRows == Spec => []ScopedRowsAreTheirClusters
<1>1. ASSUME IInv PROVE ScopedRowsAreTheirClusters
  <2>1. SUFFICES ASSUME ~reselected PROVE LabelsHold(ScopedTab)
    BY DEF ScopedRowsAreTheirClusters
  <2>2. Labelled(app) /\ RowsLabelled(app)
    BY <1>1, <2>1 DEF IInv, Holds
  <2>3. ASSUME NEW t \in ScopedTab, NEW c \in Cluster, app.aggCache[<<t, c>>] \in KeptRows
        PROVE  app.aggCache[<<t, c>>].cluster = c
    <3>1. app.aggCache[<<t, c>>] # None /\ app.aggCache[<<t, c>>].is = "rows"
      BY <2>3 DEF KeptRows
    <3>2. QED
      BY <2>2, <3>1 DEF Labelled
  <2>4. QED
    BY <2>2, <2>3 DEF LabelsHold, RowsLabelled
<1>2. IInv => ScopedRowsAreTheirClusters
  BY <1>1
<1>3. QED
  BY <1>2, Invariance, PTL

\* Nothing that is kept or shown was read for an older profile.
THEOREM NothingOlder == Spec => []NothingOfAnOlderProfile
<1>1. ASSUME IInv PROVE NothingOfAnOlderProfile
  <2>1. Age(app)
    BY <1>1 DEF IInv, Holds, Sound
  <2>2. SUFFICES ASSUME NEW l \in Kept, l # None, l.is = "rows" PROVE l.gen >= app.gen
    BY DEF NothingOfAnOlderProfile, KeptRows
  <2>3. \/ \E t \in Tab : l = app.lists[t]
        \/ \E r \in app.rows : l = r.from
        \/ \E tc \in Tab \X Cluster : l = app.aggCache[tc]
    BY DEF Kept
  <2>4. QED
    BY <2>1, <2>2, <2>3 DEF Age
<1>2. IInv => NothingOfAnOlderProfile
  BY <1>1
<1>3. QED
  BY <1>2, Invariance, PTL
=============================================================================
